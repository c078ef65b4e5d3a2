SPECIFICATION FairSpec
CONSTANTS
  p1 = p1
  p2 = p2
  e1 = e1
  e2 = e2
  e3 = e3
  s1 = s1
  s2 = s2
  t1 = t1
  t2 = t2
  Publishers = {p1}
  Events = {e1, e2, e3}
  Subs = {s1, s2}
  Topics = {t1, t2}
  TopicOf <- MCTopicOf
  SubTopic <- MCSubTopic
INVARIANTS
  TypeOK
  UnsubscribedIsQuiet
  StopDrains
PROPERTIES
  ImplementsChannel
  AcceptedIsDispatched
  StopReturns
