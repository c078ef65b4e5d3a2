---------------------------- MODULE EventRouter ----------------------------
(***************************************************************************)
(* The gateway's routing table, the administrators' requests that change   *)
(* it over HTTP, and the file that keeps it across restarts.               *)
(*                                                                         *)
(* Every change is made under the table's lock and saved after the lock is *)
(* released: the file is opened, which empties it, the table is copied     *)
(* under the lock again, and the copy is written.  Nothing keeps two saves *)
(* apart.                                                                  *)
(***************************************************************************)
EXTENDS Naturals, Sequences, FiniteSets

CONSTANTS RuleIds,      \* names for the random ids of rules
          Inputs,       \* what is routed: a capability with its payload, or a method and path
          MaxPriority,  \* priorities are 0..MaxPriority
          MaxRules,     \* bound: rules in the table
          Admins        \* HTTP threads in a /routes handler

ASSUME EventRouterAssumption == MaxPriority \in Nat /\ MaxRules \in Nat

VARIABLES rules,      \* rules_
          routeFile,  \* the file: [is, table] with is "empty", "torn" (not JSON) or "json"
          saveLost,   \* history: the last save overlapped another one or could not be made
          admin       \* the handler each thread is in

routeVars == <<rules, routeFile, saveLost, admin>>

\* A rule matches some inputs (its capability or path, and its condition) and
\* leads to an output of its own, here its id.
Bodies == [priority : 0..MaxPriority, enabled : BOOLEAN, matches : SUBSET Inputs \ {{}}]
Rules == [id : RuleIds, body : Bodies]

Holds(table) == [is |-> "json", table |-> table]
Empty == [is |-> "empty", table |-> <<>>]
Torn == [is |-> "torn", table |-> <<>>]

NoHandler == [next |-> "none", copy |-> <<>>, reply |-> FALSE]
Saving == {"open", "copy", "write"}

IsTable(s) == s \in Seq(Rules) /\ Len(s) <= MaxRules

RouterTypeOK ==
  /\ IsTable(rules)
  /\ routeFile.is \in {"empty", "torn", "json"} /\ IsTable(routeFile.table)
  /\ saveLost \in BOOLEAN
  /\ \A a \in Admins :
       /\ admin[a].next \in Saving \cup {"none", "reply"}
       /\ IsTable(admin[a].copy)

RouterInit ==
  /\ rules = <<>> /\ routeFile = Empty /\ saveLost = FALSE
  /\ admin = [a \in Admins |-> NoHandler]

-----------------------------------------------------------------------------
Matches(r, in) == in \in r.body.matches
Firsts(s, in) == {i \in 1..Len(s) : s[i].body.enabled /\ Matches(s[i], in)}

\* resolve and resolveFromPath: the first enabled rule that matches.
Resolve(s, in) ==
  IF Firsts(s, in) = {} THEN "passthrough"
  ELSE s[CHOOSE i \in Firsts(s, in) : \A j \in Firsts(s, in) : i <= j].id

\* mutant: rules of equal priority change places
Before_Unstable(s, j, i) ==
  \/ s[j].body.priority > s[i].body.priority
  \/ s[j].body.priority = s[i].body.priority /\ j > i

\* The order of the sort: the highest priority first, equal ones as they stand.
Before(s, j, i) ==
  \/ s[j].body.priority > s[i].body.priority
  \/ s[j].body.priority = s[i].body.priority /\ j < i

\* The place of rule i in the sorted table.
Rank(s, i) == 1 + Cardinality({j \in 1..Len(s) : Before(s, j, i)})

\* std::stable_sort
sortRules(s) == [k \in 1..Len(s) |-> s[CHOOSE i \in 1..Len(s) : Rank(s, i) = k]]

\* loadFromFile: a file that is not a JSON array leaves the table empty.
Loaded(f) == IF f.is = "json" THEN sortRules(f.table) ELSE <<>>

\* What std::find_if finds: the first rule with that id.
HasRule(id) == \E i \in 1..Len(rules) : rules[i].id = id
FindRule(id) == CHOOSE i \in 1..Len(rules) :
                  rules[i].id = id /\ \A j \in 1..(i - 1) : rules[j].id # id

Begin(a, reply) ==
  /\ admin[a].next = "none"
  /\ admin' = [admin EXCEPT ![a] = [next |-> "open", copy |-> <<>>, reply |-> reply]]
  /\ UNCHANGED <<routeFile, saveLost>>

\* GET /routes, GET /routes/{id}: like the routing itself, they change nothing.
ListRules == UNCHANGED routeVars
GetRule(id) == HasRule(id) /\ UNCHANGED routeVars

\* POST /routes.
addRule(a, id, body) ==
  /\ ~HasRule(id)
  /\ Len(rules) < MaxRules
  /\ rules' = sortRules(Append(rules, [id |-> id, body |-> body]))
  /\ Begin(a, TRUE)

\* PUT /routes/{id}; 404 for a rule that is not there changes nothing.
updateRule(a, id, body) ==
  /\ HasRule(id)
  /\ rules' = sortRules([rules EXCEPT ![FindRule(id)] = [id |-> id, body |-> body]])
  /\ Begin(a, TRUE)

\* DELETE /routes/{id}
removeRule(a, id) ==
  /\ HasRule(id)
  /\ rules' = [i \in 1..(Len(rules) - 1) |-> rules[IF i < FindRule(id) THEN i ELSE i + 1]]
  /\ Begin(a, FALSE)

SaveEnds(a) == IF admin[a].reply THEN [admin[a] EXCEPT !.next = "reply", !.copy = <<>>]
               ELSE NoHandler

OpenFile(a) ==
  /\ admin[a].next = "open"
  /\ routeFile' = Empty
  /\ saveLost' = \E b \in Admins \ {a} : admin[b].next \in {"copy", "write"}
  /\ admin' = [admin EXCEPT ![a].next = "copy"]
  /\ UNCHANGED rules

\* persistIfConfigured does not look at what saveToFile returns.
OpenFails(a) ==
  /\ admin[a].next = "open"
  /\ saveLost' = TRUE
  /\ admin' = [admin EXCEPT ![a] = SaveEnds(a)]
  /\ UNCHANGED <<rules, routeFile>>

CopyRules(a) ==
  /\ admin[a].next = "copy"
  /\ admin' = [admin EXCEPT ![a].next = "write", ![a].copy = rules]
  /\ UNCHANGED <<rules, routeFile, saveLost>>

\* Over the text of another save that overlapped, what is longer sticks out.
WriteFile(a) ==
  /\ admin[a].next = "write"
  /\ routeFile' \in {Holds(admin[a].copy)} \cup (IF routeFile = Empty THEN {} ELSE {Torn})
  /\ admin' = [admin EXCEPT ![a] = SaveEnds(a)]
  /\ UNCHANGED <<rules, saveLost>>

\* The handler reads the rule back for its answer.  When another administrator
\* has deleted it, an empty optional is dereferenced: garbage, or RouterRestarts.
Reply(a) ==
  /\ admin[a].next = "reply"
  /\ admin' = [admin EXCEPT ![a] = NoHandler]
  /\ UNCHANGED <<rules, routeFile, saveLost>>

\* The gateway dies and starts again on the same file.
RouterRestarts ==
  /\ rules' = Loaded(routeFile)
  /\ admin' = [a \in Admins |-> NoHandler]
  /\ UNCHANGED <<routeFile, saveLost>>

RouterNext ==
  \/ \E a \in Admins :
       \/ \E id \in RuleIds :
            \/ \E body \in Bodies : addRule(a, id, body) \/ updateRule(a, id, body)
            \/ removeRule(a, id)
       \/ OpenFile(a)
       \/ OpenFails(a)
       \/ CopyRules(a)
       \/ WriteFile(a)
       \/ Reply(a)
  \/ ListRules
  \/ \E id \in RuleIds : GetRule(id)
  \/ RouterRestarts

RouterSpec == RouterInit /\ [][RouterNext]_routeVars

-----------------------------------------------------------------------------
\* Once no save is under way, a restart routes everything as before, unless the
\* last saves overlapped: a change made while another handler saves is in one of
\* the two files, since the copy is made after the file was emptied
\* (EventRouter::saveToFile).
RoutesSaved ==
  ~saveLost /\ (\A a \in Admins : admin[a].next \notin Saving) =>
     \A in \in Inputs : Resolve(Loaded(routeFile), in) = Resolve(rules, in)
=============================================================================
