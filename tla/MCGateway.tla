----------------------------- MODULE MCGateway -----------------------------
(* Instances of Gateway for TLC: the .cfg files choose the requests.        *)
EXTENDS Gateway, TLC

CONSTANTS a, b, h1, h2, i1, p1

\* Services play the same part (only descriptors are ordered).
ServiceSymmetry == Permutations(Services)
=============================================================================
