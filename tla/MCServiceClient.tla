-------------------------- MODULE MCServiceClient --------------------------
(* Instances of ServiceClient for TLC: requests and calls are model values. *)
EXTENDS ServiceClient

CONSTANTS w1, w2, v1, v2
=============================================================================
