--------------------------- MODULE MCRunLifecycle ---------------------------
(***************************************************************************)
(* Instances of RunLifecycle for TLC.                                      *)
(***************************************************************************)
EXTENDS RunLifecycle, TLC

\* Every step between the claim and the final write: a worker may stall anywhere.
AnyStep == Working

\* Invoking an approved tool, which no heartbeat covers.
Continuation == {"call", "seal"}

\* Workers are interchangeable.
Symmetry == Permutations(Workers)
=============================================================================
