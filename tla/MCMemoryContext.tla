-------------------------- MODULE MCMemoryContext --------------------------
(***************************************************************************)
(* An instance of MemoryContext for TLC.                                   *)
(***************************************************************************)
EXTENDS MemoryContext, TLC

CONSTANTS m1, m2, s1, s2

Sizes == m1 :> 3 @@ m2 :> 5

\* A policy, two kinds of untrusted text outside the layers that differ in relevance only,
\* and a schema that an outsider wrote.
SomeExtras ==
    {[type |-> "system_policy", size |-> 4, relevance |-> 0, flagged |-> FALSE],
     [type |-> "tool_output", size |-> 2, relevance |-> 1, flagged |-> FALSE],
     [type |-> "external_data", size |-> 2, relevance |-> 2, flagged |-> FALSE],
     [type |-> "tool_schemas", size |-> 2, relevance |-> 0, flagged |-> TRUE]}

Symmetry == Permutations(Sessions)
=============================================================================
