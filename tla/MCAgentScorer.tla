--------------------------- MODULE MCAgentScorer ---------------------------
(***************************************************************************)
(* An instance of AgentScorer for TLC.                                     *)
(***************************************************************************)
EXTENDS AgentScorer

\* An answer with a score and a tier that is none of the four.
SomeAnswers == {[score |-> 60, tier |-> "HIGH"]}
=============================================================================
