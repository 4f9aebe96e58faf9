-------------------------- MODULE CoordinatorSteps --------------------------
(***************************************************************************)
(* What RunLifecycle takes the coordinator of one run to be: two reads of  *)
(* the control request, then work that goes on until it ends with a result *)
(* or is broken off.  PAUSED and CANCELLED answer a request that stands,   *)
(* WAITING_APPROVAL comes with the approval that is waited for, and an     *)
(* ended coordinator does nothing more.                                    *)
(***************************************************************************)

VARIABLES step, result, asked, control

steps == <<step, result, asked, control>>

Init ==
    /\ step = "pauseCheck"
    /\ result = "NONE"
    /\ asked = FALSE
    /\ control = "none"

\* A read may fail, which counts as no request.
Proceed ==
    /\ \/ step = "pauseCheck" /\ step' = "stopCheck"
       \/ step = "stopCheck" /\ step' = "act"
    /\ UNCHANGED <<result, asked, control>>

End(final) == step' = "ended" /\ result' = final

Interrupt ==
    /\ \/ step \in {"pauseCheck", "act"} /\ control = "pause" /\ End("PAUSED")
       \/ step \in {"stopCheck", "act"} /\ control = "stop" /\ End("CANCELLED")
    /\ UNCHANGED <<asked, control>>

Finish(final) == step = "act" /\ End(final) /\ UNCHANGED <<asked, control>>

RequestApproval ==
    /\ step = "act" /\ ~asked
    /\ End("WAITING_APPROVAL")
    /\ asked' = TRUE
    /\ UNCHANGED control

\* An exception escapes.
Raise ==
    /\ step \notin {"ended", "dead"}
    /\ step' = "dead"
    /\ UNCHANGED <<result, asked, control>>

Control(c) == control' = c /\ UNCHANGED <<step, result, asked>>

Next ==
    \/ Proceed \/ Interrupt \/ RequestApproval \/ Raise
    \/ \E final \in {"COMPLETED", "FAILED"} : Finish(final)
    \/ \E c \in {"none", "pause", "stop"} : Control(c)

Spec == Init /\ [][Next]_steps
=============================================================================
