--------------------------- MODULE ApprovalLedger ---------------------------
(***************************************************************************)
(* What the approval subsystem promises about each approved action,        *)
(* without runs, workers, leases, queues or crashes: an approval is        *)
(* granted or refused once, a granted one is spent once, the action is     *)
(* invoked at most once and only when its approval is spent, and "done" is *)
(* reported only of an action that was invoked.                            *)
(***************************************************************************)
EXTENDS Naturals

CONSTANT Approvals

VARIABLES state, effects, outcome

ledger == <<state, effects, outcome>>

Init ==
    /\ state = [a \in Approvals |-> "absent"]
    /\ effects = [a \in Approvals |-> 0]
    /\ outcome = [a \in Approvals |-> "none"]

Move(a, from, to) ==
    /\ state[a] = from
    /\ state' = [state EXCEPT ![a] = to]
    /\ UNCHANGED effects

Open(a) == Move(a, "absent", "open") /\ UNCHANGED outcome

Grant(a) == Move(a, "open", "granted") /\ UNCHANGED outcome

Refuse(a) == Move(a, "open", "refused") /\ UNCHANGED outcome

Spend(a) ==
    /\ Move(a, "granted", "spent")
    /\ outcome' = [outcome EXCEPT ![a] = "started"]

Act(a) ==
    /\ state[a] = "spent"
    /\ effects[a] = 0
    /\ effects' = [effects EXCEPT ![a] = 1]
    /\ UNCHANGED <<state, outcome>>

\* A late report may replace an earlier one.
Report(a, verdict) ==
    /\ state[a] = "spent"
    /\ verdict = "done" => effects[a] = 1
    /\ outcome' = [outcome EXCEPT ![a] = verdict]
    /\ UNCHANGED <<state, effects>>

Next ==
    \E a \in Approvals :
        \/ Open(a) \/ Grant(a) \/ Refuse(a) \/ Spend(a) \/ Act(a)
        \/ \E verdict \in {"done", "unclear"} : Report(a, verdict)

Spec == Init /\ [][Next]_ledger
=============================================================================
