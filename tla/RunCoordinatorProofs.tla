------------------------ MODULE RunCoordinatorProofs ------------------------
(***************************************************************************)
(* For every plan, budget, policy override and number of database          *)
(* failures: the coordinator implements the steps that RunLifecycle takes  *)
(* it to do, completes only over recorded calls, heeds a stop and keeps    *)
(* its budgets.                                                            *)
(***************************************************************************)
EXTENDS RunCoordinator, TLAPS, FiniteSetTheorems

USE DEF planVars, workVars, storeVars

Sound(p) ==
    /\ Cardinality(DOMAIN p) \in 1..MaxActions
    /\ \A i \in DOMAIN p :
          /\ p[i].tool \in KNOWN_TOOLS
          /\ p[i].tool = "github_repo_read" => p[i].repo /\ RepoConfigured

\* Whatever the model answers, the plan is sound.
LEMMA PlanMade ==
    ASSUME NEW answer \in Answers
    PROVE  /\ DOMAIN make_plan(answer) \subseteq 1..MaxAnswer
           /\ \A i \in DOMAIN make_plan(answer) : make_plan(answer)[i].tool \in Tools
           /\ Sound(make_plan(answer))
  <1> DEFINE S == Stripped(answer)
             R == Runnable(answer, S)
  <1>1. DOMAIN answer \subseteq 1..MaxAnswer /\ \A i \in DOMAIN answer : answer[i].tool \in Tools
    <2>1. PICK n \in 0..MaxAnswer : answer \in [1..n -> PlanAction]
      BY DEF Answers
    <2>2. \A a \in PlanAction : a.tool \in Tools
      BY DEF PlanAction
    <2>3. n \in Nat /\ n <= MaxAnswer /\ MaxAnswer \in Nat
      BY RunCoordinatorAssumption
    <2>4. QED
      BY <2>1, <2>2, <2>3
  <1>2. R \subseteq S /\ S \subseteq DOMAIN answer
    BY DEF Stripped, Runnable
  <1>3. CASE Usable(answer)
    <2>1. make_plan(answer) = [i \in R |-> answer[i]]
      BY <1>3 DEF make_plan
    <2>2. IsFiniteSet(1..MaxAnswer)
      BY FS_Interval, RunCoordinatorAssumption
    <2>3. IsFiniteSet(S) /\ IsFiniteSet(R)
      BY <1>1, <1>2, <2>2, FS_Subset
    <2>4. Cardinality(R) <= Cardinality(S)
      BY <1>2, <2>3, FS_Subset
    <2>5. Cardinality(R) \in Nat /\ Cardinality(S) \in Nat
      BY <2>3, FS_CardinalityType
    <2>6. Cardinality(R) # 0
      BY <1>3, <2>3, FS_EmptySet DEF Usable
    <2>7. Cardinality(S) <= MaxActions
      BY <1>3, RunCoordinatorAssumption DEF Usable, TaskPlan
    <2>8. Cardinality(R) \in 1..MaxActions
      BY <2>4, <2>5, <2>6, <2>7, RunCoordinatorAssumption
    <2>9. \A i \in R : /\ answer[i].tool \in KNOWN_TOOLS
                       /\ answer[i].tool = "github_repo_read" => answer[i].repo /\ RepoConfigured
      BY <1>2, <1>3 DEF Usable, TaskPlan, Stripped, Runnable
    <2>10. QED
      BY <1>1, <1>2, <2>1, <2>8, <2>9 DEF Sound
  <1>4. CASE ~Usable(answer)
    <2>1. make_plan(answer) = [i \in {1} |-> [tool |-> "internal_health", repo |-> FALSE]]
      BY <1>4 DEF make_plan, Template
    <2>2. Cardinality({1}) = 1
      BY FS_Singleton
    <2>3. QED
      BY <2>1, <2>2, RunCoordinatorAssumption DEF Sound, KNOWN_TOOLS
  <1>5. QED
    BY <1>3, <1>4

-----------------------------------------------------------------------------

\* A breaker that is open has ended the loop.
TypeInv ==
    /\ TypeOK
    /\ pc \notin {"finish", "returned"} => \A t \in Tools : breaker[t] < Threshold
    /\ pc # "plan" => Sound(plan)

\* Every initial state satisfies the type invariant.
LEMMA InitTypeInv == Init => TypeInv
  <1> SUFFICES ASSUME Init PROVE TypeInv
    OBVIOUS
  <1>1. /\ DOMAIN plan = {1} /\ plan[1].tool = "internal_health" /\ act = 1
        /\ 1 \in 1..MaxAnswer
    BY RunCoordinatorAssumption DEF Init, Template
  <1>2. breaker \in [Tools -> 0..Threshold] /\ \A t \in Tools : breaker[t] < Threshold
    BY RunCoordinatorAssumption DEF Init
  <1>3. QED
    BY <1>1, <1>2, RunCoordinatorAssumption DEF Init, TypeInv, TypeOK, Statuses, Open

\* What the end of an action does to position, status and breaker.
LEMMA AdvanceType ==
    ASSUME TypeInv, Advance, UNCHANGED plan
    PROVE  /\ pc' \in {"pauseCheck", "finish"} /\ act' \in DOMAIN plan'
           /\ status' = status
  BY DEF Advance, Follows, TypeInv, TypeOK

\* After an error the loop goes on with its status, or ends as FAILED (ToolError).
LEMMA ErrorType ==
    ASSUME TypeInv, NEW recent \in 0..Threshold, ToolError(recent), UNCHANGED plan,
           pc \notin {"finish", "returned"}
    PROVE  /\ pc' \in {"pauseCheck", "finish"} /\ act' \in DOMAIN plan'
           /\ status' \in {status, "FAILED"}
           /\ pc' = "pauseCheck" => status' = status
           /\ errors' = errors + 1
           /\ breaker' \in [Tools -> 0..Threshold]
           /\ pc' # "finish" => \A t \in Tools : breaker'[t] < Threshold
  <1> DEFINE tool == plan[act].tool
  <1>1. tool \in Tools /\ breaker[tool] < Threshold /\ breaker \in [Tools -> 0..Threshold]
    BY DEF TypeInv, TypeOK
  <1>2. recent \in Nat /\ recent + 1 \in 0..Threshold
    BY <1>1, RunCoordinatorAssumption DEF ToolError
  <1>3. breaker' = [breaker EXCEPT ![tool] = recent + 1] /\ errors' = errors + 1
    BY DEF ToolError
  <1>4. breaker' \in [Tools -> 0..Threshold]
    BY <1>1, <1>2, <1>3
  <1>5. CASE recent + 1 >= Threshold
    BY <1>3, <1>4, <1>5 DEF ToolError, Ends, TypeInv, TypeOK
  <1>6. CASE ~(recent + 1 >= Threshold)
    <2>1. Advance
      BY <1>6 DEF ToolError
    <2>2. \A t \in Tools : breaker'[t] < Threshold
      BY <1>1, <1>2, <1>3, <1>6, RunCoordinatorAssumption DEF TypeInv, TypeOK
    <2>3. QED
      BY <1>3, <1>4, <2>1, <2>2, AdvanceType
  <1>7. QED
    BY <1>5, <1>6

\* Every step keeps the type invariant.
LEMMA NextTypeInv == TypeInv /\ [Next]_vars => TypeInv'
  <1> SUFFICES ASSUME TypeInv, [Next]_vars
               PROVE  TypeInv'
    OBVIOUS
  <1> USE DEF Statuses, Open
  <1>1. ASSUME NEW answer \in Answers, NEW over \in BOOLEAN, Plan(answer, over)
        PROVE  TypeInv'
    <2>1. /\ DOMAIN plan' \subseteq 1..MaxAnswer /\ act' \in DOMAIN plan'
          /\ \A i \in DOMAIN plan' : plan'[i].tool \in Tools
          /\ Sound(plan')
      BY <1>1, PlanMade DEF Plan
    <2>2. overspent' \in BOOLEAN /\ failures' \in Nat /\ pc' \in {"pauseCheck", "raised"}
      BY <1>1 DEF Plan, Stored, Lost, TypeInv, TypeOK
    <2>3. pc = "plan"
      BY <1>1 DEF Plan
    <2>4. UNCHANGED <<status, workVars, late, control, storeVars, calls, since>>
      BY <1>1 DEF Plan
    <2>5. QED
      BY <2>1, <2>2, <2>3, <2>4 DEF TypeInv, TypeOK
  <1>2. CASE PauseCheck
    BY <1>2 DEF PauseCheck, Ends, Stored, Lost, TypeInv, TypeOK, Sound
  <1>3. CASE StopCheck
    BY <1>3 DEF StopCheck, Ends, Stored, Lost, TypeInv, TypeOK, Sound
  <1>4. CASE Exhaust
    BY <1>4 DEF Exhaust, TypeInv, TypeOK, Sound
  <1>5. CASE Decide
    BY <1>5 DEF Decide, Ends, TypeInv, TypeOK, Sound
  <1>6. CASE Ask
    <2>1. approval' \in BOOLEAN
      <3>1. approval' = TRUE \/ approval' = approval
        BY <1>6 DEF Ask
      <3>2. QED
        BY <3>1 DEF TypeInv, TypeOK
    <2>2. pc = "ask" /\ pc' \in {"finish", "raised"} /\ failures' \in Nat
      BY <1>6 DEF Ask, Stored, Lost, TypeInv, TypeOK
    <2>3. UNCHANGED <<status, planVars, act, workVars, late, control, recorded, calls, since>>
      BY <1>6 DEF Ask
    <2>4. QED
      BY <2>1, <2>2, <2>3 DEF TypeInv, TypeOK, Sound
  <1>7. CASE Return
    BY <1>7 DEF Return, Invoke, TypeInv, TypeOK, Sound
  <1>8. CASE Record
    <2>1. /\ pc' \in {"pauseCheck", "finish"} /\ act' \in DOMAIN plan'
          /\ status' = status
      BY <1>8, AdvanceType DEF Record
    <2>2. /\ breaker' \in [Tools -> 0..Threshold]
          /\ \A t \in Tools : breaker'[t] < Threshold
      BY <1>8, RunCoordinatorAssumption DEF Record, TypeInv, TypeOK
    <2>3. QED
      BY <1>8, <2>1, <2>2 DEF Record, Stored, TypeInv, TypeOK, Sound
  <1>9. ASSUME NEW recent \in 0..Threshold, Fail(recent) \/ RecordFails(recent)
        PROVE  TypeInv'
    <2>1. /\ ToolError(recent) /\ pc \notin {"plan", "finish", "returned"}
          /\ UNCHANGED <<planVars, iteration, toolCalls, late, control, storeVars>>
      BY <1>9 DEF Fail, RecordFails, Invoke
    <2>2. calls' \in Nat /\ since' \in Nat /\ failures' \in Nat
      BY <1>9 DEF Fail, RecordFails, Invoke, Lost, TypeInv, TypeOK
    <2>3. QED
      BY <2>1, <2>2, ErrorType DEF TypeInv, TypeOK, Sound
  <1>10. CASE Finish
    BY <1>10 DEF Finish, TypeInv, TypeOK, Sound
  <1>11. ASSUME NEW c \in {"none", "pause", "stop"}, Request(c)
         PROVE  TypeInv'
    BY <1>11 DEF Request, TypeInv, TypeOK, Sound
  <1>12. CASE TimePasses
    BY <1>12 DEF TimePasses, TypeInv, TypeOK, Sound
  <1>13. CASE UNCHANGED vars
    BY <1>13 DEF vars, TypeInv, TypeOK, Sound
  <1>14. QED
    BY <1>1, <1>2, <1>3, <1>4, <1>5, <1>6, <1>7, <1>8, <1>9, <1>10, <1>11, <1>12, <1>13
       DEF Next, Step

\* Every variable of the coordinator keeps its type; in particular its position is one
\* of the plan's and no tool fails more than Threshold times within the cooldown.
THEOREM CoordinatorTypeCorrect == Spec => []TypeOK
  <1>1. TypeInv => TypeOK
    BY DEF TypeInv
  <1>2. QED
    BY <1>1, InitTypeInv, NextTypeInv, PTL DEF Spec

\* Whatever a model answers, the plan that is executed is a sound one (make_plan).
THEOREM PlanIsSoundCorrect == Spec => []PlanIsSound
  <1>1. TypeInv => PlanIsSound
    BY DEF TypeInv, PlanIsSound, Sound
  <1>2. QED
    BY <1>1, InitTypeInv, NextTypeInv, PTL DEF Spec

-----------------------------------------------------------------------------
(***************************************************************************)
(* Accounts.  Every invocation is recorded, counted as an error or still   *)
(* to be recorded; it was admitted by the gate, which counted it; and      *)
(* while a stop stands, another one needs a control read that failed.      *)
(***************************************************************************)

CountInv ==
    /\ calls = recorded + errors + (IF pc = "record" THEN 1 ELSE 0)
    /\ toolCalls <= calls
    /\ calls + (IF pc = "execute" THEN 1 ELSE 0) <= iteration
    /\ iteration <= MaxIterations
    /\ toolCalls + (IF pc = "execute" THEN 1 ELSE 0) <= MaxToolCalls

StopInv ==
    control = "stop" =>
        since <= failures + (IF pc \in {"gate", "execute", "ask"} THEN 0 ELSE 1)

StatusInv ==
    /\ pc \notin {"finish", "returned", "ask", "raised"} => status \in Open
    /\ approval => pc \in {"finish", "returned"} /\ status = "WAITING_APPROVAL"
    /\ status = "WAITING_APPROVAL" => approval \/ pc \in {"ask", "raised"}
    /\ pc = "ask" => status = "WAITING_APPROVAL"
    /\ pc = "plan" => iteration = 0
    /\ pc \in {"ask", "execute", "record"} => iteration > 0
    /\ status = "COMPLETED" => pc = "returned" /\ toolCalls > 0 /\ errors = 0

CoordInv == TypeInv /\ CountInv /\ StopInv /\ StatusInv

\* Every initial state satisfies the invariant.
LEMMA InitCoordInv == Init => CoordInv
  <1>1. Init => CountInv
    BY RunCoordinatorAssumption DEF Init, CountInv
  <1>2. Init => StopInv /\ StatusInv
    BY DEF Init, StopInv, StatusInv, Open
  <1>3. QED
    BY <1>1, <1>2, InitTypeInv DEF CoordInv

\* Every step keeps the balance of invocations, records and errors.
LEMMA NextCountInv == TypeInv /\ TypeInv' /\ CountInv /\ [Next]_vars => CountInv'
  <1> SUFFICES ASSUME TypeInv, TypeInv', CountInv, [Next]_vars
               PROVE  CountInv'
    OBVIOUS
  <1> USE RunCoordinatorAssumption
  <1>0. /\ calls \in Nat /\ recorded \in Nat /\ errors \in Nat /\ toolCalls \in Nat
        /\ iteration \in Nat
    BY DEF TypeInv, TypeOK
  <1>1. ASSUME NEW answer \in Answers, NEW over \in BOOLEAN, Plan(answer, over)
        PROVE  CountInv'
    BY <1>0, <1>1 DEF Plan, CountInv
  <1>2. CASE PauseCheck \/ StopCheck \/ Ask
    BY <1>0, <1>2 DEF PauseCheck, StopCheck, Ask, Ends, CountInv
  <1>3. CASE Exhaust \/ Finish
    BY <1>0, <1>3 DEF Exhaust, Finish, CountInv
  <1>4. CASE Decide
    BY <1>0, <1>4 DEF Decide, can_continue, Ends, CountInv
  <1>5. CASE Return
    BY <1>0, <1>5 DEF Return, Invoke, CountInv
  <1>6. CASE Record
    <2>1. pc' \in {"pauseCheck", "finish"}
      BY <1>6, AdvanceType DEF Record
    <2>2. QED
      BY <1>0, <1>6, <2>1 DEF Record, CountInv
  <1>7. ASSUME NEW recent \in 0..Threshold, Fail(recent) \/ RecordFails(recent)
        PROVE  CountInv'
    <2>1. /\ ToolError(recent) /\ pc \in {"execute", "record"}
          /\ UNCHANGED <<plan, iteration, toolCalls, recorded>>
      BY <1>7 DEF Fail, RecordFails, Invoke
    <2>2. pc' \in {"pauseCheck", "finish"} /\ errors' = errors + 1
      BY <2>1, ErrorType
    <2>3. calls' = IF pc = "execute" THEN calls + 1 ELSE calls
      BY <1>7 DEF Fail, RecordFails, Invoke
    <2>4. QED
      BY <1>0, <2>1, <2>2, <2>3 DEF CountInv
  <1>8. ASSUME NEW c \in {"none", "pause", "stop"}, Request(c)
        PROVE  CountInv'
    BY <1>8 DEF Request, CountInv
  <1>9. CASE TimePasses \/ UNCHANGED vars
    BY <1>9 DEF TimePasses, vars, CountInv
  <1>10. QED
    BY <1>1, <1>2, <1>3, <1>4, <1>5, <1>6, <1>7, <1>8, <1>9 DEF Next, Step

\* Every step keeps the count of what a stop still allows.
LEMMA NextStopInv == TypeInv /\ TypeInv' /\ StopInv /\ [Next]_vars => StopInv'
  <1> SUFFICES ASSUME TypeInv, TypeInv', StopInv, [Next]_vars
               PROVE  StopInv'
    OBVIOUS
  <1>0. since \in Nat /\ failures \in Nat
    BY DEF TypeInv, TypeOK
  <1>1. ASSUME NEW answer \in Answers, NEW over \in BOOLEAN, Plan(answer, over)
        PROVE  StopInv'
    BY <1>0, <1>1 DEF Plan, Stored, Lost, StopInv
  <1>2. CASE PauseCheck \/ StopCheck \/ Ask
    BY <1>0, <1>2 DEF PauseCheck, StopCheck, Ask, Ends, Stored, Lost, StopInv
  <1>3. CASE Exhaust \/ Finish \/ Decide
    BY <1>0, <1>3 DEF Exhaust, Finish, Decide, Ends, StopInv
  <1>4. CASE Return
    BY <1>0, <1>4 DEF Return, Invoke, StopInv
  <1>5. CASE Record
    <2>1. pc' \in {"pauseCheck", "finish"}
      BY <1>5, AdvanceType DEF Record
    <2>2. QED
      BY <1>0, <1>5, <2>1 DEF Record, Stored, StopInv
  <1>6. ASSUME NEW recent \in 0..Threshold, Fail(recent)
        PROVE  StopInv'
    <2>1. pc' \in {"pauseCheck", "finish"}
      BY <1>6, ErrorType DEF Fail, Invoke
    <2>2. QED
      BY <1>0, <1>6, <2>1 DEF Fail, Invoke, StopInv
  <1>7. ASSUME NEW recent \in 0..Threshold, RecordFails(recent)
        PROVE  StopInv'
    <2>1. pc' \in {"pauseCheck", "finish"}
      BY <1>7, ErrorType DEF RecordFails
    <2>2. QED
      BY <1>0, <1>7, <2>1 DEF RecordFails, Lost, StopInv
  <1>8. ASSUME NEW c \in {"none", "pause", "stop"}, Request(c)
        PROVE  StopInv'
    BY <1>0, <1>8 DEF Request, StopInv
  <1>9. CASE TimePasses \/ UNCHANGED vars
    BY <1>9 DEF TimePasses, vars, StopInv
  <1>10. QED
    BY <1>1, <1>2, <1>3, <1>4, <1>5, <1>6, <1>7, <1>8, <1>9 DEF Next, Step

\* Every step keeps the tie of the status to the step of the loop.
LEMMA NextStatusInv ==
    TypeInv /\ TypeInv' /\ StatusInv /\ [Next]_vars => StatusInv'
  <1> SUFFICES ASSUME TypeInv, TypeInv', StatusInv, [Next]_vars
               PROVE  StatusInv'
    OBVIOUS
  <1> USE DEF Open
  <1>0. /\ iteration \in Nat /\ toolCalls \in Nat /\ errors \in Nat
        /\ pc \in {"plan", "pauseCheck", "stopCheck", "gate", "ask", "execute", "record",
                   "finish", "returned", "raised"}
    BY DEF TypeInv, TypeOK
  <1>1. ASSUME NEW answer \in Answers, NEW over \in BOOLEAN, Plan(answer, over)
        PROVE  StatusInv'
    BY <1>0, <1>1 DEF Plan, StatusInv
  <1>2. CASE PauseCheck \/ StopCheck
    BY <1>0, <1>2 DEF PauseCheck, StopCheck, Ends, StatusInv
  <1>3. CASE Ask
    BY <1>0, <1>3 DEF Ask, StatusInv
  <1>4. CASE Exhaust
    BY <1>0, <1>4 DEF Exhaust, StatusInv
  <1>5. CASE Decide
    BY <1>0, <1>5 DEF Decide, Ends, StatusInv
  <1>6. CASE Return
    BY <1>0, <1>6 DEF Return, Invoke, StatusInv
  <1>7. CASE Record
    <2>1. pc' \in {"pauseCheck", "finish"} /\ status' = status
      BY <1>7, AdvanceType DEF Record
    <2>2. QED
      BY <1>0, <1>7, <2>1 DEF Record, StatusInv
  <1>8. ASSUME NEW recent \in 0..Threshold, Fail(recent) \/ RecordFails(recent)
        PROVE  StatusInv'
    <2>1. /\ ToolError(recent) /\ pc \in {"execute", "record"}
          /\ UNCHANGED <<plan, iteration, toolCalls, approval>>
      BY <1>8 DEF Fail, RecordFails, Invoke
    <2>2. /\ pc' \in {"pauseCheck", "finish"} /\ status' \in {status, "FAILED"}
          /\ pc' = "pauseCheck" => status' = status
      BY <2>1, ErrorType
    <2>3. QED
      BY <1>0, <2>1, <2>2 DEF StatusInv
  <1>9. CASE Finish
    BY <1>0, <1>9 DEF Finish, verify, StatusInv
  <1>10. ASSUME NEW c \in {"none", "pause", "stop"}, Request(c)
         PROVE  StatusInv'
    BY <1>10 DEF Request, StatusInv
  <1>11. CASE TimePasses \/ UNCHANGED vars
    BY <1>11 DEF TimePasses, vars, StatusInv
  <1>12. QED
    BY <1>1, <1>2, <1>3, <1>4, <1>5, <1>6, <1>7, <1>8, <1>9, <1>10, <1>11 DEF Next, Step

\* The invariant holds in every reachable state.
LEMMA Invariance == Spec => []CoordInv
  <1>1. CoordInv /\ [Next]_vars => CoordInv'
    BY NextTypeInv, NextCountInv, NextStopInv, NextStatusInv DEF CoordInv
  <1>2. QED
    BY <1>1, InitCoordInv, PTL DEF Spec

\* A completed run invoked a tool, and every invocation succeeded and is recorded
\* (RunCoordinator.run with the worker's event sink).
THEOREM CompletedIsRecordedCorrect == Spec => []CompletedIsRecorded
  <1>1. CoordInv => CompletedIsRecorded
    BY DEF CoordInv, CountInv, StatusInv, TypeInv, TypeOK, CompletedIsRecorded
  <1>2. QED
    BY <1>1, Invariance, PTL

\* A stop request lets one more tool be invoked, and one for each control read that
\* failed (_stop_check).
THEOREM StopBoundsWorkCorrect == Spec => []StopBoundsWork
  <1>1. CoordInv => StopBoundsWork
    BY DEF CoordInv, StopInv, TypeInv, TypeOK, StopBoundsWork
  <1>2. QED
    BY <1>1, Invariance, PTL

\* The budgets bound what is invoked (can_continue).
THEOREM BudgetHoldsCorrect == Spec => []BudgetHolds
  <1>1. CoordInv => BudgetHolds
    BY RunCoordinatorAssumption DEF CoordInv, CountInv, TypeInv, TypeOK, BudgetHolds
  <1>2. QED
    BY <1>1, Invariance, PTL

-----------------------------------------------------------------------------

Same == UNCHANGED <<stepNow, resultNow, approval, control>>

\* Each step of the coordinator is one that RunLifecycle knows, or none: its loop with
\* the budgets, the policy and the breaker is work between the first control reads and
\* the end.
THEOREM ImplementsSteps == Spec => StepsSpec
  <1> USE DEF stepNow, resultNow, Ended, Open
  <1>1. Init => Steps!Init
    BY DEF Init, Steps!Init
  <1>2. ASSUME CoordInv, CoordInv', [Next]_vars
        PROVE  Steps!Next \/ Same
    <2>0. /\ iteration \in Nat
          /\ pc \in {"plan", "pauseCheck", "stopCheck", "gate", "ask", "execute", "record",
                    "finish", "returned", "raised"}
          /\ StatusInv
      BY <1>2 DEF CoordInv, TypeInv, TypeOK
    <2>1. ASSUME NEW answer \in Answers, NEW over \in BOOLEAN, Plan(answer, over)
          PROVE  Steps!Raise \/ Same
      BY <2>0, <2>1 DEF Plan, StatusInv, Steps!Raise, Same
    <2>2. CASE PauseCheck
      <3>1. Steps!Interrupt \/ Steps!Proceed \/ Same
        BY <2>0, <2>2 DEF PauseCheck, Ends, StatusInv, Steps!Interrupt, Steps!Proceed,
                          Steps!End, Same
      <3>2. QED
        BY <3>1 DEF Steps!Next
    <2>3. CASE StopCheck
      <3>1. Steps!Interrupt \/ Steps!Proceed \/ Same
        BY <2>0, <2>3 DEF StopCheck, Ends, StatusInv, Steps!Interrupt, Steps!Proceed,
                          Steps!End, Same
      <3>2. QED
        BY <3>1 DEF Steps!Next
    <2>4. CASE Exhaust
      BY <2>0, <2>4 DEF Exhaust, StatusInv, Same
    <2>5. CASE Decide
      BY <2>0, <2>5 DEF Decide, Ends, StatusInv, Same
    <2>6. CASE Ask
      <3>1. Steps!RequestApproval \/ Steps!Raise
        BY <2>0, <2>6 DEF Ask, StatusInv, Steps!RequestApproval, Steps!End, Steps!Raise
      <3>2. QED
        BY <3>1 DEF Steps!Next
    <2>7. CASE Return
      BY <2>0, <2>7 DEF Return, Invoke, StatusInv, Same
    <2>8. CASE Record
      <3>1. pc' \in {"pauseCheck", "finish"} /\ status' = status
        BY <1>2, <2>8, AdvanceType DEF CoordInv, Record
      <3>2. QED
        BY <2>0, <2>8, <3>1 DEF Record, StatusInv, Same
    <2>9. ASSUME NEW recent \in 0..Threshold, Fail(recent) \/ RecordFails(recent)
          PROVE  Same
      <3>1. /\ ToolError(recent) /\ pc \in {"execute", "record"}
            /\ UNCHANGED <<plan, iteration, approval, control>>
        BY <2>9 DEF Fail, RecordFails, Invoke
      <3>2. pc' \in {"pauseCheck", "finish"} /\ status' \in {status, "FAILED"}
        BY <1>2, <3>1, ErrorType DEF CoordInv
      <3>3. QED
        BY <2>0, <3>1, <3>2 DEF StatusInv, Same
    <2>10. CASE Finish
      <3>1. status \in Statuses
        BY <1>2 DEF CoordInv, TypeInv, TypeOK
      <3>2. Steps!Finish("COMPLETED") \/ Steps!Finish("FAILED") \/ Same
        BY <2>0, <2>10, <3>1 DEF Finish, Statuses, StatusInv, Steps!Finish, Steps!End, Same
      <3>3. QED
        BY <3>2 DEF Steps!Next
    <2>11. ASSUME NEW c \in {"none", "pause", "stop"}, Request(c)
           PROVE  Steps!Control(c)
      BY <2>11 DEF Request, Steps!Control
    <2>12. CASE TimePasses \/ UNCHANGED vars
      BY <2>12 DEF TimePasses, vars, Same
    <2>13. QED
      BY <1>2, <2>1, <2>2, <2>3, <2>4, <2>5, <2>6, <2>7, <2>8, <2>9, <2>10, <2>11, <2>12
         DEF Next, Step, Steps!Next
  <1>3. ASSUME CoordInv, CoordInv', [Next]_vars
        PROVE  [Steps!Next]_(Steps!steps)
    BY <1>2, <1>3 DEF Same, Steps!steps
  <1>4. QED
    BY <1>1, <1>3, Invariance, PTL DEF Spec, StepsSpec, Steps!Spec
=============================================================================
