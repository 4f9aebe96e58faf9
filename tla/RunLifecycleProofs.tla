------------------------- MODULE RunLifecycleProofs -------------------------
(***************************************************************************)
(* Theorems about RunLifecycle for every number of runs, workers,          *)
(* approvals, stream entries and failures, and every choice of stalls.     *)
(***************************************************************************)
EXTENDS RunLifecycle, TLAPS

\* What typing needs beside TypeOK: an entry in the stream names a run, and so
\* do an approval and the job of a worker that is not idle; what a worker is about
\* to store in the status column is a status.
WellFormed ==
    /\ \A e \in ready \cup pel : entryRun[e] \in Runs
    /\ \A w \in Workers : pc[w] # "idle" => job[w] \in Runs
    /\ \A w \in Workers : pc[w] = "write" => result[w] \in RunStatus
    /\ \A w \in Workers : pc[w] \in {"settle", "call", "seal"} => ap[w] \in Approvals
    /\ \A a \in Approvals : apStatus[a] # "NONE" => apRun[a] \in Runs

TypeInv == TypeOK /\ WellFormed

\* The groups of variables, expanded where a step changes one of the group.
USE DEF runVars, apVars, boxVars, streamVars, workerVars, openVars

-----------------------------------------------------------------------------

\* Every initial state satisfies the type invariant.
LEMMA InitTypeInv == Init => TypeInv
  BY RunLifecycleAssumption
     DEF Init, TypeInv, TypeOK, WellFormed, RunStatus, Terminal, ApprovalStatus,
         ExecStatus, Steps, Results, NoResume, RunRow

\* Operators' steps keep the types (API and Telegram handlers).
LEMMA OperatorTypeInv == TypeInv /\ Operator => TypeInv'
  <1> SUFFICES ASSUME TypeInv, Operator
               PROVE  TypeInv'
    OBVIOUS
  <1>1. ASSUME NEW r \in Runs, CreateTask(r)
        PROVE  TypeInv'
    BY <1>1 DEF CreateTask, TypeInv, TypeOK, WellFormed, RunStatus
  <1>2. ASSUME NEW r \in Runs, ChatTask(r)
        PROVE  TypeInv'
    BY <1>2 DEF ChatTask, TypeInv, TypeOK, WellFormed, RunStatus
  <1>3. ASSUME NEW c \in Chats,
               ResumeWrite(c) \/ \E r \in Runs : ResumeRead(c, r)
        PROVE  TypeInv'
    <2>1. ASSUME NEW r \in Runs, ResumeRead(c, r)
          PROVE  TypeInv'
      BY <2>1 DEF ResumeRead, RunRow, TypeInv, TypeOK, WellFormed
    <2>2. CASE ResumeWrite(c)
      <3>1. resume[c].run \in Runs
        BY <2>2 DEF ResumeWrite, RunRow, TypeInv, TypeOK
      <3>2. /\ status' \in [Runs -> RunStatus] /\ owed' \in [Runs -> Nat]
            /\ control' \in [Runs -> {"none", "pause", "stop"}]
        BY <2>2, <3>1 DEF ResumeWrite, TypeInv, TypeOK, RunStatus
      <3>3. resume' \in [Chats -> RunRow]
        BY <2>2 DEF ResumeWrite, NoResume, RunRow, TypeInv, TypeOK, RunStatus
      <3>4. QED
        BY <2>2, <3>2, <3>3 DEF ResumeWrite, TypeInv, TypeOK, WellFormed
    <2>3. QED
      BY <1>3, <2>1, <2>2
  <1>4. ASSUME NEW r \in Runs, NEW c \in {"none", "pause", "stop"},
               ControlRun(r, c) \/ ChatControl(r, c)
        PROVE  TypeInv'
    BY <1>4 DEF ControlRun, ChatControl, TypeInv, TypeOK, WellFormed
  <1>5. ASSUME NEW r \in Runs, NEW new \in RetryRuns, RetryRun(r, new)
        PROVE  TypeInv'
    BY <1>5 DEF RetryRun, TypeInv, TypeOK, WellFormed, RunStatus, Runs
  <1>6. ASSUME NEW a \in Approvals, Approve(a)
        PROVE  TypeInv'
    <2>1. apRun[a] \in Runs
      BY <1>6 DEF Approve, Decidable, TypeInv, WellFormed
    <2>2. QED
      BY <1>6, <2>1 DEF Approve, Decidable, TypeInv, TypeOK, WellFormed, RunStatus,
                        ApprovalStatus
  <1>7. ASSUME NEW a \in Approvals, Reject(a)
        PROVE  TypeInv'
    BY <1>7 DEF Reject, Decidable, TypeInv, TypeOK, WellFormed, RunStatus, Terminal,
                ApprovalStatus
  <1>8. ASSUME NEW a \in Approvals, DecideExpired(a)
        PROVE  TypeInv'
    BY <1>8 DEF DecideExpired, Decidable, TypeInv, TypeOK, WellFormed, ApprovalStatus
  <1>9. QED
    BY <1>1, <1>2, <1>3, <1>4, <1>5, <1>6, <1>7, <1>8, RunLifecycleAssumption
       DEF Operator

\* Publishing keeps the types (publish_outbox, Telegram handlers).
LEMMA PublisherTypeInv == TypeInv /\ Publisher => TypeInv'
  <1> SUFFICES ASSUME TypeInv, NEW r \in Runs, NEW e \in Entries,
                      \/ PublishOutbox(r, e) \/ PublishUncommitted(r, e)
                      \/ ChatPublish(r, e)
               PROVE  TypeInv'
    BY DEF Publisher
  <1>1. CASE PublishOutbox(r, e)
    BY <1>1 DEF PublishOutbox, Add, TypeInv, TypeOK, WellFormed
  <1>2. CASE PublishUncommitted(r, e)
    BY <1>2 DEF PublishUncommitted, Add, TypeInv, TypeOK, WellFormed
  <1>3. CASE ChatPublish(r, e)
    BY <1>3 DEF ChatPublish, Add, TypeInv, TypeOK, WellFormed
  <1>4. QED
    BY <1>1, <1>2, <1>3

\* Taking an entry keeps the types (read_group, claim_pending).
LEMMA DeliveryTypeInv ==
    ASSUME TypeInv, NEW w \in Workers, NEW e \in Entries,
           ReadGroup(w, e) \/ ClaimPending(w, e)
    PROVE  TypeInv'
  <1>1. CASE ReadGroup(w, e)
    BY <1>1 DEF ReadGroup, Take, TypeInv, TypeOK, WellFormed, Steps
  <1>2. CASE ClaimPending(w, e)
    BY <1>2 DEF ClaimPending, Take, TypeInv, TypeOK, WellFormed, Steps
  <1>3. QED
    BY <1>1, <1>2

\* Crashes, lapsing leases and ageing keep the types.
LEMMA EnvironmentTypeInv == TypeInv /\ Environment => TypeInv'
  <1> SUFFICES ASSUME TypeInv, Environment
               PROVE  TypeInv'
    OBVIOUS
  <1>1. ASSUME NEW r \in Runs, LeaseLapses(r)
        PROVE  TypeInv'
    BY <1>1 DEF LeaseLapses, TypeInv, TypeOK, WellFormed
  <1>2. ASSUME NEW r \in Runs, ChatPublishFails(r)
        PROVE  TypeInv'
    BY <1>2 DEF ChatPublishFails, TypeInv, TypeOK, WellFormed
  <1>3. ASSUME NEW a \in Approvals, ApprovalAges(a)
        PROVE  TypeInv'
    BY <1>3 DEF ApprovalAges, TypeInv, TypeOK, WellFormed
  <1>4. ASSUME NEW w \in Workers, Crash(w)
        PROVE  TypeInv'
    BY <1>4 DEF Crash, Park, TypeInv, TypeOK, WellFormed, Steps, Results, RunStatus
  <1>5. QED
    BY <1>1, <1>2, <1>3, <1>4 DEF Environment

\* A worker's steps keep the types.
LEMMA WorkerTypeInv ==
    ASSUME TypeInv, NEW w \in Workers, WorkerStep(w) \/ Heartbeat(w)
    PROVE  TypeInv'
  <1>1. CASE Load(w)
    BY <1>1 DEF Load, Done, Goto, TypeInv, TypeOK, WellFormed, Steps, Results, RunStatus
  <1>2. CASE Claim(w)
    BY <1>2 DEF Claim, Done, Goto, TypeInv, TypeOK, WellFormed, Steps, Working, Results,
                RunStatus
  <1>3. CASE Settle(w)
    BY <1>3 DEF Settle, Done, TypeInv, TypeOK, WellFormed, Steps, Results, RunStatus,
                Terminal, ExecStatus
  <1>4. CASE Seal(w)
    <2>1. /\ status' \in [Runs -> RunStatus] /\ exec' \in [Approvals -> ExecStatus]
          /\ failures' \in Nat
      BY <1>4 DEF Seal, TypeInv, TypeOK, RunStatus, Terminal, ExecStatus
    <2>2. QED
      BY <1>4, <2>1 DEF Seal, Done, TypeInv, TypeOK, WellFormed, Steps, Results,
                        RunStatus
  <1>5. CASE StartCoordinator(w)
    BY <1>5 DEF StartCoordinator, Goto, TypeInv, TypeOK, WellFormed, Steps, Working
  <1>6. CASE Proceed(w)
    BY <1>6 DEF Proceed, Goto, TypeInv, TypeOK, WellFormed, Steps, Working
  <1>7. CASE Interrupt(w)
    BY <1>7 DEF Interrupt, CoordinatorEnds, Goto, TypeInv, TypeOK, WellFormed, Steps,
                Working, Results, RunStatus, Terminal
  <1>8. CASE FinalWrite(w)
    BY <1>8 DEF FinalWrite, Done, TypeInv, TypeOK, WellFormed, Steps, Results, RunStatus
  <1>9. CASE Ack(w)
    BY <1>9 DEF Ack, Park, TypeInv, TypeOK, WellFormed, Steps, Results, RunStatus
  <1>10. ASSUME NEW outcome \in {"ok", "error"}, CallTool(w, outcome)
         PROVE  TypeInv'
    BY <1>10 DEF CallTool, Goto, TypeInv, TypeOK, WellFormed, Steps, Working, Results
  <1>11. ASSUME NEW final \in {"COMPLETED", "FAILED"}, Finish(w, final)
         PROVE  TypeInv'
    BY <1>11 DEF Finish, CoordinatorEnds, Goto, TypeInv, TypeOK, WellFormed, Steps,
                 Working, Results, RunStatus, Terminal
  <1>12. ASSUME NEW a \in Approvals, Consume(w, a)
         PROVE  TypeInv'
    <2>1. CASE a \notin aged
      BY <1>12, <2>1 DEF Consume, Newest, Goto, TypeInv, TypeOK, WellFormed, Steps,
                         Working, ApprovalStatus, ExecStatus
    <2>2. CASE a \in aged
      BY <1>12, <2>2 DEF Consume, Done, TypeInv, TypeOK, WellFormed, Steps, Results,
                         RunStatus
    <2>3. QED
      BY <2>1, <2>2
  <1>13. ASSUME NEW a \in Approvals, Inspect(w, a)
         PROVE  TypeInv'
    BY <1>13 DEF Inspect, Goto, TypeInv, TypeOK, WellFormed, Steps, Working, Results
  <1>14. ASSUME NEW a \in Approvals, RequestApproval(w, a)
         PROVE  TypeInv'
    BY <1>14 DEF RequestApproval, CoordinatorEnds, Goto, TypeInv, TypeOK, WellFormed,
                 Steps, Working, Results, RunStatus, ApprovalStatus
  <1>15. CASE Heartbeat(w)
    BY <1>15 DEF Heartbeat, TypeInv, TypeOK, WellFormed
  <1>16. QED
    BY <1>1, <1>2, <1>3, <1>4, <1>5, <1>6, <1>7, <1>8, <1>9, <1>10, <1>11, <1>12,
       <1>13, <1>14, <1>15 DEF WorkerStep

\* Recovery keeps the types (recover_stuck_runs).
LEMMA RecoveryTypeInv == TypeInv /\ Recovery => TypeInv'
  <1> SUFFICES ASSUME TypeInv, Recovery
               PROVE  TypeInv'
    OBVIOUS
  <1>2. CASE RecoverScan
    BY <1>2 DEF RecoverScan, TypeInv, TypeOK, WellFormed
  <1>3. ASSUME NEW S \in SUBSET scan, NEW next \in [S -> SpareRuns],
               NEW dead \in SUBSET scan, RecoverCommit(next, dead)
        PROVE  TypeInv'
    <2> DEFINE new == {next[r] : r \in DOMAIN next}
               source(r) == CHOOSE q \in DOMAIN next : next[q] = r
    <2>1. \A r \in new : source(r) \in Runs
      <3>1. ASSUME NEW r \in new PROVE source(r) \in DOMAIN next
        BY <3>1
      <3>2. DOMAIN next \subseteq Runs
        BY <1>3 DEF TypeInv, TypeOK
      <3>3. QED
        BY <3>1, <3>2
    <2>2. retries' \in [Runs -> Nat]
      <3>1. retries' = [r \in Runs |->
                          IF r \in scan THEN retries[r] + 1
                          ELSE IF r \in new THEN retries[source(r)] + 1
                          ELSE retries[r]]
        BY <1>3 DEF RecoverCommit
      <3>2. ASSUME NEW r \in Runs PROVE retries'[r] \in Nat
        <4> HIDE DEF new, source
        <4>1. QED
        BY <2>1, <3>1 DEF TypeInv, TypeOK
      <3> HIDE DEF new, source
      <3>3. QED
        BY <3>1, <3>2
    <2>3. status' \in [Runs -> RunStatus] /\ outbox' \in [Runs -> Nat]
      BY <1>3 DEF RecoverCommit, TypeInv, TypeOK, RunStatus, Terminal
    <2>4. dlq' \subseteq Runs /\ scan' \subseteq Runs
      BY <1>3 DEF RecoverCommit, TypeInv, TypeOK
    <2>5. QED
      BY <1>3, <2>2, <2>3, <2>4 DEF RecoverCommit, TypeInv, TypeOK, WellFormed
  <1>4. QED
    BY <1>2, <1>3 DEF Recovery

\* Every step keeps the type invariant.
LEMMA NextTypeInv == TypeInv /\ [Next]_vars => TypeInv'
  <1>1. TypeInv /\ UNCHANGED vars => TypeInv'
    BY DEF vars, TypeInv, TypeOK, WellFormed
  <1>2. QED
    BY <1>1, OperatorTypeInv, PublisherTypeInv, RecoveryTypeInv, EnvironmentTypeInv,
       WorkerTypeInv, DeliveryTypeInv DEF Next

\* Every column, queue and worker variable keeps its type, and no worker ever acts on
\* a run, an approval or an entry that does not exist.
THEOREM TypeCorrect == Spec => []TypeOK
  <1>1. Spec => []TypeInv
    BY InitTypeInv, NextTypeInv, PTL DEF Spec
  <1>2. TypeInv => TypeOK
    BY DEF TypeInv
  <1>3. QED
    BY <1>1, <1>2, PTL

-----------------------------------------------------------------------------
(***************************************************************************)
(* Single use.  SingleUse is not inductive: it must be known that a worker *)
(* about to invoke a tool is the only one with that approval, and that the *)
(* tool has not been invoked yet.                                          *)
(***************************************************************************)

InHand == {"settle", "call", "seal"}

LedgerInv ==
    /\ \A a \in Approvals : calls[a] \in {0, 1}
    /\ \A a \in Approvals :
          apStatus[a] # "CONSUMED" => calls[a] = 0 /\ exec[a] = "NONE"
    /\ \A a \in Approvals : exec[a] = "SUCCEEDED" => calls[a] = 1
    /\ \A w \in Workers : pc[w] \in InHand => apStatus[ap[w]] = "CONSUMED"
    /\ \A w \in Workers : pc[w] = "call" => calls[ap[w]] = 0
    /\ \A w \in Workers : pc[w] = "seal" => calls[ap[w]] = 1
    /\ \A v, w \in Workers :
          pc[v] = "call" /\ pc[w] = "call" /\ ap[v] = ap[w] => v = w

\* Every initial state satisfies the ledger's invariant.
LEMMA InitLedgerInv == Init => LedgerInv
  BY DEF Init, LedgerInv, InHand

\* A step that leaves the ledger alone and brings no worker to a step with an
\* approval in hand preserves LedgerInv.
LEMMA QuietStep ==
    ASSUME TypeInv, TypeInv', LedgerInv,
           UNCHANGED <<apStatus, exec, calls>>,
           \A w \in Workers : pc'[w] \in InHand => pc'[w] = pc[w] /\ ap'[w] = ap[w]
    PROVE  LedgerInv'
  BY DEF LedgerInv, InHand, TypeInv, TypeOK

\* A decision never touches an approval that a worker has consumed.
LEMMA OperatorLedgerInv == TypeInv /\ TypeInv' /\ LedgerInv /\ Operator => LedgerInv'
  <1> SUFFICES ASSUME TypeInv, TypeInv', LedgerInv, Operator
               PROVE  LedgerInv'
    OBVIOUS
  <1>1. ASSUME NEW r \in Runs, CreateTask(r) \/ ChatTask(r)
        PROVE  LedgerInv'
    BY <1>1, QuietStep DEF CreateTask, ChatTask
  <1>1a. ASSUME NEW c \in Chats,
               ResumeWrite(c) \/ \E r \in Runs : ResumeRead(c, r)
        PROVE  LedgerInv'
    BY <1>1a, QuietStep DEF ResumeWrite, ResumeRead
  <1>2. ASSUME NEW r \in Runs, NEW c \in {"none", "pause", "stop"},
               ControlRun(r, c) \/ ChatControl(r, c)
        PROVE  LedgerInv'
    BY <1>2, QuietStep DEF ControlRun, ChatControl
  <1>3. ASSUME NEW r \in Runs, NEW new \in RetryRuns, RetryRun(r, new)
        PROVE  LedgerInv'
    BY <1>3, QuietStep DEF RetryRun
  <1>4. ASSUME NEW a \in Approvals, Approve(a) \/ Reject(a) \/ DecideExpired(a)
        PROVE  LedgerInv'
    BY <1>4 DEF Approve, Reject, DecideExpired, Decidable, LedgerInv, InHand, TypeInv,
                TypeOK, WellFormed
  <1>5. QED
    BY <1>1, <1>2, <1>3, <1>4, <1>1a, RunLifecycleAssumption DEF Operator

\* Consuming, invoking and recording keep the one worker that may invoke.
LEMMA WorkerLedgerInv ==
    ASSUME TypeInv, TypeInv', LedgerInv, NEW w \in Workers, WorkerStep(w)
    PROVE  LedgerInv'
  <1> USE DEF TypeInv, TypeOK
  <1>1. CASE Load(w) \/ Claim(w) \/ FinalWrite(w)
    BY <1>1, QuietStep DEF Load, Claim, FinalWrite, Done, Goto, InHand
  <1>2. CASE StartCoordinator(w) \/ Proceed(w) \/ Interrupt(w)
    BY <1>2, QuietStep DEF StartCoordinator, Proceed, Interrupt, CoordinatorEnds, Goto,
                           InHand
  <1>3. CASE Ack(w)
    BY <1>3, QuietStep DEF Ack, Park, InHand
  <1>4. CASE Settle(w)
    BY <1>4 DEF Settle, Done, LedgerInv, InHand, WellFormed
  <1>5. CASE Seal(w)
    BY <1>5 DEF Seal, Done, LedgerInv, InHand, WellFormed
  <1>6. ASSUME NEW outcome \in {"ok", "error"}, CallTool(w, outcome)
        PROVE  LedgerInv'
    BY <1>6 DEF CallTool, Goto, LedgerInv, InHand, WellFormed
  <1>7. ASSUME NEW final \in {"COMPLETED", "FAILED"}, Finish(w, final)
        PROVE  LedgerInv'
    BY <1>7, QuietStep DEF Finish, CoordinatorEnds, Goto, InHand
  <1>8. ASSUME NEW a \in Approvals, Consume(w, a)
        PROVE  LedgerInv'
    <2>1. CASE a \notin aged
      <3>1. /\ calls[a] = 0 /\ exec' = [exec EXCEPT ![a] = "PENDING"]
            /\ apStatus' = [apStatus EXCEPT ![a] = "CONSUMED"] /\ calls' = calls
        BY <1>8, <2>1 DEF Consume, Newest, LedgerInv
      <3>2. \A v \in Workers : pc[v] \in InHand => ap[v] # a
        BY <1>8 DEF Consume, Newest, LedgerInv
      <3>3. /\ pc'[w] = "call" /\ ap'[w] = a
            /\ \A v \in Workers \ {w} : pc'[v] = pc[v] /\ ap'[v] = ap[v]
        BY <1>8, <2>1 DEF Consume, Goto
      <3>4. QED
        <4>1. \A b \in Approvals :
                 /\ calls'[b] \in {0, 1}
                 /\ apStatus'[b] # "CONSUMED" => calls'[b] = 0 /\ exec'[b] = "NONE"
                 /\ exec'[b] = "SUCCEEDED" => calls'[b] = 1
          BY <3>1 DEF LedgerInv
        <4>2. \A v \in Workers : pc'[v] \in InHand =>
                 ap'[v] \in Approvals /\ apStatus'[ap'[v]] = "CONSUMED"
          <5>1. ASSUME NEW v \in Workers, pc'[v] \in InHand
                PROVE  ap'[v] \in Approvals /\ apStatus'[ap'[v]] = "CONSUMED"
            <6>1. CASE v = w
              BY <3>1, <3>3, <6>1
            <6>2. CASE v # w
              BY <3>1, <3>3, <5>1, <6>2 DEF LedgerInv, InHand, WellFormed
            <6>3. QED
              BY <6>1, <6>2
          <5>2. QED
            BY <5>1
        <4>3. \A v \in Workers : /\ pc'[v] = "call" => calls'[ap'[v]] = 0
                                 /\ pc'[v] = "seal" => calls'[ap'[v]] = 1
          BY <3>1, <3>2, <3>3 DEF LedgerInv, InHand
        <4>4. \A u, v \in Workers :
                 pc'[u] = "call" /\ pc'[v] = "call" /\ ap'[u] = ap'[v] => u = v
          <5>1. ASSUME NEW u \in Workers, NEW v \in Workers,
                       pc'[u] = "call", pc'[v] = "call", ap'[u] = ap'[v]
                PROVE  u = v
            <6>1. CASE u = w \/ v = w
              BY <3>2, <3>3, <5>1, <6>1 DEF InHand
            <6>2. CASE u # w /\ v # w
              BY <3>3, <5>1, <6>2 DEF LedgerInv
            <6>3. QED
              BY <6>1, <6>2
          <5>2. QED
            BY <5>1
        <4>5. QED
          BY <4>1, <4>2, <4>3, <4>4 DEF LedgerInv
    <2>2. CASE a \in aged
      BY <1>8, <2>2, QuietStep DEF Consume, Done, InHand
    <2>3. QED
      BY <2>1, <2>2
  <1>9. ASSUME NEW a \in Approvals, Inspect(w, a)
        PROVE  LedgerInv'
    BY <1>9 DEF Inspect, Newest, Goto, LedgerInv, InHand, WellFormed
  <1>10. ASSUME NEW a \in Approvals, RequestApproval(w, a)
         PROVE  LedgerInv'
    BY <1>10 DEF RequestApproval, CoordinatorEnds, Goto, LedgerInv, InHand, WellFormed
  <1>11. QED
    BY <1>1, <1>2, <1>3, <1>4, <1>5, <1>6, <1>7, <1>8, <1>9, <1>10 DEF WorkerStep

\* The other steps touch no approval and no execution.
LEMMA OtherLedgerInv ==
    ASSUME TypeInv, TypeInv', LedgerInv,
           Publisher \/ Recovery \/ Environment \/ UNCHANGED vars
    PROVE  LedgerInv'
  <1> USE DEF TypeInv, TypeOK
  <1>1. CASE Publisher
    BY <1>1, QuietStep DEF Publisher, PublishOutbox, PublishUncommitted, ChatPublish
  <1>2. CASE Recovery
    BY <1>2, QuietStep DEF Recovery, RecoverScan, RecoverCommit
  <1>3. CASE Environment
    BY <1>3, QuietStep DEF Environment, LeaseLapses, ChatPublishFails, ApprovalAges,
                           Crash, Park, InHand
  <1>4. CASE UNCHANGED vars
    BY <1>4, QuietStep DEF vars
  <1>5. QED
    BY <1>1, <1>2, <1>3, <1>4

\* Every step keeps the ledger's invariant.
LEMMA NextLedgerInv == TypeInv /\ TypeInv' /\ LedgerInv /\ [Next]_vars => LedgerInv'
  <1> SUFFICES ASSUME TypeInv, TypeInv', LedgerInv, [Next]_vars
               PROVE  LedgerInv'
    OBVIOUS
  <1>1. ASSUME NEW w \in Workers, NEW e \in Entries,
               ReadGroup(w, e) \/ ClaimPending(w, e)
        PROVE  LedgerInv'
    BY <1>1, QuietStep DEF ReadGroup, ClaimPending, Take, InHand, TypeInv, TypeOK
  <1>2. ASSUME NEW w \in Workers, Heartbeat(w)
        PROVE  LedgerInv'
    BY <1>2, QuietStep DEF Heartbeat
  <1>3. QED
    BY <1>1, <1>2, OperatorLedgerInv, WorkerLedgerInv, OtherLedgerInv DEF Next

\* Both invariants hold in every reachable state.
LEMMA Invariance == Spec => [](TypeInv /\ LedgerInv)
  BY InitTypeInv, NextTypeInv, InitLedgerInv, NextLedgerInv, PTL DEF Spec

\* However often an entry is delivered, whoever crashes, stalls or takes over, the
\* tool of an approval is invoked at most once, and only of a consumed approval.
THEOREM SingleUseCorrect == Spec => []SingleUse
  <1>1. TypeInv /\ LedgerInv => SingleUse
    BY DEF TypeInv, TypeOK, LedgerInv, SingleUse
  <1>2. QED
    BY <1>1, Invariance, PTL

\* Neither the worker that seals its own call nor one that settles what a crash left
\* behind records an execution as SUCCEEDED that was not invoked.
THEOREM TruthfulOutcomeCorrect == Spec => []TruthfulOutcome
  <1>1. TypeInv /\ LedgerInv => TruthfulOutcome
    BY DEF TypeInv, TypeOK, LedgerInv, TruthfulOutcome
  <1>2. QED
    BY <1>1, Invariance, PTL

-----------------------------------------------------------------------------
(***************************************************************************)
(* Messages.  An entry stands for its run until a worker that took it has  *)
(* gone past the claim, which it does only if the run is not QUEUED.       *)
(***************************************************************************)

Stands(e, r) ==
    /\ entryRun[e] = r
    /\ \A w \in Workers : ent[w] = e => pc[w] \in {"load", "claim"}

\* A QUEUED run has a message to come or an entry that stands for it; a worker that is
\* not idle has the run of its entry, which was delivered before.
QueueInv ==
    /\ \A r \in Runs : status[r] = "QUEUED" =>
          outbox[r] + owed[r] > 0 \/ \E e \in ready \cup pel : Stands(e, r)
    /\ \A w \in Workers : pc[w] # "idle" =>
          ent[w] \in Entries \ ready /\ entryRun[ent[w]] = job[w]
    /\ \A w \in Workers : pc[w] = "idle" => ent[w] = 0
    /\ \A w \in Workers : pc[w] = "write" => result[w] # "QUEUED"

\* A step that queues a run only with a new message, and touches no entry.
LEMMA QueueQuiet ==
    ASSUME TypeInv, QueueInv, UNCHANGED <<streamVars, pc, job, ent, result>>,
           \A r \in Runs : status'[r] = "QUEUED" =>
              \/ outbox'[r] + owed'[r] > 0
              \/ status[r] = "QUEUED" /\ outbox'[r] = outbox[r] /\ owed'[r] = owed[r]
    PROVE  QueueInv'
  BY DEF QueueInv, Stands

\* A message that is published leaves an entry that stands for its run.
LEMMA QueueAdd ==
    ASSUME TypeInv, QueueInv, NEW r \in Runs, NEW e \in Entries, Add(r, e),
           UNCHANGED <<status, pel, workerVars>>,
           \A q \in Runs \ {r} : outbox'[q] = outbox[q] /\ owed'[q] = owed[q]
    PROVE  QueueInv'
  <1>1. /\ entryRun[e] = NoRun /\ ready' = ready \cup {e}
        /\ entryRun' = [entryRun EXCEPT ![e] = r]
    BY DEF Add
  <1>2. \A w \in Workers : ent[w] # e
    <2> SUFFICES ASSUME NEW w \in Workers
                 PROVE  ent[w] # e
      OBVIOUS
    <2>1. CASE pc[w] = "idle"
      BY <2>1 DEF QueueInv, Entries
    <2>2. CASE pc[w] # "idle"
      BY <1>1, <2>2, RunLifecycleAssumption DEF QueueInv, TypeInv, WellFormed
    <2>3. QED
      BY <2>1, <2>2
  <1>3. entryRun'[e] = r /\ \A f \in Entries \ {e} : entryRun'[f] = entryRun[f]
    BY <1>1 DEF TypeInv, TypeOK
  <1>4. \A f \in ready \cup pel : f # e /\ f \in Entries
    BY <1>1, RunLifecycleAssumption DEF TypeInv, TypeOK, WellFormed
  <1>5. ASSUME NEW q \in Runs, status'[q] = "QUEUED"
        PROVE  outbox'[q] + owed'[q] > 0 \/ \E f \in ready' \cup pel' : Stands(f, q)'
    <2>1. CASE q = r
      BY <1>1, <1>2, <1>3, <2>1 DEF Stands
    <2>2. CASE q # r
      BY <1>1, <1>3, <1>4, <1>5, <2>2 DEF QueueInv, Stands
    <2>3. QED
      BY <2>1, <2>2
  <1>6. QED
    BY <1>1, <1>2, <1>3, <1>5 DEF QueueInv

\* A worker that goes on with its entry leaves the claim behind only if its run is not QUEUED.
LEMMA QueueMove ==
    ASSUME TypeInv, QueueInv, NEW w \in Workers, pc[w] # "idle",
           NEW step \in Steps \ {"idle"}, pc' = [pc EXCEPT ![w] = step],
           UNCHANGED <<streamVars, boxVars, job, ent>>,
           \A r \in Runs : status'[r] = "QUEUED" => status[r] = "QUEUED",
           \/ step \in {"load", "claim"} \/ pc[w] \notin {"load", "claim"}
           \/ status'[job[w]] # "QUEUED",
           step = "write" => result'[w] # "QUEUED",
           \A v \in Workers \ {w} : result'[v] = result[v]
    PROVE  QueueInv'
  <1>1. pc'[w] = step /\ \A v \in Workers \ {w} : pc'[v] = pc[v]
    BY DEF TypeInv, TypeOK
  <1>2. ASSUME NEW r \in Runs, status'[r] = "QUEUED", NEW e \in ready \cup pel, Stands(e, r)
        PROVE  Stands(e, r)'
    <2> SUFFICES ASSUME ent[w] = e
                 PROVE  step \in {"load", "claim"}
      BY <1>1, <1>2 DEF Stands
    <2>1. pc[w] \in {"load", "claim"} /\ job[w] = r
      BY <1>2 DEF Stands, QueueInv
    <2>2. QED
      BY <1>2, <2>1
  <1>3. \A r \in Runs : status'[r] = "QUEUED" =>
          outbox'[r] + owed'[r] > 0 \/ \E e \in ready' \cup pel' : Stands(e, r)'
    BY <1>2 DEF QueueInv
  <1>4. QED
    BY <1>1, <1>3 DEF QueueInv

\* An operator that queues a run leaves a message for it (create_task, retry_run, decide).
LEMMA OperatorQueueInv ==
    ASSUME TypeInv, QueueInv, Operator
    PROVE  QueueInv'
  <1> USE DEF TypeInv, TypeOK
  <1> DEFINE Queued == \A r \in Runs : status'[r] = "QUEUED" =>
                \/ outbox'[r] + owed'[r] > 0
                \/ status[r] = "QUEUED" /\ outbox'[r] = outbox[r] /\ owed'[r] = owed[r]
  <1> DEFINE Kept == Queued /\ UNCHANGED <<streamVars, pc, job, ent, result>>
  <1>1. ASSUME NEW r \in Runs, CreateTask(r)
        PROVE  Kept
    BY <1>1 DEF CreateTask
  <1>2. ASSUME NEW r \in Runs, ChatTask(r)
        PROVE  Kept
    BY <1>2 DEF ChatTask
  <1>3. ASSUME NEW r \in Runs, NEW c, ControlRun(r, c) \/ ChatControl(r, c)
        PROVE  Kept
    BY <1>3 DEF ControlRun, ChatControl
  <1>4. ASSUME NEW r \in Runs, NEW new \in RetryRuns, RetryRun(r, new)
        PROVE  Kept
    BY <1>4 DEF RetryRun, Runs
  <1>5. ASSUME NEW c \in Chats, NEW r \in Runs, ResumeRead(c, r)
        PROVE  Kept
    BY <1>5 DEF ResumeRead
  <1>6. ASSUME NEW c \in Chats, ResumeWrite(c)
        PROVE  Kept
    <2> DEFINE r == resume[c].run
    <2>1. r \in Runs /\ owed' = [owed EXCEPT ![r] = @ + 1] /\ outbox' = outbox
      BY <1>6 DEF ResumeWrite, RunRow
    <2>2. \A q \in Runs \ {r} : status'[q] = status[q]
      BY <1>6 DEF ResumeWrite
    <2> HIDE DEF r
    <2>3. Queued
      BY <2>1, <2>2
    <2>4. QED
      BY <1>6, <2>3 DEF ResumeWrite
  <1>7. ASSUME NEW a \in Approvals, Approve(a)
        PROVE  Kept
    <2>1. apRun[a] \in Runs
      BY <1>7 DEF Approve, Decidable, WellFormed
    <2>2. QED
      BY <1>7, <2>1 DEF Approve
  <1>8. ASSUME NEW a \in Approvals, Reject(a) \/ DecideExpired(a)
        PROVE  Kept
    BY <1>8 DEF Reject, DecideExpired
  <1>9. Kept
    BY <1>1, <1>2, <1>3, <1>4, <1>5, <1>6, <1>7, <1>8 DEF Operator
  <1>10. QED
    BY <1>9, QueueQuiet

\* Delivery and redelivery: the worker that takes the entry has yet to claim its run.
LEMMA DeliveryQueueInv ==
    ASSUME TypeInv, QueueInv, NEW w \in Workers, NEW e \in Entries,
           ReadGroup(w, e) \/ ClaimPending(w, e)
    PROVE  QueueInv'
  <1>1. /\ pc[w] = "idle" /\ e \in ready \cup pel
        /\ pc' = [pc EXCEPT ![w] = "load"] /\ job' = [job EXCEPT ![w] = entryRun[e]]
        /\ ent' = [ent EXCEPT ![w] = e]
        /\ UNCHANGED <<status, boxVars, entryRun, result>>
        /\ ready \cup pel \subseteq ready' \cup pel' /\ ready' \subseteq ready /\ e \notin ready'
    BY DEF ReadGroup, ClaimPending, Take
  <1>2. /\ pc'[w] = "load" /\ job'[w] = entryRun[e] /\ ent'[w] = e
        /\ \A v \in Workers \ {w} : pc'[v] = pc[v] /\ job'[v] = job[v] /\ ent'[v] = ent[v]
    BY <1>1 DEF TypeInv, TypeOK
  <1>3. \A f, r : Stands(f, r) => Stands(f, r)'
    BY <1>1, <1>2 DEF Stands
  <1>4. \A r \in Runs : status'[r] = "QUEUED" =>
          outbox'[r] + owed'[r] > 0 \/ \E f \in ready' \cup pel' : Stands(f, r)'
    BY <1>1, <1>3 DEF QueueInv
  <1>5. QED
    BY <1>1, <1>2, <1>4 DEF QueueInv

\* A worker that gives its entry up: after a crash the entry is kept, and an entry that is
\* acknowledged stands for no run.
LEMMA ParkQueueInv ==
    ASSUME TypeInv, QueueInv, NEW w \in Workers, Ack(w) \/ Crash(w)
    PROVE  QueueInv'
  <1>1. /\ pc[w] # "idle" /\ Park(w) /\ UNCHANGED <<status, boxVars, entryRun, ready>>
        /\ pel' = pel \/ (pc[w] = "ack" /\ pel' = pel \ {ent[w]})
    BY DEF Ack, Crash
  <1>2. /\ pc'[w] = "idle" /\ ent'[w] = 0
        /\ \A v \in Workers \ {w} : /\ pc'[v] = pc[v] /\ job'[v] = job[v]
                                     /\ ent'[v] = ent[v] /\ result'[v] = result[v]
    BY <1>1 DEF Park, TypeInv, TypeOK
  <1>3. ASSUME NEW r \in Runs, NEW e \in ready \cup pel, Stands(e, r)
        PROVE  e \in ready' \cup pel' /\ Stands(e, r)'
    <2>1. e \in Entries /\ e # 0
      BY DEF TypeInv, TypeOK, Entries
    <2>2. Stands(e, r)'
      BY <1>1, <1>2, <1>3, <2>1 DEF Stands
    <2>3. pc[w] = "ack" => ent[w] # e
      BY <1>3 DEF Stands
    <2>4. QED
      BY <1>1, <2>2, <2>3
  <1>4. \A r \in Runs : status'[r] = "QUEUED" =>
          outbox'[r] + owed'[r] > 0 \/ \E e \in ready' \cup pel' : Stands(e, r)'
    BY <1>1, <1>3 DEF QueueInv
  <1>5. QED
    BY <1>1, <1>2, <1>4 DEF QueueInv

\* A worker goes past the claim only with a run that is not QUEUED any more.
LEMMA WorkerQueueInv ==
    ASSUME TypeInv, QueueInv, NEW w \in Workers, WorkerStep(w)
    PROVE  QueueInv'
  <1> USE DEF TypeInv, TypeOK
  <1> DEFINE Moves(step) ==
                /\ pc[w] # "idle" /\ pc' = [pc EXCEPT ![w] = step]
                /\ UNCHANGED <<streamVars, boxVars, job, ent>>
                /\ \A r \in Runs : status'[r] = "QUEUED" => status[r] = "QUEUED"
                /\ \/ step \in {"load", "claim"} \/ pc[w] \notin {"load", "claim"}
                   \/ status'[job[w]] # "QUEUED"
                /\ step = "write" => result'[w] # "QUEUED"
                /\ \A v \in Workers \ {w} : result'[v] = result[v]
  <1>1. pc[w] # "idle" => job[w] \in Runs
    BY DEF WellFormed
  <1>2. CASE Load(w)
    <2>1. CASE status[job[w]] \in Terminal
      <3>1. Moves("ack")
        BY <1>2, <2>1 DEF Load, Done, Terminal
      <3>2. QED
        BY <3>1, QueueMove DEF Steps
    <2>2. CASE status[job[w]] \notin Terminal
      <3>1. Moves("claim")
        BY <1>2, <2>2 DEF Load, Goto
      <3>2. QED
        BY <3>1, QueueMove DEF Steps
    <2>3. QED
      BY <2>1, <2>2
  <1>3. CASE Claim(w)
    <2>1. CASE Claimable(job[w])
      <3>1. Moves("continue")
        BY <1>1, <1>3, <2>1 DEF Claim, Goto
      <3>2. QED
        BY <3>1, QueueMove DEF Steps, Working
    <2>2. CASE ~Claimable(job[w])
      <3>1. Moves("ack")
        BY <1>3, <2>2 DEF Claim, Claimable, Done
      <3>2. QED
        BY <3>1, QueueMove DEF Steps
    <2>3. QED
      BY <2>1, <2>2
  <1>4. CASE Settle(w) \/ Seal(w)
    <2>1. Moves("ack")
      BY <1>4 DEF Settle, Seal, Done
    <2>2. QED
      BY <2>1, QueueMove DEF Steps
  <1>5. CASE FinalWrite(w)
    <2>1. pc[w] = "write" /\ result[w] # "QUEUED"
      BY <1>5 DEF FinalWrite, QueueInv
    <2>2. \A r \in Runs : status'[r] = "QUEUED" => status[r] = "QUEUED"
      BY <1>5, <2>1 DEF FinalWrite
    <2>3. Moves("ack")
      BY <1>5, <2>1, <2>2 DEF FinalWrite, Done
    <2>4. QED
      BY <2>3, QueueMove DEF Steps
  <1>6. CASE StartCoordinator(w) \/ Proceed(w)
    <2>1. \E step \in {"pauseCheck", "stopCheck", "act"} : Moves(step)
      BY <1>6 DEF StartCoordinator, Proceed, Goto
    <2>2. QED
      BY <2>1, QueueMove DEF Steps, Working
  <1>7. CASE Interrupt(w)
    <2>1. Moves("write")
      BY <1>7 DEF Interrupt, CoordinatorEnds, Goto
    <2>2. QED
      BY <2>1, QueueMove DEF Steps, Working
  <1>8. ASSUME NEW outcome, CallTool(w, outcome)
        PROVE  QueueInv'
    <2>1. Moves("seal")
      BY <1>8 DEF CallTool, Goto
    <2>2. QED
      BY <2>1, QueueMove DEF Steps, Working
  <1>9. ASSUME NEW final \in {"COMPLETED", "FAILED"}, Finish(w, final)
        PROVE  QueueInv'
    <2>1. Moves("write")
      BY <1>9 DEF Finish, CoordinatorEnds, Goto
    <2>2. QED
      BY <2>1, QueueMove DEF Steps, Working
  <1>10. ASSUME NEW a \in Approvals, Consume(w, a) \/ Inspect(w, a)
         PROVE  QueueInv'
    <2>1. \E step \in {"call", "settle", "ack"} : Moves(step)
      BY <1>10 DEF Consume, Inspect, Goto, Done
    <2>2. QED
      BY <2>1, QueueMove DEF Steps, Working
  <1>11. ASSUME NEW a \in Approvals, RequestApproval(w, a)
         PROVE  QueueInv'
    <2>1. Moves("write")
      BY <1>11 DEF RequestApproval, CoordinatorEnds, Goto
    <2>2. QED
      BY <2>1, QueueMove DEF Steps, Working
  <1>12. CASE Ack(w)
    BY <1>12, ParkQueueInv
  <1>13. QED
    BY <1>2, <1>3, <1>4, <1>5, <1>6, <1>7, <1>8, <1>9, <1>10, <1>11, <1>12 DEF WorkerStep

\* As long as no Telegram publish is lost, every step keeps the messages of the queued runs.
LEMMA NextQueueInv ==
    ASSUME TypeInv, QueueInv, [Next]_vars, [\A r \in Runs : ~ChatPublishFails(r)]_vars
    PROVE  QueueInv'
  <1>1. CASE Publisher
    <2> SUFFICES ASSUME NEW r \in Runs, NEW e \in Entries,
                        \/ PublishOutbox(r, e) \/ PublishUncommitted(r, e)
                        \/ ChatPublish(r, e)
                 PROVE  QueueInv'
      BY <1>1 DEF Publisher
    <2>1. /\ Add(r, e) /\ UNCHANGED <<status, pel, workerVars>>
          /\ \A q \in Runs \ {r} : outbox'[q] = outbox[q] /\ owed'[q] = owed[q]
      BY DEF PublishOutbox, PublishUncommitted, ChatPublish, TypeInv, TypeOK
    <2>2. QED
      BY <2>1, QueueAdd
  <1>2. CASE RecoverScan
    BY <1>2, QueueQuiet DEF RecoverScan
  <1>3. ASSUME NEW S \in SUBSET scan, NEW next \in [S -> SpareRuns],
               NEW dead \in SUBSET scan, RecoverCommit(next, dead)
        PROVE  QueueInv'
    <2> DEFINE new == {next[r] : r \in DOMAIN next}
    <2>1. /\ status' = [r \in Runs |-> IF r \in scan THEN "FAILED"
                                       ELSE IF r \in new THEN "QUEUED" ELSE status[r]]
          /\ outbox' = [r \in Runs |-> IF r \in new THEN outbox[r] + 1 ELSE outbox[r]]
          /\ owed' = owed /\ UNCHANGED <<streamVars, workerVars>>
      BY <1>3 DEF RecoverCommit
    <2> HIDE DEF new
    <2>2. \A r \in Runs : outbox[r] \in Nat /\ owed[r] \in Nat
      BY DEF TypeInv, TypeOK
    <2>3. \A r \in Runs : status'[r] = "QUEUED" =>
             \/ outbox'[r] + owed'[r] > 0
             \/ status[r] = "QUEUED" /\ outbox'[r] = outbox[r] /\ owed'[r] = owed[r]
      BY <2>1, <2>2
    <2>4. QED
      BY <2>1, <2>3, QueueQuiet
  <1>4. ASSUME NEW r \in Runs, LeaseLapses(r)
        PROVE  QueueInv'
    BY <1>4, QueueQuiet DEF LeaseLapses
  <1>5. ASSUME NEW r \in Runs, ChatPublishFails(r)
        PROVE  FALSE
    <2>1. failures' # failures
      BY <1>5 DEF ChatPublishFails, TypeInv, TypeOK
    <2>2. QED
      BY <1>5, <2>1 DEF vars
  <1>6. ASSUME NEW a \in Approvals, ApprovalAges(a)
        PROVE  QueueInv'
    BY <1>6, QueueQuiet DEF ApprovalAges
  <1>7. ASSUME NEW w \in Workers, Heartbeat(w)
        PROVE  QueueInv'
    BY <1>7, QueueQuiet DEF Heartbeat
  <1>8. CASE UNCHANGED vars
    BY <1>8, QueueQuiet DEF vars
  <1>9. QED
    BY <1>1, <1>2, <1>3, <1>4, <1>5, <1>6, <1>7, <1>8, OperatorQueueInv, WorkerQueueInv,
       DeliveryQueueInv, ParkQueueInv DEF Next, Recovery, Environment

\* Unless a Telegram handler loses its publish, which the code swallows, a QUEUED run can
\* always be found: no acknowledgement, by however many workers, crashed, stalled or late,
\* takes away the last message of a run that still has to be claimed.
THEOREM QueuedCorrect ==
    Spec /\ [][\A r \in Runs : ~ChatPublishFails(r)]_vars => []QueuedHasMessage
  <1>1. Init => QueueInv
    BY DEF Init, QueueInv
  <1>2. QueueInv => QueuedHasMessage
    BY DEF QueueInv, QueuedHasMessage, Stands
  <1>3. QED
    BY <1>1, <1>2, NextQueueInv, Invariance, PTL DEF Spec

-----------------------------------------------------------------------------
(***************************************************************************)
(* Refinement.  Under the mapping of RunLifecycle each step is a step of   *)
(* the ledger or leaves it alone.                                          *)
(***************************************************************************)

\* Initial states map to initial states of the ledger.
LEMMA InitLedger == Init => Ledger!Init
  BY DEF Init, Ledger!Init, LedgerState, LedgerOutcome

\* A step that leaves the three ledger columns alone does not show in the ledger.
LEMMA LedgerStutter ==
    ASSUME UNCHANGED <<apStatus, exec, calls>>
    PROVE  UNCHANGED Ledger!ledger
  BY DEF Ledger!ledger

\* What the mapping makes of each column value...
LEMMA MappedValues ==
    /\ LedgerState["NONE"] = "absent" /\ LedgerState["PENDING"] = "open"
    /\ LedgerState["APPROVED"] = "granted" /\ LedgerState["CONSUMED"] = "spent"
    /\ LedgerState["REJECTED"] = "refused" /\ LedgerState["EXPIRED"] = "refused"
    /\ LedgerOutcome["PENDING"] = "started" /\ LedgerOutcome["SUCCEEDED"] = "done"
    /\ LedgerOutcome["AMBIGUOUS"] = "unclear"
  BY DEF LedgerState, LedgerOutcome

\* ... and of an update of one row.
LEMMA MappedMove ==
    ASSUME TypeInv, NEW a \in Approvals, NEW from, NEW to,
           apStatus[a] = from, apStatus' = [apStatus EXCEPT ![a] = to],
           UNCHANGED calls
    PROVE  Ledger!Move(a, LedgerState[from], LedgerState[to])
  BY DEF TypeInv, TypeOK, Ledger!Move

\* A recorded outcome is recorded in the ledger too.
LEMMA MappedOutcome ==
    ASSUME TypeInv, NEW a \in Approvals, NEW verdict,
           exec' = [exec EXCEPT ![a] = verdict]
    PROVE  [b \in Approvals |-> LedgerOutcome[exec[b]]]'
             = [[b \in Approvals |-> LedgerOutcome[exec[b]]]
                  EXCEPT ![a] = LedgerOutcome[verdict]]
  BY DEF TypeInv, TypeOK

\* Recording an outcome of a consumed approval is a report of the ledger.
LEMMA MappedReport ==
    ASSUME TypeInv, NEW a \in Approvals, NEW verdict,
           apStatus[a] = "CONSUMED", UNCHANGED <<apStatus, calls>>,
           exec' = [exec EXCEPT ![a] = verdict],
           LedgerOutcome[verdict] = "done" => calls[a] = 1
    PROVE  Ledger!Report(a, LedgerOutcome[verdict])
  <1>1. [b \in Approvals |-> LedgerState[apStatus[b]]][a] = "spent"
    BY MappedValues
  <1>2. UNCHANGED [b \in Approvals |-> LedgerState[apStatus[b]]]
    OBVIOUS
  <1>3. QED
    BY <1>1, <1>2, MappedOutcome DEF Ledger!Report

\* Operators' steps map to decisions of the ledger, or change nothing in it.
LEMMA OperatorLedger ==
    ASSUME TypeInv, LedgerInv, Operator
    PROVE  [Ledger!Next]_(Ledger!ledger)
  <1>1. ASSUME NEW r \in Runs, CreateTask(r) \/ ChatTask(r)
        PROVE  UNCHANGED Ledger!ledger
    BY <1>1, LedgerStutter DEF CreateTask, ChatTask
  <1>1a. ASSUME NEW c \in Chats,
               ResumeWrite(c) \/ \E r \in Runs : ResumeRead(c, r)
        PROVE  UNCHANGED Ledger!ledger
    BY <1>1a, LedgerStutter DEF ResumeWrite, ResumeRead
  <1>2. ASSUME NEW r \in Runs, NEW c, ControlRun(r, c) \/ ChatControl(r, c)
        PROVE  UNCHANGED Ledger!ledger
    BY <1>2, LedgerStutter DEF ControlRun, ChatControl
  <1>3. ASSUME NEW r \in Runs, NEW new \in RetryRuns, RetryRun(r, new)
        PROVE  UNCHANGED Ledger!ledger
    BY <1>3, LedgerStutter DEF RetryRun
  <1>4. ASSUME NEW a \in Approvals, Approve(a)
        PROVE  Ledger!Grant(a)
    <2>1. Ledger!Move(a, LedgerState["PENDING"], LedgerState["APPROVED"])
      BY <1>4, MappedMove DEF Approve, Decidable
    <2>2. QED
      BY <1>4, <2>1, MappedValues DEF Approve, Ledger!Grant
  <1>5. ASSUME NEW a \in Approvals, Reject(a) \/ DecideExpired(a)
        PROVE  Ledger!Refuse(a)
    <2>1. CASE Reject(a)
      <3>1. Ledger!Move(a, LedgerState["PENDING"], LedgerState["REJECTED"])
        BY <2>1, MappedMove DEF Reject, Decidable
      <3>2. QED
        BY <2>1, <3>1, MappedValues DEF Reject, Ledger!Refuse
    <2>2. CASE DecideExpired(a)
      <3>1. Ledger!Move(a, LedgerState["PENDING"], LedgerState["EXPIRED"])
        BY <2>2, MappedMove DEF DecideExpired, Decidable
      <3>2. QED
        BY <2>2, <3>1, MappedValues DEF DecideExpired, Ledger!Refuse
    <2>3. QED
      BY <1>5, <2>1, <2>2
  <1>6. QED
    BY <1>1, <1>2, <1>3, <1>4, <1>5, <1>1a DEF Operator, Ledger!Next

\* Workers' steps map to consuming, invoking and reporting, or change nothing in it.
LEMMA WorkerLedger ==
    ASSUME TypeInv, LedgerInv, NEW w \in Workers, WorkerStep(w)
    PROVE  [Ledger!Next]_(Ledger!ledger)
    <1>1. CASE Load(w) \/ Claim(w) \/ FinalWrite(w) \/ Ack(w)
    BY <1>1, LedgerStutter DEF Load, Claim, FinalWrite, Ack
  <1>2. CASE StartCoordinator(w) \/ Proceed(w) \/ Interrupt(w)
    BY <1>2, LedgerStutter DEF StartCoordinator, Proceed, Interrupt
  <1>3. ASSUME NEW final \in {"COMPLETED", "FAILED"}, Finish(w, final)
        PROVE  UNCHANGED Ledger!ledger
    BY <1>3, LedgerStutter DEF Finish
  <1>4. ASSUME NEW a \in Approvals, Inspect(w, a)
        PROVE  UNCHANGED Ledger!ledger
    BY <1>4, LedgerStutter DEF Inspect
  <1>5. ASSUME NEW a \in Approvals, RequestApproval(w, a)
        PROVE  Ledger!Open(a)
    <2>1. Ledger!Move(a, LedgerState["NONE"], LedgerState["PENDING"])
      BY <1>5, MappedMove DEF RequestApproval
    <2>2. QED
      BY <1>5, <2>1, MappedValues DEF RequestApproval, Ledger!Open
  <1>6. ASSUME NEW a \in Approvals, Consume(w, a)
        PROVE  Ledger!Spend(a) \/ UNCHANGED Ledger!ledger
    <2>1. CASE a \notin aged
      <3>1. Ledger!Move(a, LedgerState["APPROVED"], LedgerState["CONSUMED"])
        BY <1>6, <2>1, MappedMove DEF Consume, Newest
      <3>2. exec' = [exec EXCEPT ![a] = "PENDING"]
        BY <1>6, <2>1 DEF Consume
      <3>3. [b \in Approvals |-> LedgerOutcome[exec[b]]]'
              = [[b \in Approvals |-> LedgerOutcome[exec[b]]]
                   EXCEPT ![a] = LedgerOutcome["PENDING"]]
        BY <3>2, MappedOutcome
      <3>4. QED
        BY <3>1, <3>2, <3>3, MappedValues DEF Ledger!Spend
    <2>2. CASE a \in aged
      BY <1>6, <2>2, LedgerStutter DEF Consume
    <2>3. QED
      BY <2>1, <2>2
  <1>7. ASSUME NEW outcome \in {"ok", "error"}, CallTool(w, outcome)
        PROVE  ap[w] \in Approvals /\ Ledger!Act(ap[w])
    <2>1. /\ ap[w] \in Approvals /\ apStatus[ap[w]] = "CONSUMED"
          /\ calls[ap[w]] = 0
      BY <1>7 DEF CallTool, LedgerInv, InHand, TypeInv, WellFormed
    <2>2. QED
      BY <1>7, <2>1, MappedValues DEF CallTool, Ledger!Act
  <1>8. CASE Settle(w)
    <2>1. ap[w] \in Approvals /\ apStatus[ap[w]] = "CONSUMED"
      BY <1>8 DEF Settle, LedgerInv, InHand, TypeInv, WellFormed
    <2>2. CASE result[w] \in {"NONE", "PENDING"}
      <3>1. Ledger!Report(ap[w], "unclear")
        <4>1. exec' = [exec EXCEPT ![ap[w]] = "AMBIGUOUS"]
          BY <1>8, <2>1, <2>2 DEF Settle
        <4>2. UNCHANGED <<apStatus, calls>>
          BY <1>8 DEF Settle
        <4>3. LedgerOutcome["AMBIGUOUS"] = "done" => calls[ap[w]] = 1
          BY <2>1, MappedValues
        <4>4. Ledger!Report(ap[w], LedgerOutcome["AMBIGUOUS"])
          BY <2>1, <4>1, <4>2, <4>3, MappedReport
        <4>5. QED
          BY <4>4, MappedValues
      <3>2. QED
        BY <2>1, <3>1 DEF Ledger!Next
    <2>3. CASE result[w] \notin {"NONE", "PENDING"}
      <3>1. exec' = exec
        BY <1>8, <2>1, <2>3 DEF Settle, TypeInv, TypeOK
      <3>2. QED
        BY <1>8, <3>1, LedgerStutter DEF Settle
    <2>4. QED
      BY <2>2, <2>3
  <1>9. CASE Seal(w)
    <2>1. /\ ap[w] \in Approvals /\ apStatus[ap[w]] = "CONSUMED"
          /\ calls[ap[w]] = 1
      BY <1>9 DEF Seal, LedgerInv, InHand, TypeInv, WellFormed
    <2>2. CASE exec' = [exec EXCEPT ![ap[w]] = "SUCCEEDED"]
      <3>1. Ledger!Report(ap[w], "done")
        <4>1. exec' = [exec EXCEPT ![ap[w]] = "SUCCEEDED"]
          BY <1>9, <2>1, <2>2 DEF Seal
        <4>2. UNCHANGED <<apStatus, calls>>
          BY <1>9 DEF Seal
        <4>3. LedgerOutcome["SUCCEEDED"] = "done" => calls[ap[w]] = 1
          BY <2>1, MappedValues
        <4>4. Ledger!Report(ap[w], LedgerOutcome["SUCCEEDED"])
          BY <2>1, <4>1, <4>2, <4>3, MappedReport
        <4>5. QED
          BY <4>4, MappedValues
      <3>2. QED
        BY <2>1, <3>1 DEF Ledger!Next
    <2>3. CASE exec' = [exec EXCEPT ![ap[w]] = "AMBIGUOUS"]
      <3>1. Ledger!Report(ap[w], "unclear")
        <4>1. exec' = [exec EXCEPT ![ap[w]] = "AMBIGUOUS"]
          BY <1>9, <2>1, <2>3 DEF Seal
        <4>2. UNCHANGED <<apStatus, calls>>
          BY <1>9 DEF Seal
        <4>3. LedgerOutcome["AMBIGUOUS"] = "done" => calls[ap[w]] = 1
          BY <2>1, MappedValues
        <4>4. Ledger!Report(ap[w], LedgerOutcome["AMBIGUOUS"])
          BY <2>1, <4>1, <4>2, <4>3, MappedReport
        <4>5. QED
          BY <4>4, MappedValues
      <3>2. QED
        BY <2>1, <3>1 DEF Ledger!Next
    <2>4. QED
      BY <1>9, <2>2, <2>3 DEF Seal
  <1>10. QED
    BY <1>1, <1>2, <1>3, <1>4, <1>5, <1>6, <1>7, <1>8, <1>9 DEF WorkerStep, Ledger!Next

\* Every step is a step of the ledger or leaves it alone.
LEMMA NextLedger == TypeInv /\ LedgerInv /\ [Next]_vars => [Ledger!Next]_(Ledger!ledger)
  <1> SUFFICES ASSUME TypeInv, LedgerInv, [Next]_vars
               PROVE  [Ledger!Next]_(Ledger!ledger)
    OBVIOUS
  <1>1. CASE Publisher
    BY <1>1, LedgerStutter DEF Publisher, PublishOutbox, PublishUncommitted, ChatPublish
  <1>2. CASE Recovery
    BY <1>2, LedgerStutter DEF Recovery, RecoverScan, RecoverCommit
  <1>3. CASE Environment
    BY <1>3, LedgerStutter DEF Environment, LeaseLapses, ChatPublishFails, ApprovalAges,
                               Crash
  <1>4. ASSUME NEW w \in Workers, NEW e \in Entries,
               ReadGroup(w, e) \/ ClaimPending(w, e)
        PROVE  UNCHANGED Ledger!ledger
    BY <1>4, LedgerStutter DEF ReadGroup, ClaimPending
  <1>5. ASSUME NEW w \in Workers, Heartbeat(w)
        PROVE  UNCHANGED Ledger!ledger
    BY <1>5, LedgerStutter DEF Heartbeat
  <1>6. CASE UNCHANGED vars
    BY <1>6, LedgerStutter DEF vars
  <1>7. QED
    BY <1>1, <1>2, <1>3, <1>4, <1>5, <1>6, OperatorLedger, WorkerLedger DEF Next

\* Workers, queues, leases, crashes and recovery implement the approval ledger: an
\* approval is decided once, spent once, acted upon at most once, and reported done
\* only after the act.
THEOREM ImplementsLedger == Spec => LedgerSpec
  BY InitLedger, NextLedger, Invariance, PTL DEF Spec, LedgerSpec, Ledger!Spec
=============================================================================
