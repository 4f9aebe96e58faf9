------------------------- MODULE RunOwnershipProofs -------------------------
(***************************************************************************)
(* Theorems about who owns a run, and about what its status then says.     *)
(***************************************************************************)
EXTENDS RunLifecycleProofs

USE DEF runVars, apVars, boxVars, streamVars, workerVars, openVars

(***************************************************************************)
(* Waiting runs.  The worker that is about to store WAITING_APPROVAL has   *)
(* the approval of its run in hand, decided or not.  So when the final     *)
(* write strands the run the approval was decided early, and no other step *)
(* strands a run: a decision takes a waiting run along.                    *)
(***************************************************************************)

WaitInv ==
    \A w \in Workers : pc[w] = "write" /\ result[w] = "WAITING_APPROVAL" =>
        /\ ap[w] \in Approvals
        /\ apRun[ap[w]] = job[w]
        /\ apStatus[ap[w]] # "NONE"

\* What a step may strand.
OnlyEarly == \A r \in Runs : ~Stranded(r) /\ Stranded(r)' => DecidedEarly(r)

\* A step that decides nothing, lets no run wait and stores no result.
LEMMA WaitQuiet ==
    ASSUME TypeInv, TypeInv', WaitInv,
           UNCHANGED <<apStatus, apRun>>,
           \A r \in Runs : status'[r] = "WAITING_APPROVAL" => status'[r] = status[r],
           \A w \in Workers : pc'[w] = "write" /\ result'[w] = "WAITING_APPROVAL" =>
              pc'[w] = pc[w] /\ result'[w] = result[w] /\ ap'[w] = ap[w] /\ job'[w] = job[w]
    PROVE  WaitInv' /\ OnlyEarly
  BY DEF WaitInv, OnlyEarly, Stranded

\* A decision takes the run along if it waits, and leaves approvals of other runs alone.
LEMMA OperatorWaitInv ==
    ASSUME TypeInv, TypeInv', WaitInv, Operator
    PROVE  WaitInv' /\ OnlyEarly
  <1>1. ASSUME NEW r \in Runs, CreateTask(r) \/ ChatTask(r)
        PROVE  WaitInv' /\ OnlyEarly
    BY <1>1, WaitQuiet DEF CreateTask, ChatTask, TypeInv, TypeOK
  <1>1a. ASSUME NEW c \in Chats,
                ResumeWrite(c) \/ \E r \in Runs : ResumeRead(c, r)
         PROVE  WaitInv' /\ OnlyEarly
    BY <1>1a, WaitQuiet DEF ResumeWrite, ResumeRead, TypeInv, TypeOK
  <1>2. ASSUME NEW r \in Runs, NEW c \in {"none", "pause", "stop"},
               ControlRun(r, c) \/ ChatControl(r, c)
        PROVE  WaitInv' /\ OnlyEarly
    BY <1>2, WaitQuiet DEF ControlRun, ChatControl
  <1>3. ASSUME NEW r \in Runs, NEW new \in RetryRuns, RetryRun(r, new)
        PROVE  WaitInv' /\ OnlyEarly
    BY <1>3, WaitQuiet DEF RetryRun, TypeInv, TypeOK, Runs
  <1>4. ASSUME NEW a \in Approvals, Approve(a) \/ Reject(a)
        PROVE  WaitInv' /\ OnlyEarly
    <2>1. /\ apRun[a] \in Runs
          /\ \A b \in Approvals \ {a} : apStatus'[b] = apStatus[b]
          /\ apStatus'[a] # "NONE"
      BY <1>4 DEF Approve, Reject, Decidable, TypeInv, TypeOK, WellFormed
    <2>2. status'[apRun[a]] # "WAITING_APPROVAL"
      BY <1>4, <2>1 DEF Approve, Reject, TypeInv, TypeOK
    <2>3. \A r \in Runs \ {apRun[a]} : status'[r] = status[r]
      BY <1>4, <2>1 DEF Approve, Reject, TypeInv, TypeOK
    <2>4. UNCHANGED <<apRun, pc, result, ap, job>>
      BY <1>4 DEF Approve, Reject
    <2>5. QED
      BY <2>1, <2>2, <2>3, <2>4 DEF WaitInv, OnlyEarly, Stranded
  <1>5. ASSUME NEW a \in Approvals, DecideExpired(a)
        PROVE  WaitInv' /\ OnlyEarly
    BY <1>5 DEF DecideExpired, Decidable, WaitInv, OnlyEarly, Stranded, TypeInv, TypeOK
  <1>6. QED
    BY <1>1, <1>1a, <1>2, <1>3, <1>4, <1>5, RunLifecycleAssumption DEF Operator

\* A worker that stores WAITING_APPROVAL has an approval of the run in hand.
LEMMA WorkerWaitInv ==
    ASSUME TypeInv, TypeInv', LedgerInv, WaitInv, NEW w \in Workers, WorkerStep(w)
    PROVE  WaitInv' /\ OnlyEarly
  <1> USE DEF TypeInv, TypeOK
  <1>1. CASE Load(w) \/ Claim(w) \/ Ack(w)
    BY <1>1, WaitQuiet DEF Load, Claim, Ack, Done, Goto, Park
  <1>2. CASE StartCoordinator(w) \/ Proceed(w) \/ Interrupt(w)
    BY <1>2, WaitQuiet DEF StartCoordinator, Proceed, Interrupt, CoordinatorEnds, Goto
  <1>3. ASSUME NEW final \in {"COMPLETED", "FAILED"}, Finish(w, final)
        PROVE  WaitInv' /\ OnlyEarly
    BY <1>3, WaitQuiet DEF Finish, CoordinatorEnds, Goto
  <1>4. CASE Settle(w) \/ Seal(w)
    BY <1>4, WaitQuiet DEF Settle, Seal, Done
  <1>5. ASSUME NEW outcome \in {"ok", "error"}, CallTool(w, outcome)
        PROVE  WaitInv' /\ OnlyEarly
    BY <1>5, WaitQuiet DEF CallTool, Goto
  <1>6. ASSUME NEW a \in Approvals, Inspect(w, a)
        PROVE  WaitInv' /\ OnlyEarly
    BY <1>6, WaitQuiet DEF Inspect, Goto
  <1>7. ASSUME NEW a \in Approvals, Consume(w, a)
        PROVE  WaitInv' /\ OnlyEarly
    <2>1. CASE a \notin aged
      BY <1>7, <2>1 DEF Consume, Newest, Goto, WaitInv, OnlyEarly, Stranded
    <2>2. CASE a \in aged
      BY <1>7, <2>2, WaitQuiet DEF Consume, Done
    <2>3. QED
      BY <2>1, <2>2
  <1>8. ASSUME NEW a \in Approvals, RequestApproval(w, a)
        PROVE  WaitInv' /\ OnlyEarly
    BY <1>8 DEF RequestApproval, CoordinatorEnds, Goto, WaitInv, OnlyEarly, Stranded
  <1>9. CASE FinalWrite(w)
    <2>1. /\ \A v \in Workers : pc'[v] = "write" =>
                pc[v] = "write" /\ result'[v] = result[v] /\ ap'[v] = ap[v] /\ job'[v] = job[v]
          /\ UNCHANGED <<apStatus, apRun>> /\ pc[w] = "write"
      BY <1>9 DEF FinalWrite, Done
    <2>2. WaitInv'
      BY <2>1 DEF WaitInv
    <2>3. ASSUME NEW r \in Runs, ~Stranded(r), Stranded(r)'
          PROVE  DecidedEarly(r)
      <3>1. r = job[w] /\ result[w] = "WAITING_APPROVAL"
        BY <1>9, <2>1, <2>3 DEF FinalWrite, Stranded
      <3>2. ap[w] \in Approvals /\ apRun[ap[w]] = r
        BY <2>1, <3>1 DEF WaitInv
      <3>3. apStatus[ap[w]] \notin {"PENDING", "EXPIRED"}
        BY <2>1, <2>3, <3>2 DEF Stranded
      <3>4. QED
        BY <2>1, <3>1, <3>2, <3>3 DEF DecidedEarly
    <2>4. QED
      BY <2>2, <2>3 DEF OnlyEarly
  <1>10. QED
    BY <1>1, <1>2, <1>3, <1>4, <1>5, <1>6, <1>7, <1>8, <1>9 DEF WorkerStep

\* Every step keeps the invariant of waiting runs.
LEMMA NextWaitInv ==
    TypeInv /\ TypeInv' /\ LedgerInv /\ WaitInv /\ [Next]_vars => WaitInv' /\ OnlyEarly
  <1> SUFFICES ASSUME TypeInv, TypeInv', LedgerInv, WaitInv, [Next]_vars
               PROVE  WaitInv' /\ OnlyEarly
    OBVIOUS
  <1>1. CASE Publisher
    BY <1>1, WaitQuiet DEF Publisher, PublishOutbox, PublishUncommitted, ChatPublish
  <1>2. CASE Recovery
    <2>1. CASE RecoverScan
      BY <2>1, WaitQuiet DEF RecoverScan
    <2>2. ASSUME NEW next, NEW dead, RecoverCommit(next, dead)
          PROVE  WaitInv' /\ OnlyEarly
      <3>1. \A r \in Runs : status'[r] \in {"FAILED", "QUEUED", status[r]}
        BY <2>2 DEF RecoverCommit
      <3>2. QED
        BY <2>2, <3>1, WaitQuiet DEF RecoverCommit
    <2>3. QED
      BY <1>2, <2>1, <2>2 DEF Recovery
  <1>3. CASE Environment
    BY <1>3, WaitQuiet DEF Environment, LeaseLapses, ChatPublishFails, ApprovalAges,
                           Crash, Park, TypeInv, TypeOK
  <1>4. ASSUME NEW w \in Workers, NEW e \in Entries,
               ReadGroup(w, e) \/ ClaimPending(w, e)
        PROVE  WaitInv' /\ OnlyEarly
    BY <1>4, WaitQuiet DEF ReadGroup, ClaimPending, Take, TypeInv, TypeOK
  <1>5. ASSUME NEW w \in Workers, Heartbeat(w)
        PROVE  WaitInv' /\ OnlyEarly
    BY <1>5, WaitQuiet DEF Heartbeat
  <1>6. CASE UNCHANGED vars
    BY <1>6, WaitQuiet DEF vars
  <1>7. QED
    BY <1>1, <1>2, <1>3, <1>4, <1>5, <1>6, OperatorWaitInv, WorkerWaitInv DEF Next

\* Whenever operators decide and whatever crashes, stalls or is recovered, a run is
\* stranded only by the final write of a worker whose approval was decided before it
\* (the event sink commits the approval first).
THEOREM StrandedCorrect == Spec => StrandedByEarlyDecision
  <1>1. Init => WaitInv
    BY DEF Init, WaitInv
  <1>2. TypeInv /\ TypeInv' /\ LedgerInv /\ WaitInv /\ [Next]_vars => WaitInv' /\ OnlyEarly
    BY NextWaitInv
  <1>3. OnlyEarly => [\A r \in Runs : ~Stranded(r) /\ Stranded(r)' => DecidedEarly(r)]_vars
    BY DEF OnlyEarly
  <1>4. QED
    BY <1>1, <1>2, <1>3, Invariance, PTL DEF Spec, StrandedByEarlyDecision

-----------------------------------------------------------------------------
(***************************************************************************)
(* Mutual exclusion.  A worker that holds a run is its owner under a valid *)
(* lease, or recovery has already FAILED the run: its transaction may have *)
(* read the run before the worker claimed it.  Neither can be claimed.     *)
(* And what a /resume has read as PAUSED is not executed before it stores  *)
(* QUEUED: this is where two of them at once would go wrong.               *)
(***************************************************************************)

OwnInv ==
    /\ OneWorkerPerRun
    /\ \A w \in Workers, r \in Runs : Holds(w, r) =>
          \/ status[r] = "FAILED"
          \/ status[r] = "EXECUTING" /\ r \in leased /\ owner[r] = w
    /\ \A c \in Chats, r \in Runs : resume[c].run = r /\ resume[c].status = "PAUSED" =>
          status[r] \in {"PAUSED", "FAILED"} /\ \A w \in Workers : ~Holds(w, r)
    /\ \A c, d \in Chats : resume[c].run # NoRun /\ resume[d].run # NoRun => c = d

\* A step that claims nothing: whoever holds a run afterwards held it before, and
\* of a held run the status at most becomes FAILED.
LEMMA OwnQuiet ==
    ASSUME TypeInv, TypeInv', OwnInv,
           \A w \in Workers : pc'[w] \in Working => pc[w] \in Working /\ job'[w] = job[w],
           \A w \in Workers, r \in Runs : Holds(w, r) /\ Holds(w, r)' =>
              /\ status'[r] \in {status[r], "FAILED"}
              /\ owner'[r] = owner[r]
              /\ r \in leased => r \in leased',
           UNCHANGED resume,
           \A r \in Runs : status[r] \in {"PAUSED", "FAILED"} =>
              status'[r] \in {status[r], "FAILED"} \/ \E w \in Workers : Holds(w, r)
    PROVE  OwnInv'
  <1>1. \A w \in Workers, r \in Runs : Holds(w, r)' => Holds(w, r)
    BY DEF Holds
  <1>2. OneWorkerPerRun'
    BY <1>1 DEF OwnInv, OneWorkerPerRun
  <1>3. ASSUME NEW w \in Workers, NEW r \in Runs, Holds(w, r)'
        PROVE  \/ status'[r] = "FAILED"
               \/ status'[r] = "EXECUTING" /\ r \in leased' /\ owner'[r] = w
    BY <1>1, <1>3 DEF OwnInv
  <1>4. ASSUME NEW c \in Chats, NEW r \in Runs,
               resume[c].run = r, resume[c].status = "PAUSED"
        PROVE  status'[r] \in {"PAUSED", "FAILED"} /\ \A w \in Workers : ~Holds(w, r)'
    BY <1>1, <1>4 DEF OwnInv
  <1>5. QED
    BY <1>2, <1>3, <1>4 DEF OwnInv

\* A /resume that does not overlap with another takes no run from a worker.
LEMMA ResumeOwnInv ==
    ASSUME ~ResumesOverlap, TypeInv, TypeInv', OwnInv, NEW c \in Chats,
           ResumeWrite(c) \/ \E r \in Runs : ResumeRead(c, r)
    PROVE  OwnInv'
  <1>1. UNCHANGED <<pc, job, owner, leased>>
    BY DEF ResumeWrite, ResumeRead
  <1>2. \A w \in Workers, r \in Runs : Holds(w, r)' <=> Holds(w, r)
    BY <1>1 DEF Holds
  <1>3. \A w \in Workers, r \in Runs : Holds(w, r) => status'[r] = status[r]
    <2>1. CASE ResumeWrite(c)
      BY <2>1 DEF ResumeWrite, OwnInv, TypeInv, TypeOK
    <2>2. CASE \E r \in Runs : ResumeRead(c, r)
      BY <2>2 DEF ResumeRead
    <2>3. QED
      BY <2>1, <2>2
  <1>4. NoRun \notin Runs
    BY RunLifecycleAssumption
  <1>5. ASSUME NEW d \in Chats, resume'[d].run # NoRun
        PROVE  /\ ~ResumeWrite(c)
               /\ d = c
    <2>1. CASE ResumeWrite(c)
      BY <1>5, <2>1 DEF ResumeWrite, OwnInv, TypeInv, TypeOK
    <2>2. ASSUME NEW q \in Runs, ResumeRead(c, q)
          PROVE  ~ResumeWrite(c) /\ d = c
      BY <1>5, <2>2 DEF ResumeRead, ResumeWrite, NoResume, TypeInv, TypeOK
    <2>3. QED
      BY <2>1, <2>2
  <1>6. ASSUME NEW d \in Chats, NEW r \in Runs, resume'[d].run = r,
               resume'[d].status = "PAUSED"
        PROVE  status'[r] \in {"PAUSED", "FAILED"} /\ \A w \in Workers : ~Holds(w, r)
    <2>1. d = c /\ \E q \in Runs : ResumeRead(c, q)
      BY <1>4, <1>5, <1>6
    <2>2. ResumeRead(c, r)
      BY <1>6, <2>1 DEF ResumeRead, TypeInv, TypeOK
    <2>3. QED
      BY <1>6, <2>1, <2>2 DEF ResumeRead, OwnInv, TypeInv, TypeOK
  <1>7. OneWorkerPerRun'
    BY <1>2 DEF OwnInv, OneWorkerPerRun
  <1>8. QED
    BY <1>1, <1>2, <1>3, <1>5, <1>6, <1>7 DEF OwnInv

\* Operators' steps take no run from a worker.
LEMMA OperatorOwnInv ==
    ASSUME ~ResumesOverlap, TypeInv, TypeInv', OwnInv, Operator
    PROVE  OwnInv'
  <1> DEFINE Kept ==
        /\ UNCHANGED <<pc, job, owner, leased, resume>>
        /\ \A r \in Runs : status[r] \in {"EXECUTING", "FAILED", "PAUSED"} =>
              status'[r] = status[r]
  <1>1. ASSUME NEW q \in Runs, CreateTask(q) \/ ChatTask(q)
        PROVE  Kept
    BY <1>1 DEF CreateTask, ChatTask, TypeInv, TypeOK
  <1>2. ASSUME NEW q \in Runs, NEW new \in RetryRuns, RetryRun(q, new)
        PROVE  Kept
    BY <1>2 DEF RetryRun, TypeInv, TypeOK
  <1>3. ASSUME NEW a \in Approvals, Approve(a) \/ Reject(a) \/ DecideExpired(a)
        PROVE  Kept
    BY <1>3 DEF Approve, Reject, DecideExpired, TypeInv, TypeOK
  <1>4. ASSUME NEW q \in Runs, NEW c, ControlRun(q, c) \/ ChatControl(q, c)
        PROVE  Kept
    BY <1>4 DEF ControlRun, ChatControl
  <1>5. Kept => OwnInv'
    BY OwnQuiet DEF OwnInv
  <1>6. QED
    BY <1>1, <1>2, <1>3, <1>4, <1>5, ResumeOwnInv DEF Operator

\* A worker works only on what it has claimed, and the lease lasts while it does.
LEMMA WorkerOwnInv ==
    ASSUME TypeInv, TypeInv', OwnInv, NEW w \in Workers, WorkerStep(w)
    PROVE  OwnInv'
  <1> USE DEF TypeInv, TypeOK
  <1>1. CASE Claim(w)
    <2>1. CASE Claimable(job[w])
      <3>1. job[w] \in Runs /\ \A v \in Workers : ~Holds(v, job[w])
        BY <1>1, <2>1 DEF Claim, Claimable, OwnInv, WellFormed
      <3>2. \A v \in Workers, r \in Runs : Holds(v, r)' /\ v # w => Holds(v, r)
        BY <1>1, <2>1 DEF Claim, Goto, Holds
      <3>3. \A r \in Runs : Holds(w, r)' => r = job[w]
        BY <1>1, <2>1 DEF Claim, Goto, Holds
      <3>4. /\ status'[job[w]] = "EXECUTING" /\ owner'[job[w]] = w
            /\ job[w] \in leased'
        BY <1>1, <2>1, <3>1 DEF Claim
      <3>5. \A r \in Runs \ {job[w]} :
               status'[r] = status[r] /\ owner'[r] = owner[r] /\ (r \in leased => r \in leased')
        BY <1>1, <2>1, <3>1 DEF Claim
      <3>6. OneWorkerPerRun'
        <4>1. ASSUME NEW u \in Workers, NEW v \in Workers, NEW r \in Runs,
                     Holds(u, r)', Holds(v, r)'
              PROVE  u = v
          <5>1. CASE r = job[w]
            BY <3>1, <3>2, <4>1, <5>1
          <5>2. CASE r # job[w]
            <6>1. Holds(u, r) /\ Holds(v, r)
              BY <3>2, <3>3, <4>1, <5>2
            <6>2. QED
              BY <6>1 DEF OwnInv, OneWorkerPerRun
          <5>3. QED
            BY <5>1, <5>2
        <4>2. QED
          BY <4>1 DEF OneWorkerPerRun
      <3>7. ASSUME NEW v \in Workers, NEW r \in Runs, Holds(v, r)'
            PROVE  \/ status'[r] = "FAILED"
                   \/ status'[r] = "EXECUTING" /\ r \in leased' /\ owner'[r] = v
        <4>1. CASE v = w
          BY <3>3, <3>4, <3>7, <4>1
        <4>2. CASE v # w
          BY <3>1, <3>2, <3>5, <3>7, <4>2 DEF OwnInv
        <4>3. QED
          BY <4>1, <4>2
      <3>8. resume' = resume
        BY <1>1 DEF Claim
      <3>9. ASSUME NEW c \in Chats, NEW r \in Runs,
                   resume[c].run = r, resume[c].status = "PAUSED"
            PROVE  status'[r] \in {"PAUSED", "FAILED"} /\ \A v \in Workers : ~Holds(v, r)'
        <4>1. status[r] \in {"PAUSED", "FAILED"} /\ \A v \in Workers : ~Holds(v, r)
          BY <3>9 DEF OwnInv
        <4>2. r # job[w]
          BY <2>1, <4>1 DEF Claimable
        <4>3. QED
          BY <3>2, <3>3, <3>5, <4>1, <4>2
      <3>10. QED
        BY <3>6, <3>7, <3>8, <3>9 DEF OwnInv
    <2>2. CASE ~Claimable(job[w])
      BY <1>1, <2>2, OwnQuiet DEF Claim, Done, Working
    <2>3. QED
      BY <2>1, <2>2
  <1>2. CASE Load(w) \/ Ack(w)
    BY <1>2, OwnQuiet DEF Load, Ack, Done, Goto, Park, Working
  <1>3. CASE StartCoordinator(w) \/ Proceed(w) \/ Interrupt(w)
    BY <1>3, OwnQuiet DEF StartCoordinator, Proceed, Interrupt, CoordinatorEnds, Goto,
                          Working
  <1>4. ASSUME NEW final \in {"COMPLETED", "FAILED"}, Finish(w, final)
        PROVE  OwnInv'
    BY <1>4, OwnQuiet DEF Finish, CoordinatorEnds, Goto, Working
  <1>5. ASSUME NEW outcome \in {"ok", "error"}, CallTool(w, outcome)
        PROVE  OwnInv'
    BY <1>5, OwnQuiet DEF CallTool, Goto, Working
  <1>6. ASSUME NEW a \in Approvals, Consume(w, a) \/ Inspect(w, a) \/ RequestApproval(w, a)
        PROVE  OwnInv'
    BY <1>6, OwnQuiet DEF Consume, Inspect, RequestApproval, CoordinatorEnds, Done, Goto,
                          Working
  <1>7. CASE Settle(w) \/ Seal(w) \/ FinalWrite(w)
    <2>1. /\ pc[w] \in Working /\ pc'[w] = "ack"
          /\ \A v \in Workers \ {w} : pc'[v] = pc[v]
          /\ UNCHANGED <<job, owner, leased, resume>>
      BY <1>7 DEF Settle, Seal, FinalWrite, Done, Working
    <2>2. \A r \in Runs \ {job[w]} : status'[r] = status[r]
      BY <1>7 DEF Settle, Seal, FinalWrite
    <2>3. \A v \in Workers : ~Holds(v, job[w])'
      BY <2>1 DEF Holds, OwnInv, OneWorkerPerRun, WellFormed, Working
    <2>4. job[w] \in Runs /\ Holds(w, job[w])
      BY <1>7, <2>1 DEF Holds, WellFormed, Working
    <2>5. QED
      BY <2>1, <2>2, <2>3, <2>4, OwnQuiet DEF Working
  <1>8. QED
    BY <1>1, <1>2, <1>3, <1>4, <1>5, <1>6, <1>7 DEF WorkerStep

\* Every step keeps the ownership of runs.
LEMMA NextOwnInv ==
    ASSUME LapseIn = {}, ~ResumesOverlap
    PROVE  TypeInv /\ TypeInv' /\ OwnInv /\ [Next]_vars => OwnInv'
  <1> SUFFICES ASSUME TypeInv, TypeInv', OwnInv, [Next]_vars
               PROVE  OwnInv'
    OBVIOUS
  <1>1. CASE Publisher
    BY <1>1, OwnQuiet DEF Publisher, PublishOutbox, PublishUncommitted, ChatPublish
  <1>2. CASE Recovery
    <2>1. CASE RecoverScan
      BY <2>1, OwnQuiet DEF RecoverScan
    <2>2. ASSUME NEW S \in SUBSET scan, NEW next \in [S -> SpareRuns], NEW dead,
                 RecoverCommit(next, dead)
          PROVE  OwnInv'
      <3>1. \A r \in Runs : status[r] # "NONE" => status'[r] \in {"FAILED", status[r]}
        BY <2>2 DEF RecoverCommit
      <3>2. QED
        BY <2>2, <3>1, OwnQuiet DEF RecoverCommit, OwnInv
    <2>3. QED
      BY <1>2, <2>1, <2>2 DEF Recovery
  <1>3. CASE Environment
    <2>1. ASSUME NEW r \in Runs, LeaseLapses(r)
          PROVE  OwnInv'
      <3>1. \A w \in Workers : ~Holds(w, r)
        BY <2>1 DEF LeaseLapses, OwnInv
      <3>2. QED
        BY <2>1, <3>1, OwnQuiet DEF LeaseLapses
    <2>2. ASSUME NEW r \in Runs, ChatPublishFails(r)
          PROVE  OwnInv'
      BY <2>2, OwnQuiet DEF ChatPublishFails
    <2>3. ASSUME NEW a \in Approvals, ApprovalAges(a)
          PROVE  OwnInv'
      BY <2>3, OwnQuiet DEF ApprovalAges
    <2>4. ASSUME NEW w \in Workers, Crash(w)
          PROVE  OwnInv'
      BY <2>4, OwnQuiet DEF Crash, Park, Working, TypeInv, TypeOK
    <2>5. QED
      BY <1>3, <2>1, <2>2, <2>3, <2>4 DEF Environment
  <1>4. ASSUME NEW w \in Workers, NEW e \in Entries,
               ReadGroup(w, e) \/ ClaimPending(w, e)
        PROVE  OwnInv'
    BY <1>4, OwnQuiet DEF ReadGroup, ClaimPending, Take, Working, TypeInv, TypeOK
  <1>5. ASSUME NEW w \in Workers, Heartbeat(w)
        PROVE  OwnInv'
    BY <1>5, OwnQuiet DEF Heartbeat
  <1>6. CASE UNCHANGED vars
    BY <1>6, OwnQuiet DEF vars
  <1>7. QED
    BY <1>1, <1>2, <1>3, <1>4, <1>5, <1>6, OperatorOwnInv, WorkerOwnInv DEF Next

\* With punctual leases and no overlapping /resume, ownership holds in every reachable state.
LEMMA Ownership ==
    ASSUME LapseIn = {}, ~ResumesOverlap
    PROVE  Spec => []OwnInv
  <1>1. Init => OwnInv
    BY RunLifecycleAssumption DEF Init, OwnInv, OneWorkerPerRun, Holds, Working, NoResume
  <1>2. TypeInv /\ TypeInv' /\ OwnInv /\ [Next]_vars => OwnInv'
    BY NextOwnInv
  <1>3. QED
    BY <1>1, <1>2, Invariance, PTL DEF Spec

\* If a live worker's lease does not lapse and /resume commands come one at a time, no
\* two workers execute the same run, whatever is published twice, reclaimed from a live worker, retried or recovered.
THEOREM OneWorkerCorrect ==
    ASSUME LapseIn = {}, ~ResumesOverlap
    PROVE  Spec => []OneWorkerPerRun
  <1>1. Spec => []OwnInv
    BY Ownership
  <1>2. OwnInv => OneWorkerPerRun
    BY DEF OwnInv
  <1>3. QED
    BY <1>1, <1>2, PTL

-----------------------------------------------------------------------------
(***************************************************************************)
(* Earned completion.  While a worker runs the coordinator on a run, no    *)
(* approval of that run is consumed; while it has a consumed approval in   *)
(* hand, the approval is of its run, and nobody else changes the record of *)
(* its execution.  Both rest on mutual exclusion.                          *)
(***************************************************************************)

Coordinating == {"pauseCheck", "stopCheck", "act", "write"}

EarnInv ==
    /\ CompletionIsEarned
    /\ \A w \in Workers : pc[w] \in Coordinating => ~Has(job[w], "CONSUMED")
    /\ \A w \in Workers : pc[w] \in InHand => apRun[ap[w]] = job[w]
    /\ \A w \in Workers : pc[w] = "settle" => exec[ap[w]] = result[w]
    /\ \A w \in Workers : pc[w] \in {"call", "seal"} => exec[ap[w]] = "PENDING"

\* A step that completes no run, consumes no approval and records no outcome.
LEMMA EarnQuiet ==
    ASSUME TypeInv, TypeInv', EarnInv,
           UNCHANGED <<apStatus, apRun, exec>>,
           \A r \in Runs : status'[r] = "COMPLETED" => status'[r] = status[r],
           \A w \in Workers : pc'[w] \in Coordinating =>
              \/ pc[w] \in Coordinating /\ job'[w] = job[w]
              \/ ~Has(job'[w], "CONSUMED"),
           \A w \in Workers : pc'[w] \in InHand =>
              /\ pc[w] = pc'[w] \/ (pc[w] = "call" /\ pc'[w] = "seal")
              /\ job'[w] = job[w] /\ ap'[w] = ap[w]
              /\ pc'[w] = "settle" => result'[w] = result[w]
    PROVE  EarnInv'
  <1>1. \A r : Has(r, "CONSUMED")' <=> Has(r, "CONSUMED")
    BY DEF Has
  <1>2. CompletionIsEarned'
    BY DEF EarnInv, CompletionIsEarned, Has
  <1>3. \A w \in Workers : pc'[w] \in Coordinating => ~Has(job[w], "CONSUMED")'
    BY <1>1 DEF EarnInv, Has
  <1>4. QED
    BY <1>2, <1>3 DEF EarnInv, InHand

\* No operator completes a run.
LEMMA OperatorEarnInv ==
    ASSUME TypeInv, TypeInv', LedgerInv, EarnInv, Operator
    PROVE  EarnInv'
  <1>1. ASSUME NEW r \in Runs, CreateTask(r) \/ ChatTask(r)
        PROVE  EarnInv'
    BY <1>1, EarnQuiet DEF CreateTask, ChatTask, TypeInv, TypeOK
  <1>1a. ASSUME NEW c \in Chats,
                ResumeWrite(c) \/ \E r \in Runs : ResumeRead(c, r)
         PROVE  EarnInv'
    BY <1>1a, EarnQuiet DEF ResumeWrite, ResumeRead, TypeInv, TypeOK
  <1>2. ASSUME NEW r \in Runs, NEW c, ControlRun(r, c) \/ ChatControl(r, c)
        PROVE  EarnInv'
    BY <1>2, EarnQuiet DEF ControlRun, ChatControl
  <1>3. ASSUME NEW r \in Runs, NEW new \in RetryRuns, RetryRun(r, new)
        PROVE  EarnInv'
    BY <1>3, EarnQuiet DEF RetryRun, TypeInv, TypeOK
  <1>4. ASSUME NEW a \in Approvals, Approve(a) \/ Reject(a) \/ DecideExpired(a)
        PROVE  EarnInv'
    <2>1. /\ \A b \in Approvals : apStatus'[b] = "CONSUMED" <=> apStatus[b] = "CONSUMED"
          /\ UNCHANGED <<apRun, exec, pc, job, ap, result>>
      BY <1>4 DEF Approve, Reject, DecideExpired, Decidable, TypeInv, TypeOK
    <2>2. \A r : Has(r, "CONSUMED")' <=> Has(r, "CONSUMED")
      BY <2>1 DEF Has
    <2>3. \A r \in Runs : status'[r] = "COMPLETED" => status[r] = "COMPLETED"
      BY <1>4 DEF Approve, Reject, DecideExpired, TypeInv, TypeOK
    <2>4. CompletionIsEarned'
      BY <2>1, <2>2, <2>3 DEF EarnInv, CompletionIsEarned
    <2>5. QED
      BY <2>1, <2>2, <2>4 DEF EarnInv
  <1>5. QED
    BY <1>1, <1>1a, <1>2, <1>3, <1>4 DEF Operator

\* What a worker that has a consumed approval in hand may record of it.
LEMMA SettledEarnInv ==
    ASSUME TypeInv, TypeInv', LedgerInv, OwnInv, EarnInv, NEW w \in Workers,
           pc[w] \in InHand, Done(w), UNCHANGED <<apStatus, apRun>>,
           \A a \in Approvals \ {ap[w]} : exec'[a] = exec[a],
           exec[ap[w]] = "SUCCEEDED" => exec'[ap[w]] = "SUCCEEDED",
           \A r \in Runs \ {job[w]} : status'[r] = status[r],
           status'[job[w]] = "COMPLETED" => exec'[ap[w]] = "SUCCEEDED"
    PROVE  EarnInv'
  <1>1. /\ ap[w] \in Approvals /\ job[w] \in Runs /\ apRun[ap[w]] = job[w]
        /\ pc'[w] = "ack" /\ \A v \in Workers \ {w} : pc'[v] = pc[v]
        /\ \A v \in Workers \ {w} : ap'[v] = ap[v] /\ result'[v] = result[v]
        /\ job' = job
    BY DEF Done, EarnInv, InHand, TypeInv, TypeOK, WellFormed
  <1>2. \A r : Has(r, "CONSUMED")' <=> Has(r, "CONSUMED")
    BY DEF Has
  <1>3. CompletionIsEarned'
    <2>1. ASSUME NEW r \in Runs, status'[r] = "COMPLETED", Has(r, "CONSUMED")
          PROVE  \E a \in Approvals : apRun'[a] = r /\ exec'[a] = "SUCCEEDED"
      <3>1. CASE r = job[w]
        BY <1>1, <2>1, <3>1
      <3>2. CASE r # job[w]
        BY <1>1, <2>1, <3>2 DEF EarnInv, CompletionIsEarned
      <3>3. QED
        BY <3>1, <3>2
    <2>2. QED
      BY <1>2, <2>1 DEF CompletionIsEarned
  <1>4. \A v \in Workers \ {w} : pc[v] \in InHand => ap[v] # ap[w]
    <2>1. SUFFICES ASSUME NEW v \in Workers \ {w}, pc[v] \in InHand, ap[v] = ap[w]
                   PROVE  FALSE
      OBVIOUS
    <2>2. Holds(v, job[w]) /\ Holds(w, job[w])
      BY <1>1, <2>1 DEF EarnInv, Holds, InHand, Working
    <2>3. QED
      BY <1>1, <2>1, <2>2 DEF OwnInv, OneWorkerPerRun
  <1>5. \A v \in Workers : pc'[v] \in InHand =>
           v # w /\ pc'[v] = pc[v] /\ ap'[v] = ap[v] /\ ap[v] \in Approvals
                 /\ exec'[ap[v]] = exec[ap[v]] /\ result'[v] = result[v]
    BY <1>1, <1>4 DEF InHand, TypeInv, WellFormed
  <1>6. \A v \in Workers : pc'[v] \in Coordinating => v # w /\ pc'[v] = pc[v]
    BY <1>1 DEF Coordinating
  <1>7. QED
    BY <1>1, <1>2, <1>3, <1>5, <1>6 DEF EarnInv, InHand

\* A worker that completes a run with a consumed approval has recorded one as done.
LEMMA WorkerEarnInv ==
    ASSUME TypeInv, TypeInv', LedgerInv, OwnInv, EarnInv, NEW w \in Workers, WorkerStep(w)
    PROVE  EarnInv'
  <1> USE DEF TypeInv, TypeOK
  <1>1. CASE Load(w) \/ Claim(w) \/ Ack(w)
    BY <1>1, EarnQuiet DEF Load, Claim, Ack, Done, Goto, Park, InHand, Coordinating
  <1>2. CASE StartCoordinator(w) \/ Proceed(w) \/ Interrupt(w)
    BY <1>2, EarnQuiet DEF StartCoordinator, Proceed, Interrupt, CoordinatorEnds, Goto,
                           InHand, Coordinating
  <1>3. ASSUME NEW final \in {"COMPLETED", "FAILED"}, Finish(w, final)
        PROVE  EarnInv'
    BY <1>3, EarnQuiet DEF Finish, CoordinatorEnds, Goto, InHand, Coordinating
  <1>4. ASSUME NEW outcome \in {"ok", "error"}, CallTool(w, outcome)
        PROVE  EarnInv'
    BY <1>4, EarnQuiet DEF CallTool, Goto, InHand, Coordinating
  <1>5. CASE Settle(w)
    <2>1. ap[w] \in Approvals /\ job[w] \in Runs /\ exec[ap[w]] = result[w]
      BY <1>5 DEF Settle, EarnInv, WellFormed
    <2>2. status[job[w]] # "COMPLETED"
      BY <1>5, <2>1 DEF Settle, OwnInv, Holds, Working
    <2>3. QED
      BY <1>5, <2>1, <2>2, SettledEarnInv DEF Settle, InHand
  <1>6. CASE Seal(w)
    <2>1. ap[w] \in Approvals /\ job[w] \in Runs /\ exec[ap[w]] = "PENDING"
      BY <1>6 DEF Seal, EarnInv, WellFormed
    <2>2. QED
      BY <1>6, <2>1, SettledEarnInv DEF Seal, InHand
  <1>7. CASE FinalWrite(w)
    <2>1. job[w] \in Runs /\ ~Has(job[w], "CONSUMED")
      BY <1>7 DEF FinalWrite, EarnInv, Coordinating, WellFormed
    <2>2. \A r : Has(r, "CONSUMED")' <=> Has(r, "CONSUMED")
      BY <1>7 DEF FinalWrite, Has
    <2>3. CompletionIsEarned'
      BY <1>7, <2>1, <2>2 DEF FinalWrite, EarnInv, CompletionIsEarned
    <2>4. QED
      BY <1>7, <2>2, <2>3 DEF FinalWrite, Done, EarnInv, InHand, Coordinating
  <1>8. ASSUME NEW a \in Approvals, Inspect(w, a)
        PROVE  EarnInv'
    <2>1. \A r : Has(r, "CONSUMED")' <=> Has(r, "CONSUMED")
      BY <1>8 DEF Inspect, Has
    <2>2. CompletionIsEarned'
      BY <1>8, <2>1 DEF Inspect, EarnInv, CompletionIsEarned
    <2>3. QED
      BY <1>8, <2>1, <2>2 DEF Inspect, Newest, Goto, EarnInv, InHand, Coordinating
  <1>9. ASSUME NEW a \in Approvals, RequestApproval(w, a)
        PROVE  EarnInv'
    <2>1. \A b \in Approvals : apStatus[b] = "CONSUMED" =>
             apStatus'[b] = "CONSUMED" /\ apRun'[b] = apRun[b]
      BY <1>9 DEF RequestApproval
    <2>2. \A b \in Approvals : apStatus'[b] = "CONSUMED" => apStatus[b] = "CONSUMED"
      BY <1>9 DEF RequestApproval
    <2>3. \A r : Has(r, "CONSUMED")' <=> Has(r, "CONSUMED")
      BY <2>1, <2>2 DEF Has
    <2>4. \A b \in Approvals : exec[b] = "SUCCEEDED" => apRun'[b] = apRun[b]
      BY <2>1 DEF LedgerInv
    <2>5. CompletionIsEarned'
      BY <1>9, <2>3, <2>4 DEF RequestApproval, EarnInv, CompletionIsEarned
    <2>6. \A v \in Workers : pc[v] \in InHand => apRun'[ap[v]] = apRun[ap[v]]
      BY <2>1 DEF LedgerInv, InHand, WellFormed
    <2>7. QED
      BY <1>9, <2>3, <2>5, <2>6 DEF RequestApproval, CoordinatorEnds, Goto, EarnInv,
                                    InHand, Coordinating
  <1>10. ASSUME NEW a \in Approvals, Consume(w, a)
         PROVE  EarnInv'
    <2>1. CASE a \in aged
      BY <1>10, <2>1, EarnQuiet DEF Consume, Done, InHand, Coordinating
    <2>2. CASE a \notin aged
      <3>1. /\ job[w] \in Runs /\ apRun[a] = job[w] /\ apStatus[a] = "APPROVED"
            /\ Holds(w, job[w])
        BY <1>10 DEF Consume, Newest, WellFormed, Holds, Working
      <3>2. \A r \in Runs \ {job[w]} : Has(r, "CONSUMED")' <=> Has(r, "CONSUMED")
        BY <1>10, <2>2, <3>1 DEF Consume, Has
      <3>3. \A b \in Approvals : exec[b] = "SUCCEEDED" => exec'[b] = exec[b]
        BY <1>10, <2>2, <3>1 DEF Consume, LedgerInv
      <3>4. status[job[w]] # "COMPLETED"
        BY <3>1 DEF OwnInv
      <3>5. CompletionIsEarned'
        BY <1>10, <3>2, <3>3, <3>4 DEF Consume, EarnInv, CompletionIsEarned
      <3>6. \A v \in Workers : pc[v] \in Coordinating => job[v] \in Runs \ {job[w]}
        BY <1>10, <3>1 DEF Consume, OwnInv, OneWorkerPerRun, Holds, Coordinating, Working,
                           WellFormed
      <3>7. \A v \in Workers : pc[v] \in InHand => exec'[ap[v]] = exec[ap[v]]
        BY <1>10, <2>2, <3>1 DEF Consume, LedgerInv, InHand, WellFormed
      <3>8. QED
        BY <1>10, <2>2, <3>1, <3>2, <3>5, <3>6, <3>7
           DEF Consume, Goto, EarnInv, InHand, Coordinating
    <2>3. QED
      BY <2>1, <2>2
  <1>11. QED
    BY <1>1, <1>2, <1>3, <1>4, <1>5, <1>6, <1>7, <1>8, <1>9, <1>10 DEF WorkerStep

\* Every step keeps what a completion rests on.
LEMMA NextEarnInv ==
    TypeInv /\ TypeInv' /\ LedgerInv /\ OwnInv /\ EarnInv /\ [Next]_vars => EarnInv'
  <1> SUFFICES ASSUME TypeInv, TypeInv', LedgerInv, OwnInv, EarnInv, [Next]_vars
               PROVE  EarnInv'
    OBVIOUS
  <1>1. CASE Publisher
    BY <1>1, EarnQuiet DEF Publisher, PublishOutbox, PublishUncommitted, ChatPublish
  <1>2. CASE Recovery
    <2>1. CASE RecoverScan
      BY <2>1, EarnQuiet DEF RecoverScan
    <2>2. ASSUME NEW next, NEW dead, RecoverCommit(next, dead)
          PROVE  EarnInv'
      <3>1. \A r \in Runs : status'[r] \in {"FAILED", "QUEUED", status[r]}
        BY <2>2 DEF RecoverCommit
      <3>2. QED
        BY <2>2, <3>1, EarnQuiet DEF RecoverCommit
    <2>3. QED
      BY <1>2, <2>1, <2>2 DEF Recovery
  <1>3. CASE Environment
    BY <1>3, EarnQuiet DEF Environment, LeaseLapses, ChatPublishFails, ApprovalAges,
                           Crash, Park, TypeInv, TypeOK, InHand, Coordinating
  <1>4. ASSUME NEW w \in Workers, NEW e \in Entries,
               ReadGroup(w, e) \/ ClaimPending(w, e)
        PROVE  EarnInv'
    BY <1>4, EarnQuiet DEF ReadGroup, ClaimPending, Take, TypeInv, TypeOK, InHand,
                           Coordinating
  <1>5. ASSUME NEW w \in Workers, Heartbeat(w)
        PROVE  EarnInv'
    BY <1>5, EarnQuiet DEF Heartbeat
  <1>6. CASE UNCHANGED vars
    BY <1>6, EarnQuiet DEF vars
  <1>7. QED
    BY <1>1, <1>2, <1>3, <1>4, <1>5, <1>6, OperatorEarnInv, WorkerEarnInv DEF Next

\* Under the same conditions a COMPLETED run that spent an approval has
\* an approved action that is recorded as done.
THEOREM CompletionCorrect ==
    ASSUME LapseIn = {}, ~ResumesOverlap
    PROVE  Spec => []CompletionIsEarned
  <1>1. Init => EarnInv
    BY DEF Init, EarnInv, CompletionIsEarned, InHand, Coordinating
  <1>2. Spec => []OwnInv
    BY Ownership
  <1>3. EarnInv => CompletionIsEarned
    BY DEF EarnInv
  <1>4. QED
    BY <1>1, <1>2, <1>3, NextEarnInv, Invariance, PTL DEF Spec
=============================================================================
