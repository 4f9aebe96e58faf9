---------------------------- MODULE RunLifecycle ----------------------------
(***************************************************************************)
(* The life of a run: how the API and Telegram create it, how the          *)
(* scheduler's outbox publisher puts it on the Redis stream, how workers   *)
(* take it off, claim it under a lease, execute it, stop for a human       *)
(* approval, continue after one, and how the scheduler recovers the runs   *)
(* of dead workers.                                                        *)
(*                                                                         *)
(* An action is one database transaction or one Redis command of the code, *)
(* so every interleaving of workers, scheduler, API and Telegram handlers  *)
(* that PostgreSQL (READ COMMITTED) and Redis allow is a behaviour.        *)
(***************************************************************************)
EXTENDS Naturals, FiniteSets

CONSTANTS
    TaskRuns,      \* run ids that task creation over the API may use
    ChatRuns,      \* run ids that Telegram's /ask and /task may use
    RetryRuns,     \* run ids that POST /runs/{id}/retry may use
    SpareRuns,     \* run ids that stuck-run recovery may use
    Workers,       \* worker processes (Redis consumers)
    NoRun, NoWorker,
    MaxApprovals,  \* bound: approval rows
    MaxEntries,    \* bound: stream entries
    MaxOwed,       \* bound: Telegram publishes under way per run
    MaxFailures,   \* bound: crashes, escaped exceptions and failed commits
    MaxRetry,      \* recovery's retry budget (3 in the code)
    Controls,      \* control requests operators make: subset of {"pause", "stop"}
    Chats,         \* bound: the Telegram /resume commands that are given
    ResumesOverlap, \* whether two /resume commands may be under way at once
    EarlyDecision, \* whether operators decide an approval before its run waits
    LapseIn        \* steps in which a live owner's lease may lapse (a stall)

Runs == TaskRuns \cup ChatRuns \cup RetryRuns \cup SpareRuns
Approvals == 1..MaxApprovals   \* created_at order
Entries == 1..MaxEntries       \* stream id order

Terminal == {"COMPLETED", "FAILED", "CANCELLED"}
RunStatus == Terminal \cup
    {"NONE", "QUEUED", "EXECUTING", "WAITING_APPROVAL", "PAUSED"}
ApprovalStatus ==
    {"NONE", "PENDING", "APPROVED", "REJECTED", "EXPIRED", "CONSUMED"}
ExecStatus == {"NONE", "PENDING", "SUCCEEDED", "AMBIGUOUS"}

\* The steps at which a worker believes that it owns its run.
Working == {"continue", "settle", "call", "seal", "pauseCheck", "stopCheck", "act",
            "write"}
Steps == Working \cup {"idle", "load", "claim", "ack"}
Results == RunStatus \cup ExecStatus \cup {"ok", "error"}

\* What a /resume has read; a /resume that was not given yet.
RunRow == [run : Runs \cup {NoRun}, status : RunStatus,
           control : {"none", "pause", "stop"}]
NoResume == [run |-> NoRun, status |-> "NONE", control |-> "none"]

ASSUME RunLifecycleAssumption ==
    /\ NoRun \notin Runs
    /\ NoWorker \notin Workers
    /\ MaxApprovals \in Nat /\ MaxEntries \in Nat
    /\ MaxOwed \in Nat /\ MaxFailures \in Nat /\ MaxRetry \in Nat
    /\ Controls \subseteq {"pause", "stop"}
    /\ ResumesOverlap \in BOOLEAN /\ EarlyDecision \in BOOLEAN
    /\ LapseIn \subseteq Working

VARIABLES
    \* table runs
    status, owner, leased, control, retries,
    \* tables approvals and action_executions
    apStatus, apRun, aged, exec,
    \* external effects: how often each approved action was invoked
    calls,
    \* unprocessed outbox rows and Telegram publishes still to do, per run
    outbox, owed,
    \* the stream: every entry's run, undelivered entries, pending list, DLQ
    entryRun, ready, pel, dlq,
    \* workers: step, run, entry, status as loaded, approval, result in hand
    pc, job, ent, loaded, ap, result,
    \* what open transactions have read: recovery's runs, each /resume's row
    scan, resume,
    \* failures so far
    failures

runVars == <<status, owner, leased, control, retries>>
apVars == <<apStatus, apRun, aged, exec, calls>>
boxVars == <<outbox, owed>>
streamVars == <<entryRun, ready, pel>>
workerVars == <<pc, job, ent, loaded, ap, result>>
openVars == <<scan, resume>>
vars == <<runVars, apVars, boxVars, streamVars, dlq, workerVars, openVars, failures>>

Init ==
    /\ status = [r \in Runs |-> "NONE"]
    /\ owner = [r \in Runs |-> NoWorker]
    /\ leased = {}
    /\ control = [r \in Runs |-> "none"]
    /\ retries = [r \in Runs |-> 0]
    /\ apStatus = [a \in Approvals |-> "NONE"]
    /\ apRun = [a \in Approvals |-> NoRun]
    /\ aged = {}
    /\ exec = [a \in Approvals |-> "NONE"]
    /\ calls = [a \in Approvals |-> 0]
    /\ outbox = [r \in Runs |-> 0]
    /\ owed = [r \in Runs |-> 0]
    /\ entryRun = [e \in Entries |-> NoRun]
    /\ ready = {}
    /\ pel = {}
    /\ dlq = {}
    /\ pc = [w \in Workers |-> "idle"]
    /\ job = [w \in Workers |-> NoRun]
    /\ ent = [w \in Workers |-> 0]
    /\ loaded = [w \in Workers |-> "NONE"]
    /\ ap = [w \in Workers |-> 0]
    /\ result = [w \in Workers |-> "NONE"]
    /\ scan = {}
    /\ resume = [c \in Chats |-> NoResume]
    /\ failures = 0

-----------------------------------------------------------------------------
(***************************************************************************)
(* API and Telegram: task creation, control, retry.                        *)
(***************************************************************************)

\* POST /tasks: the QUEUED run and its outbox row commit together.
CreateTask(r) ==
    /\ r \in TaskRuns /\ status[r] = "NONE"
    /\ status' = [status EXCEPT ![r] = "QUEUED"]
    /\ outbox' = [outbox EXCEPT ![r] = @ + 1]
    /\ UNCHANGED <<owner, leased, control, retries, apVars, owed, streamVars,
                   dlq, workerVars, openVars, failures>>

\* /ask and /task: the run commits; its entry is published afterwards.
ChatTask(r) ==
    /\ r \in ChatRuns /\ status[r] = "NONE"
    /\ owed[r] < MaxOwed
    /\ status' = [status EXCEPT ![r] = "QUEUED"]
    /\ owed' = [owed EXCEPT ![r] = @ + 1]
    /\ UNCHANGED <<owner, leased, control, retries, apVars, outbox, streamVars,
                   dlq, workerVars, openVars, failures>>

\* POST /runs/{id}/control: pause, stop, or resume (which clears the request).
ControlRun(r, c) ==
    /\ status[r] \in {"EXECUTING", "QUEUED"}
    /\ control' = [control EXCEPT ![r] = c]
    /\ UNCHANGED <<status, owner, leased, retries, apVars, boxVars, streamVars,
                   dlq, workerVars, openVars, failures>>

\* /pause and /stop look at no status.
ChatControl(r, c) ==
    /\ status[r] # "NONE"
    /\ control' = [control EXCEPT ![r] = c]
    /\ UNCHANGED <<status, owner, leased, retries, apVars, boxVars, streamVars,
                   dlq, workerVars, openVars, failures>>

\* /resume reads the run...
ResumeRead(c, r) ==
    /\ resume[c] = NoResume
    /\ ResumesOverlap \/ \A d \in Chats : resume[d].run = NoRun
    /\ status[r] # "NONE"
    /\ status[r] = "PAUSED" \/ control[r] = "pause"
    /\ resume' = [resume EXCEPT ![c] =
                     [run |-> r, status |-> status[r], control |-> control[r]]]
    /\ UNCHANGED <<runVars, apVars, boxVars, streamVars, dlq, workerVars, scan,
                   failures>>

\* ... and stores what it makes of the row that it has read: no request, and QUEUED
\* for PAUSED.  It publishes afterwards.
ResumeWrite(c) ==
    LET r == resume[c].run IN
    /\ r # NoRun /\ owed[r] < MaxOwed
    /\ control' = [control EXCEPT ![r] =
                      IF resume[c].control = "none" THEN @ ELSE "none"]
    /\ status' = [status EXCEPT ![r] =
                     IF resume[c].status = "PAUSED" THEN "QUEUED" ELSE @]
    /\ owed' = [owed EXCEPT ![r] = @ + 1]
    /\ resume' = [resume EXCEPT ![c].run = NoRun]
    /\ UNCHANGED <<owner, leased, retries, apVars, outbox, streamVars,
                   dlq, workerVars, scan, failures>>

\* POST /runs/{id}/retry: a new run and its outbox row commit together.
RetryRun(r, new) ==
    /\ status[r] \in Terminal
    /\ new \in RetryRuns /\ status[new] = "NONE"
    /\ status' = [status EXCEPT ![new] = "QUEUED"]
    /\ retries' = [retries EXCEPT ![new] = retries[r] + 1]
    /\ outbox' = [outbox EXCEPT ![new] = @ + 1]
    /\ UNCHANGED <<owner, leased, control, apVars, owed, streamVars,
                   dlq, workerVars, openVars, failures>>

-----------------------------------------------------------------------------
(***************************************************************************)
(* The stream.  XADD gives the next id; XREADGROUP delivers in id order.   *)
(***************************************************************************)

Add(r, e) ==
    /\ entryRun[e] = NoRun
    /\ \A f \in 1..(e - 1) : entryRun[f] # NoRun
    /\ entryRun' = [entryRun EXCEPT ![e] = r]
    /\ ready' = ready \cup {e}

\* Mutant: the row is marked processed whether or not it was unprocessed.
PublishOutboxUnchecked(r, e) ==
    /\ Add(r, e)
    /\ outbox' = [outbox EXCEPT ![r] = @ - 1]
    /\ UNCHANGED <<runVars, apVars, owed, pel, dlq, workerVars, openVars, failures>>

\* publish_outbox adds the entry and marks the row processed.
PublishOutbox(r, e) ==
    /\ outbox[r] > 0
    /\ Add(r, e)
    /\ outbox' = [outbox EXCEPT ![r] = @ - 1]
    /\ UNCHANGED <<runVars, apVars, owed, pel, dlq, workerVars, openVars, failures>>

\* The scheduler dies, or its commit fails, after the XADD: the row stays.
PublishUncommitted(r, e) ==
    /\ failures < MaxFailures
    /\ outbox[r] > 0
    /\ Add(r, e)
    /\ failures' = failures + 1
    /\ UNCHANGED <<runVars, apVars, boxVars, pel, dlq, workerVars, openVars>>

\* A Telegram handler publishes after its commit...
ChatPublish(r, e) ==
    /\ owed[r] > 0
    /\ Add(r, e)
    /\ owed' = [owed EXCEPT ![r] = @ - 1]
    /\ UNCHANGED <<runVars, apVars, outbox, pel, dlq, workerVars, openVars, failures>>

\* ... or dies before, or Redis fails and the exception is swallowed.
ChatPublishFails(r) ==
    /\ failures < MaxFailures
    /\ owed[r] > 0
    /\ owed' = [owed EXCEPT ![r] = @ - 1]
    /\ failures' = failures + 1
    /\ UNCHANGED <<runVars, apVars, outbox, streamVars, dlq, workerVars, openVars>>

Take(w, e) ==
    /\ pc[w] = "idle"
    /\ pc' = [pc EXCEPT ![w] = "load"]
    /\ job' = [job EXCEPT ![w] = entryRun[e]]
    /\ ent' = [ent EXCEPT ![w] = e]

ReadGroup(w, e) ==
    /\ e \in ready
    /\ \A f \in ready : e <= f
    /\ Take(w, e)
    /\ ready' = ready \ {e}
    /\ pel' = pel \cup {e}
    /\ UNCHANGED <<runVars, apVars, boxVars, entryRun, dlq, loaded, ap, result,
                   openVars, failures>>

\* XAUTOCLAIM after a read that found nothing (an XADD between the two commutes
\* with the claim).  An entry's idle time starts at its delivery and no heartbeat
\* renews it, so a live worker's entry, too, may be idle for long enough.
ClaimPending(w, e) ==
    /\ ready = {}
    /\ e \in pel
    /\ Take(w, e)
    /\ UNCHANGED <<runVars, apVars, boxVars, streamVars, dlq, loaded, ap, result,
                   openVars, failures>>

-----------------------------------------------------------------------------
(***************************************************************************)
(* A worker's handling of one entry.                                       *)
(***************************************************************************)

\* The worker has returned from _process_run and is about to acknowledge.
Done(w) ==
    /\ pc' = [pc EXCEPT ![w] = "ack"]
    /\ loaded' = [loaded EXCEPT ![w] = "NONE"]
    /\ ap' = [ap EXCEPT ![w] = 0]
    /\ result' = [result EXCEPT ![w] = "NONE"]
    /\ UNCHANGED <<job, ent>>

Goto(w, step) ==
    /\ pc' = [pc EXCEPT ![w] = step]
    /\ UNCHANGED <<job, ent>>

\* The run row is read into the session; a terminal run is skipped.
Load(w) ==
    /\ pc[w] = "load"
    /\ IF status[job[w]] \in Terminal
       THEN Done(w)
       ELSE /\ Goto(w, "claim")
            /\ loaded' = [loaded EXCEPT ![w] = status[job[w]]]
            /\ UNCHANGED <<ap, result>>
    /\ UNCHANGED <<runVars, apVars, boxVars, streamVars, dlq, openVars, failures>>

\* Mutant: the claim forgets to look at the lease.
ClaimableLeaseIgnored(r) == status[r] \in {"QUEUED", "EXECUTING"}

\* A QUEUED run, or an EXECUTING one whose lease is over.
Claimable(r) ==
    \/ status[r] = "QUEUED"
    \/ status[r] = "EXECUTING" /\ r \notin leased

\* The atomic UPDATE: claim the run under a new lease, or skip the message.
Claim(w) ==
    /\ pc[w] = "claim"
    /\ \/ /\ Claimable(job[w])
          /\ Goto(w, "continue")
          /\ status' = [status EXCEPT ![job[w]] = "EXECUTING"]
          /\ owner' = [owner EXCEPT ![job[w]] = w]
          /\ leased' = leased \cup {job[w]}
          /\ UNCHANGED <<control, retries, loaded, ap, result>>
       \/ /\ ~Claimable(job[w])
          /\ Done(w)
          /\ UNCHANGED runVars
    /\ UNCHANGED <<apVars, boxVars, streamVars, dlq, openVars, failures>>

\* a is the newest approval of run r with approval status s.
Newest(a, r, s) ==
    /\ apRun[a] = r /\ apStatus[a] = s
    /\ \A b \in Approvals : apRun[b] = r /\ apStatus[b] = s => b <= a

Has(r, s) == \E a \in Approvals : apRun[a] = r /\ apStatus[a] = s

\* Mutant: an approval that was never decided is consumed.
ConsumeUndecided(w, a) ==
    /\ pc[w] = "continue"
    /\ apRun[a] = job[w] /\ apStatus[a] \in {"PENDING", "APPROVED"}
    /\ apStatus' = [apStatus EXCEPT ![a] = "CONSUMED"]
    /\ exec' = [exec EXCEPT ![a] = "PENDING"]
    /\ Goto(w, "call")
    /\ ap' = [ap EXCEPT ![w] = a]
    /\ UNCHANGED <<runVars, apRun, aged, calls, loaded, result, boxVars,
                   streamVars, dlq, openVars, failures>>

\* consume_and_record: the newest APPROVED approval becomes CONSUMED together
\* with its PENDING execution row; one that is out of date ends the handling.
Consume(w, a) ==
    /\ pc[w] = "continue"
    /\ Newest(a, job[w], "APPROVED")
    /\ \/ /\ a \notin aged
          /\ apStatus' = [apStatus EXCEPT ![a] = "CONSUMED"]
          /\ exec' = [exec EXCEPT ![a] = "PENDING"]
          /\ Goto(w, "call")
          /\ ap' = [ap EXCEPT ![w] = a]
          /\ UNCHANGED <<loaded, result>>
       \/ /\ a \in aged
          /\ Done(w)
          /\ UNCHANGED <<apStatus, exec>>
    /\ UNCHANGED <<runVars, apRun, aged, calls, boxVars, streamVars, dlq,
                   openVars, failures>>

\* Mutant: an execution that a crash left PENDING is tried again.
InspectRetrying(w, a) ==
    /\ pc[w] = "continue"
    /\ ~Has(job[w], "APPROVED")
    /\ Newest(a, job[w], "CONSUMED")
    /\ Goto(w, IF exec[a] = "PENDING" THEN "call" ELSE "settle")
    /\ ap' = [ap EXCEPT ![w] = a]
    /\ result' = [result EXCEPT ![w] = exec[a]]
    /\ UNCHANGED <<runVars, apVars, boxVars, streamVars, dlq, loaded, openVars,
                   failures>>

\* No approval to consume, but a consumed one: its execution row is read.
Inspect(w, a) ==
    /\ pc[w] = "continue"
    /\ ~Has(job[w], "APPROVED")
    /\ Newest(a, job[w], "CONSUMED")
    /\ Goto(w, "settle")
    /\ ap' = [ap EXCEPT ![w] = a]
    /\ result' = [result EXCEPT ![w] = exec[a]]
    /\ UNCHANGED <<runVars, apVars, boxVars, streamVars, dlq, loaded, openVars,
                   failures>>

\* Mutant: an execution whose end is not known is taken for a success.
SettleOptimistic(w) ==
    /\ pc[w] = "settle"
    /\ exec' = [exec EXCEPT ![ap[w]] = IF @ = "PENDING" THEN "SUCCEEDED" ELSE @]
    /\ status' = [status EXCEPT ![job[w]] =
                     IF @ = "EXECUTING" THEN "COMPLETED" ELSE @]
    /\ Done(w)
    /\ UNCHANGED <<owner, leased, control, retries, apStatus, apRun, aged, calls,
                   boxVars, streamVars, dlq, openVars, failures>>

\* Mutant: the run is completed whatever the execution's status was.
SettleCompletes(w) ==
    /\ pc[w] = "settle"
    /\ exec' = [exec EXCEPT ![ap[w]] =
                   IF result[w] \in {"NONE", "PENDING"} THEN "AMBIGUOUS" ELSE @]
    /\ status' = [status EXCEPT ![job[w]] =
                     IF @ = "EXECUTING" THEN "COMPLETED" ELSE @]
    /\ Done(w)
    /\ UNCHANGED <<owner, leased, control, retries, apStatus, apRun, aged, calls,
                   boxVars, streamVars, dlq, openVars, failures>>

\* The consumed action is never invoked again: an execution whose end is not
\* known becomes AMBIGUOUS, and the run ends as the execution did.
Settle(w) ==
    /\ pc[w] = "settle"
    /\ exec' = [exec EXCEPT ![ap[w]] =
                   IF result[w] \in {"NONE", "PENDING"} THEN "AMBIGUOUS" ELSE @]
    /\ status' = [status EXCEPT ![job[w]] =
                     IF @ # "EXECUTING" THEN @
                     ELSE IF result[w] = "SUCCEEDED" THEN "COMPLETED" ELSE "FAILED"]
    /\ Done(w)
    /\ UNCHANGED <<owner, leased, control, retries, apStatus, apRun, aged, calls,
                   boxVars, streamVars, dlq, openVars, failures>>

\* The approved tool is invoked and returns or raises.
CallTool(w, outcome) ==
    /\ pc[w] = "call"
    /\ calls' = [calls EXCEPT ![ap[w]] = @ + 1]
    /\ Goto(w, "seal")
    /\ result' = [result EXCEPT ![w] = outcome]
    /\ UNCHANGED <<runVars, apStatus, apRun, aged, exec, boxVars, streamVars, dlq,
                   loaded, ap, openVars, failures>>

\* One transaction records the outcome and ends the run, whatever its status
\* has become.  After an exception, an event append or commit that failed
\* included, the execution is AMBIGUOUS.
Seal(w) ==
    /\ pc[w] = "seal"
    /\ \/ /\ result[w] = "ok"
          /\ exec' = [exec EXCEPT ![ap[w]] = "SUCCEEDED"]
          /\ status' = [status EXCEPT ![job[w]] = "COMPLETED"]
          /\ UNCHANGED failures
       \/ /\ result[w] = "error" \/ failures < MaxFailures
          /\ exec' = [exec EXCEPT ![ap[w]] = "AMBIGUOUS"]
          /\ status' = [status EXCEPT ![job[w]] = "FAILED"]
          /\ failures' = IF result[w] = "error" THEN failures ELSE failures + 1
    /\ Done(w)
    /\ UNCHANGED <<owner, leased, control, retries, apStatus, apRun, aged, calls,
                   boxVars, streamVars, dlq, openVars>>

\* Neither: the coordinator plans and executes the task.
StartCoordinator(w) ==
    /\ pc[w] = "continue"
    /\ ~Has(job[w], "APPROVED") /\ ~Has(job[w], "CONSUMED")
    /\ Goto(w, "pauseCheck")
    /\ UNCHANGED <<runVars, apVars, boxVars, streamVars, dlq, loaded, ap, result,
                   openVars, failures>>

\* Mutant: the control request is not read before the first action.
ProceedUnchecked(w) ==
    /\ pc[w] \in {"pauseCheck", "stopCheck"}
    /\ Goto(w, IF pc[w] = "pauseCheck" THEN "stopCheck" ELSE "act")
    /\ UNCHANGED <<runVars, apVars, boxVars, streamVars, dlq, loaded, ap, result,
                   openVars, failures>>

\* Before the first action (a plan has at least one) the control request is read
\* twice, by _pause_check and then by _stop_check; a read that fails counts as no
\* request.
Proceed(w) ==
    /\ \/ pc[w] = "pauseCheck" /\ Goto(w, "stopCheck")
       \/ pc[w] = "stopCheck" /\ Goto(w, "act")
    /\ \/ /\ control[job[w]] # IF pc[w] = "pauseCheck" THEN "pause" ELSE "stop"
          /\ UNCHANGED failures
       \/ failures < MaxFailures /\ failures' = failures + 1
    /\ UNCHANGED <<runVars, apVars, boxVars, streamVars, dlq, loaded, ap, result,
                   openVars>>

CoordinatorEnds(w, final) ==
    /\ Goto(w, "write")
    /\ result' = [result EXCEPT ![w] = final]

\* The plan ran to its end and was verified, or something failed on the way.
Finish(w, final) ==
    /\ pc[w] = "act"
    /\ CoordinatorEnds(w, final)
    /\ UNCHANGED <<runVars, apVars, boxVars, streamVars, dlq, loaded, ap, openVars,
                   failures>>

\* A control request is seen before the first or before a later action.
Interrupt(w) ==
    /\ \/ /\ pc[w] \in {"pauseCheck", "act"} /\ control[job[w]] = "pause"
          /\ CoordinatorEnds(w, "PAUSED")
       \/ /\ pc[w] \in {"stopCheck", "act"} /\ control[job[w]] = "stop"
          /\ CoordinatorEnds(w, "CANCELLED")
    /\ UNCHANGED <<runVars, apVars, boxVars, streamVars, dlq, loaded, ap, openVars,
                   failures>>

\* An action needs approval: the event sink commits the PENDING approval while
\* the run is still EXECUTING.
RequestApproval(w, a) ==
    /\ pc[w] = "act"
    /\ apStatus[a] = "NONE"
    /\ \A b \in 1..(a - 1) : apStatus[b] # "NONE"
    /\ apStatus' = [apStatus EXCEPT ![a] = "PENDING"]
    /\ apRun' = [apRun EXCEPT ![a] = job[w]]
    /\ ap' = [ap EXCEPT ![w] = a]
    /\ CoordinatorEnds(w, "WAITING_APPROVAL")
    /\ UNCHANGED <<runVars, aged, exec, calls, boxVars, streamVars, dlq, loaded,
                   openVars, failures>>

\* The coordinator's status is stored through the row object loaded before the
\* claim; the column is written when it differs from what was loaded then.
FinalWrite(w) ==
    /\ pc[w] = "write"
    /\ status' = [status EXCEPT ![job[w]] =
                     IF result[w] = loaded[w] THEN @ ELSE result[w]]
    /\ Done(w)
    /\ UNCHANGED <<owner, leased, control, retries, apVars, boxVars, streamVars,
                   dlq, openVars, failures>>

Park(w) ==
    /\ pc' = [pc EXCEPT ![w] = "idle"]
    /\ job' = [job EXCEPT ![w] = NoRun]
    /\ ent' = [ent EXCEPT ![w] = 0]
    /\ loaded' = [loaded EXCEPT ![w] = "NONE"]
    /\ ap' = [ap EXCEPT ![w] = 0]
    /\ result' = [result EXCEPT ![w] = "NONE"]

Ack(w) ==
    /\ pc[w] = "ack"
    /\ pel' = pel \ {ent[w]}
    /\ Park(w)
    /\ UNCHANGED <<runVars, apVars, boxVars, entryRun, ready, dlq, openVars, failures>>

\* The process dies and is restarted, or an exception escapes _process_run:
\* the entry stays in the pending list.
Crash(w) ==
    /\ failures < MaxFailures
    /\ pc[w] # "idle"
    /\ Park(w)
    /\ failures' = failures + 1
    /\ UNCHANGED <<runVars, apVars, boxVars, streamVars, dlq, openVars>>

-----------------------------------------------------------------------------
(***************************************************************************)
(* Leases and recovery.                                                    *)
(***************************************************************************)

\* A worker holds run r: it has claimed it and has not yet stored its end.
Holds(w, r) == pc[w] \in Working /\ job[w] = r

\* 30 seconds pass without a renewal.
LeaseLapses(r) ==
    /\ status[r] = "EXECUTING" /\ r \in leased
    /\ \A w \in Workers : Holds(w, r) /\ owner[r] = w => pc[w] \in LapseIn
    /\ leased' = leased \ {r}
    /\ UNCHANGED <<status, owner, control, retries, apVars, boxVars, streamVars,
                   dlq, workerVars, openVars, failures>>

\* The heartbeat task runs beside the coordinator and only there.
Heartbeat(w) ==
    /\ pc[w] \in {"pauseCheck", "stopCheck", "act"}
    /\ owner[job[w]] = w /\ job[w] \notin leased
    /\ leased' = leased \cup {job[w]}
    /\ UNCHANGED <<status, owner, control, retries, apVars, boxVars, streamVars,
                   dlq, workerVars, openVars, failures>>

Stuck(r) == status[r] = "EXECUTING" /\ r \notin leased

\* recover_stuck_runs reads the EXECUTING rows without locking them...
RecoverScan ==
    /\ scan = {}
    /\ scan' = {r \in Runs : Stuck(r)}
    /\ scan' # {}
    /\ UNCHANGED <<runVars, apVars, boxVars, streamVars, dlq, workerVars, resume,
                   failures>>

Exhausted(r) == retries[r] + 1 > MaxRetry

\* Mutant: the successors are queued without their outbox rows.
RecoverWithoutOutbox(next, dead) ==
    /\ scan # {}
    /\ DOMAIN next = {r \in scan : ~Exhausted(r)}
    /\ \A r \in DOMAIN next : next[r] \in SpareRuns /\ status[next[r]] = "NONE"
    /\ \A r, q \in DOMAIN next : next[r] = next[q] => r = q
    /\ LET new == {next[r] : r \in DOMAIN next} IN
       status' = [r \in Runs |-> IF r \in scan THEN "FAILED"
                                 ELSE IF r \in new THEN "QUEUED" ELSE status[r]]
    /\ scan' = {}
    /\ UNCHANGED <<owner, leased, control, retries, apVars, boxVars, streamVars,
                   dlq, workerVars, resume, failures>>

\* ... and commits, for each of them: FAILED, and either a dead letter (whose
\* publication may fail) or a new QUEUED run with its outbox row.  next gives
\* each run that is retried its successor.
RecoverCommit(next, dead) ==
    /\ scan # {}
    /\ DOMAIN next = {r \in scan : ~Exhausted(r)}
    /\ \A r \in DOMAIN next : next[r] \in SpareRuns /\ status[next[r]] = "NONE"
    /\ \A r, q \in DOMAIN next : next[r] = next[q] => r = q
    /\ dead \subseteq {r \in scan : Exhausted(r)}
    /\ LET new == {next[r] : r \in DOMAIN next} IN
       /\ status' = [r \in Runs |-> IF r \in scan THEN "FAILED"
                                    ELSE IF r \in new THEN "QUEUED" ELSE status[r]]
       /\ retries' = [r \in Runs |->
                        IF r \in scan THEN retries[r] + 1
                        ELSE IF r \in new
                        THEN retries[CHOOSE q \in DOMAIN next : next[q] = r] + 1
                        ELSE retries[r]]
       /\ outbox' = [r \in Runs |-> IF r \in new THEN outbox[r] + 1 ELSE outbox[r]]
    /\ dlq' = dlq \cup dead
    /\ scan' = {}
    /\ UNCHANGED <<owner, leased, control, apVars, owed, streamVars, workerVars,
                   resume, failures>>

-----------------------------------------------------------------------------
(***************************************************************************)
(* Approvals.                                                              *)
(***************************************************************************)

\* expires_at passes.
ApprovalAges(a) ==
    /\ apStatus[a] \in {"PENDING", "APPROVED"} /\ a \notin aged
    /\ aged' = aged \cup {a}
    /\ UNCHANGED <<runVars, apStatus, apRun, exec, calls, boxVars, streamVars, dlq,
                   workerVars, openVars, failures>>

\* A decision locks the PENDING row.  Its run's worker may still be about to
\* store WAITING_APPROVAL.
Decidable(a) ==
    /\ apStatus[a] = "PENDING"
    /\ EarlyDecision \/ \A w \in Workers : ap[w] # a

\* A late decision stores EXPIRED and leaves the run alone.
DecideExpired(a) ==
    /\ Decidable(a) /\ a \in aged
    /\ apStatus' = [apStatus EXCEPT ![a] = "EXPIRED"]
    /\ UNCHANGED <<runVars, apRun, aged, exec, calls, boxVars, streamVars, dlq,
                   workerVars, openVars, failures>>

\* Mutant: the run is queued without an outbox row.
ApproveWithoutOutbox(a) ==
    /\ Decidable(a) /\ a \notin aged
    /\ apStatus' = [apStatus EXCEPT ![a] = "APPROVED"]
    /\ status' = [status EXCEPT ![apRun[a]] =
                     IF @ = "WAITING_APPROVAL" THEN "QUEUED" ELSE @]
    /\ UNCHANGED <<owner, leased, control, retries, apRun, aged, exec, calls,
                   boxVars, streamVars, dlq, workerVars, openVars, failures>>

\* PENDING -> APPROVED; a waiting run is queued again, and an outbox row is added
\* for it in any case.
Approve(a) ==
    /\ Decidable(a) /\ a \notin aged
    /\ apStatus' = [apStatus EXCEPT ![a] = "APPROVED"]
    /\ LET r == apRun[a]
           waits == status[r] = "WAITING_APPROVAL" IN
       /\ status' = [status EXCEPT ![r] = IF waits THEN "QUEUED" ELSE @]
       /\ control' = [control EXCEPT ![r] = IF waits THEN "none" ELSE @]
       /\ outbox' = [outbox EXCEPT ![r] = @ + 1]
    /\ UNCHANGED <<owner, leased, retries, apRun, aged, exec, calls, owed,
                   streamVars, dlq, workerVars, openVars, failures>>

\* Mutant: the rejection is stored and the run forgotten.
RejectOnly(a) ==
    /\ Decidable(a) /\ a \notin aged
    /\ apStatus' = [apStatus EXCEPT ![a] = "REJECTED"]
    /\ UNCHANGED <<runVars, apRun, aged, exec, calls, boxVars, streamVars, dlq,
                   workerVars, openVars, failures>>

\* PENDING -> REJECTED; a waiting run fails.
Reject(a) ==
    /\ Decidable(a) /\ a \notin aged
    /\ apStatus' = [apStatus EXCEPT ![a] = "REJECTED"]
    /\ status' = [status EXCEPT ![apRun[a]] =
                     IF @ = "WAITING_APPROVAL" THEN "FAILED" ELSE @]
    /\ UNCHANGED <<owner, leased, control, retries, apRun, aged, exec, calls,
                   boxVars, streamVars, dlq, workerVars, openVars, failures>>

-----------------------------------------------------------------------------

Operator ==
    \/ \E r \in Runs :
          \/ CreateTask(r) \/ ChatTask(r)
          \/ \E c \in Controls : ControlRun(r, c) \/ ChatControl(r, c)
          \/ Controls # {} /\ ControlRun(r, "none")
          \/ \E new \in RetryRuns : RetryRun(r, new)
          \/ \E c \in Chats : ResumeRead(c, r)
    \/ \E c \in Chats : ResumeWrite(c)
    \/ \E a \in Approvals : Approve(a) \/ Reject(a) \/ DecideExpired(a)

Publisher ==
    \E r \in Runs, e \in Entries :
        PublishOutbox(r, e) \/ PublishUncommitted(r, e) \/ ChatPublish(r, e)

Recovery ==
    \/ RecoverScan
    \/ \E dead \in SUBSET scan, S \in SUBSET scan : \E next \in [S -> SpareRuns] :
          RecoverCommit(next, dead)

\* One step of worker w on the entry that it has taken.
WorkerStep(w) ==
    \/ Load(w) \/ Claim(w) \/ Settle(w) \/ Seal(w) \/ StartCoordinator(w)
    \/ Proceed(w) \/ Interrupt(w) \/ FinalWrite(w) \/ Ack(w)
    \/ \E outcome \in {"ok", "error"} : CallTool(w, outcome)
    \/ \E final \in {"COMPLETED", "FAILED"} : Finish(w, final)
    \/ \E a \in Approvals : Consume(w, a) \/ Inspect(w, a) \/ RequestApproval(w, a)

Environment ==
    \/ \E r \in Runs : LeaseLapses(r) \/ ChatPublishFails(r)
    \/ \E a \in Approvals : ApprovalAges(a)
    \/ \E w \in Workers : Crash(w)

Next ==
    \/ Operator \/ Publisher \/ Recovery \/ Environment
    \/ \E w \in Workers :
          \/ WorkerStep(w) \/ Heartbeat(w)
          \/ \E e \in Entries : ReadGroup(w, e) \/ ClaimPending(w, e)

Spec == Init /\ [][Next]_vars

-----------------------------------------------------------------------------
(***************************************************************************)
(* The approval columns and the invocations of approved tools, seen as a   *)
(* ledger.                                                                 *)
(***************************************************************************)

LedgerState ==
    [NONE |-> "absent", PENDING |-> "open", APPROVED |-> "granted",
     REJECTED |-> "refused", EXPIRED |-> "refused", CONSUMED |-> "spent"]

LedgerOutcome ==
    [NONE |-> "none", PENDING |-> "started", SUCCEEDED |-> "done",
     AMBIGUOUS |-> "unclear"]

Ledger == INSTANCE ApprovalLedger WITH
    state <- [a \in Approvals |-> LedgerState[apStatus[a]]],
    effects <- calls,
    outcome <- [a \in Approvals |-> LedgerOutcome[exec[a]]]

\* Workers, queues, leases and recovery together keep the ledger's promises: each
\* of their steps is a step of the ledger or does not show in it.
LedgerSpec == Ledger!Spec

-----------------------------------------------------------------------------
(***************************************************************************)
(* Fairness: a live worker's event loop keeps taking steps; the scheduler  *)
(* loop calls publish_outbox and recover_stuck_runs every few seconds; a   *)
(* Telegram handler goes on after its commit; time passes.  Operators,     *)
(* crashes, stalls and the ageing of approvals are not fair.               *)
(***************************************************************************)

SchedulerFairness ==
    /\ \A r \in Runs : WF_vars(\E e \in Entries : PublishOutbox(r, e))
    /\ \A r \in Runs : WF_vars(\E e \in Entries : ChatPublish(r, e))
    /\ WF_vars(Recovery)
    /\ \A r \in Runs : WF_vars(LeaseLapses(r))

WorkerFairness(w) ==
    /\ WF_vars(WorkerStep(w))
    /\ WF_vars(\E e \in Entries : ReadGroup(w, e) \/ ClaimPending(w, e))

FairSpec ==
    Spec /\ SchedulerFairness /\ \A w \in Workers : WorkerFairness(w)

-----------------------------------------------------------------------------
(***************************************************************************)
(* Properties.                                                             *)
(***************************************************************************)

\* Every column, queue and worker variable has a value of its type.
TypeOK ==
    /\ status \in [Runs -> RunStatus]
    /\ owner \in [Runs -> Workers \cup {NoWorker}]
    /\ leased \subseteq Runs
    /\ control \in [Runs -> {"none", "pause", "stop"}]
    /\ retries \in [Runs -> Nat]
    /\ apStatus \in [Approvals -> ApprovalStatus]
    /\ apRun \in [Approvals -> Runs \cup {NoRun}]
    /\ aged \subseteq Approvals
    /\ exec \in [Approvals -> ExecStatus]
    /\ calls \in [Approvals -> Nat]
    /\ outbox \in [Runs -> Nat]
    /\ owed \in [Runs -> Nat]
    /\ entryRun \in [Entries -> Runs \cup {NoRun}]
    /\ ready \subseteq Entries
    /\ pel \subseteq Entries
    /\ dlq \subseteq Runs
    /\ pc \in [Workers -> Steps]
    /\ job \in [Workers -> Runs \cup {NoRun}]
    /\ ent \in [Workers -> Entries \cup {0}]
    /\ loaded \in [Workers -> RunStatus]
    /\ ap \in [Workers -> Approvals \cup {0}]
    /\ result \in [Workers -> Results]
    /\ scan \subseteq Runs
    /\ resume \in [Chats -> RunRow]
    /\ failures \in Nat

\* An approval buys one invocation of its tool: however often the entry is
\* delivered, the lease lapses or workers crash around the consume, the tool is
\* invoked at most once, and only after the approval was consumed.
SingleUse ==
    \A a \in Approvals :
        /\ calls[a] <= 1
        /\ calls[a] = 1 => apStatus[a] = "CONSUMED"

\* The ledger does not lie: an execution recorded as SUCCEEDED was invoked; in
\* particular the fail-closed branch for a crash after the consume never turns
\* an invocation that did not happen into a success.
TruthfulOutcome ==
    \A a \in Approvals : exec[a] = "SUCCEEDED" => calls[a] = 1

\* A run whose last word was QUEUED can be found: an outbox row or a stream entry
\* that is not acknowledged stands for it, although entries are acknowledged by
\* workers whose claim failed, by two workers at once, and in any order.
QueuedHasMessage ==
    \A r \in Runs : status[r] = "QUEUED" =>
        \/ outbox[r] + owed[r] > 0
        \/ \E e \in ready \cup pel : entryRun[e] = r

\* Run r waits for approval and has none that a decision could still move it with: a
\* decision only finds PENDING ones, and an EXPIRED one was never decided.
Stranded(r) ==
    /\ status[r] = "WAITING_APPROVAL"
    /\ ~\E a \in Approvals : apRun[a] = r /\ apStatus[a] \in {"PENDING", "EXPIRED"}

\* A run that waits for approval has an approval that was not decided, so that a
\* decision can still move it: decide_with_continuation moves the run in the
\* transaction that decides.
WaitingIsUndecided == \A r \in Runs : ~Stranded(r)

\* A worker is about to store its result for run r, and the approval that it requested
\* for the run has been decided already.
DecidedEarly(r) ==
    \E w \in Workers : \E a \in Approvals :
        /\ pc[w] = "write" /\ job[w] = r /\ ap[w] = a
        /\ apRun[a] = r /\ apStatus[a] \notin {"PENDING", "EXPIRED"}

\* Only a decision that came too early strands a run: whatever stalls, is delivered twice
\* or recovered, and whenever operators decide, a run comes to wait for nothing through no
\* step but the final write of a worker whose approval was decided between the event
\* sink's commit and that write.
StrandedByEarlyDecision ==
    [][\A r \in Runs : ~Stranded(r) /\ Stranded(r)' => DecidedEarly(r)]_vars

\* As long as no live worker's lease lapses, one worker at a time executes a run,
\* whatever is delivered twice, reclaimed from a live worker or recovered.
OneWorkerPerRun ==
    \A v, w \in Workers : \A r \in Runs : Holds(v, r) /\ Holds(w, r) => v = w

\* Under the same condition completion is earned: a COMPLETED run that spent an
\* approval has an approved action recorded as done, so that no late, repeated or
\* recovered handling completes it over failed and AMBIGUOUS executions alone.
CompletionIsEarned ==
    \A r \in Runs : status[r] = "COMPLETED" /\ Has(r, "CONSUMED") =>
        \E a \in Approvals : apRun[a] = r /\ exec[a] = "SUCCEEDED"

\* A finished run stays as it finished: no writer overwrites a terminal status.
TerminalIsFinal ==
    [][\A r \in Runs : status[r] \in Terminal => status'[r] = status[r]]_vars

\* Every run that is queued or executing comes to rest, in spite of crashes,
\* duplicates and lost acknowledgements: it ends, waits or is paused.
RunsSettle ==
    \A r \in Runs : status[r] \in {"QUEUED", "EXECUTING"}
                       ~> status[r] \notin {"QUEUED", "EXECUTING"}

\* An approved run is continued: the approval is consumed, unless it goes out of
\* date or the run fails first.
ApprovedIsContinued ==
    \A a \in Approvals : apStatus[a] = "APPROVED"
        ~> \/ apStatus[a] = "CONSUMED" \/ a \in aged
           \/ \E r \in Runs : apRun[a] = r /\ status[r] \in Terminal

\* A stop request that reaches a run before it is claimed is honoured: the run does
\* not complete while the request stands.
StopIsHonoured ==
    \A r \in Runs : status[r] = "QUEUED" /\ control[r] = "stop"
        ~> control[r] # "stop" \/ status[r] \in {"CANCELLED", "FAILED", "PAUSED"}
=============================================================================
