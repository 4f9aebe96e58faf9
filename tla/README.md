# LUMI Agentic Observatory: a TLA+ verification project

The repository is an agent runtime: tasks become *runs*, runs are executed by
worker processes, tools with side effects need a human approval, and everything
that happens is an event in an append-only log that browsers watch live. The
processes (API, scheduler, workers, Telegram handlers) share PostgreSQL and a
Redis stream and no memory. What is hard to test is what they do to each other:
duplicated and reclaimed messages, leases that lapse, crashes between two
commits, decisions that arrive early, rows read in one transaction and written
in another. Beside them run a poller that scores the messages of chat rooms, a
webhook with an inbox, a memory that runs are told from, and a watch over sources.
This project models those interactions, checks them with TLC on small instances and
proves every safety property that holds with TLAPS for every instance.

## The system

| part | state | operations | interacts through |
|---|---|---|---|
| API (`apps/api/app.py`) | none of its own | `create_task`, `control_run`, `retry_run`, `decide_approval`, `events_stream`, Telegram webhook, memory and source endpoints | tables `runs`, `outbox`, `approvals`, `run_events` |
| Telegram bot (`agent_core/telegram.py`) | none of its own | `/ask`, `/task`, `/pause`, `/resume`, `/stop`, approval buttons | the same tables; publishes to Redis itself |
| Scheduler (`apps/scheduler/scheduler.py`) | none of its own | `publish_outbox`, `recover_stuck_runs`, `check_sources`, `auto_promote_memory` | `outbox` to stream, `runs`, DLQ |
| Queue (`observability/queue.py`) | stream, pending list, DLQ | `publish_to_stream`, `read_group`, `claim_pending`, `ack` | Redis |
| Worker (`apps/worker/worker.py`) | the run in hand | load, claim, continue an approval, coordinate, final write, acknowledge, heartbeat | stream, `runs`, `approvals`, `action_executions` |
| Approvals (`policy/approval.py`) | `approvals`, `action_executions` | `decide`, `decide_with_continuation`, `consume_and_record` | called by API, bot and worker |
| Event log (`observability/events.py`) | `run_events` | `append_run_event_in_session`, `append_run_event_safe` | workers and scheduler write, `events_stream` reads |
| Coordinator, planner, executor, verifier, policy engine (`agent_core/`, `policy/engine.py`) | one run's plan, budgets, evidence, breaker | `run` | called by the worker; reports through the event sink |
| Memory service (`memory/service.py`) | `memory_items` | create, approve, reject, activate, supersede, expire, promote, search | API, scheduler, worker |
| Context assembler (`context_engine/assembler.py`) | the segments of one context | `add`, `assemble` | worker adds, coordinator assembles |
| Telegram inbox (`apps/api/app.py`, `agent_core/telegram.py`) | `telegram_updates`, the bot singleton | `telegram_webhook`, `handle_raw_update`, `initialize` | Telegram, the bot's handlers |
| Agent scorer (`apps/scheduler/agent_scorer.py`, `connectors/agent_evaluator.py`, `agent_alert.py`) | `technocore_cursors`, `agent_evaluations`, announced rooms in memory | `poll_once`, `evaluate_agent_message`, `send_risk_alert` | scheduler process, Technocore, Telegram |
| Technocore connector (`connectors/technocore.py`) | cursors, nonces | `read_room`, `set_cursor`, `signed_post`, `next_nonce_db` | scorer, tools |
| Rate limiter, other connectors, auth, console, migrations, scripts | see `PROJECT.json` | | |

Hard behaviours, by component, with the properties that answer them:

* **Approvals.** A public write happens at most once per approval and is never
  reported as done unless it was, although workers die or stall between consume,
  invocation and record (`SingleUse`, `TruthfulOutcome`, `LedgerSpec`). A waiting
  run can still be decided (`WaitingIsUndecided`, which an early decision violates;
  nothing else does, `StrandedByEarlyDecision`); a granted one is acted upon
  (`ApprovedIsContinued`); a completion over approvals is earned
  (`CompletionIsEarned`).
* **Queue, claim and lease.** No run is lost (`QueuedHasMessage`, `RunsSettle`) and
  none has two workers (`OneWorkerPerRun`), although every message may arrive twice.
* **Control.** A stop that is requested in time stops (`StopIsHonoured`); a finished
  run stays finished (`TerminalIsFinal`).
* **Event log.** Numbers are dense and in commit order (`SeqIsDense`), and a live view
  shows every event once (`NothingSkipped`, `ShownOnce`, `EventsArrive`).
* **Coordinator and planner.** A stop bounds what is still done (`StopBoundsWork`),
  budgets hold for failed invocations too (`BudgetHolds`), a completed run has a
  record of every call although the database may lose one (`CompletedIsRecorded`), a
  model's answer never becomes an unsound plan (`PlanIsSound`, proved), the loop ends
  (`CoordinatorEnds`).
* **Outbox and source watch.** However many schedulers tick, a source has one task an
  hour (`OneTaskPerHour`), the run of every task is in the outbox or on the stream
  (`NoRunIsLost`), rows are published in the end and sources looked at, although one
  failing statement undoes a tick (`RowsArePublished`, `SourcesAreWatched`).
* **Agent scorer.** The stored cursor passes no message that a response brought and that
  was not stored with it (`CursorCoversEvaluations`), what is stored stays
  (`StoredIsKept`), alerts are earned by evaluations (`AlertsAreEarned`), messages are
  scored and announced rooms watched in the end (`MessagesAreScored`,
  `AnnouncedIsWatched`), each but for the losses that the property names.
* **Memory and context.** Overlapping sessions bring nothing into a context that
  nobody endorsed (`OnlyEndorsed`), a rejection sticks (`RejectionSticks`), and the
  assembler keeps its budgets, wastes no room and keeps its priorities (`ContextFits`,
  `ContextIsFull`, `ContextIsRanked`).
* **Telegram inbox.** PROCESSED means handled (`ProcessedWasHandled`), an undisturbed
  update has its effect once (`QuietIsOnce`), and an acknowledged one had it, but for
  the cases the property names (`AnsweredIsApplied`, `UpdatesAreHandled`).

## Modules

| module | models |
|---|---|
| `RunLifecycle` | runs, approvals, outbox, stream, workers, scheduler recovery, operators |
| `ApprovalLedger` | the abstract specification of approvals that `RunLifecycle` implements |
| `MCRunLifecycle` | constants and symmetry for TLC |
| `RunEvents` | the event log and the live stream |
| `RunCoordinator` | one run inside a worker: planner, loop, policy, breaker, verifier |
| `CoordinatorSteps` | the abstract coordinator that `RunLifecycle` assumes and `RunCoordinator` implements |
| `MCRunCoordinator` | tools and overrides for TLC |
| `SourceWatch`, `MCSourceWatch` | the scheduler's tick: outbox page, recovery's rows, source checks |
| `AgentScorer`, `MCAgentScorer` | the poller of Technocore rooms, its session and cursors |
| `MemoryLifecycle` | memory items under overlapping sessions |
| `ContextAssembler` | the assembler as operators, and what a selection should be |
| `MemoryContext`, `MCMemoryContext` | composes the two: what a run is told |
| `TelegramInbox` | the webhook and its inbox |
| `RunLifecycleProofs`, `RunOwnershipProofs`, `RunEventsProofs`, `RunCoordinatorProofs`, `MemoryContextProofs`, `TelegramInboxProofs`, `SourceWatchProofs`, `AgentScorerProofs` | theorems |

### RunLifecycle

An action is one database transaction or one Redis command, so that every
interleaving PostgreSQL (READ COMMITTED) and Redis allow is a behaviour.

*State.* `status`, `owner`, `leased`, `control`, `retries` are columns of `runs`
(`worker_id`, `lease_until > now`, `control_request`, `retry_count`). `apStatus`,
`apRun`, `aged`, `exec` are `approvals` and `action_executions` (`aged`: past
`expires_at`). `calls` counts the invocations of an approved tool, the effect that
no transaction covers. `outbox` and `owed` count unprocessed outbox rows and
Telegram publishes still to do. `entryRun`, `ready`, `pel`, `dlq` are the stream,
its undelivered entries, its pending list and the dead letters. `pc`, `job`, `ent`,
`loaded`, `ap`, `result` are the local variables of a worker. `scan` and `resume`
are what recovery and a `/resume` have read and not yet written back.

*Operators.* `CreateTask`, `ChatTask`, `ControlRun`, `ChatControl`, `RetryRun`,
`Approve`, `Reject`, `DecideExpired` are one transaction each. `/resume` reads and
writes in two (`ResumeRead`, `ResumeWrite`), because its handler reads the run
without a lock and stores what it made of it.

*Publisher.* `PublishOutbox` is an XADD and the commit that marks the row;
`PublishUncommitted` the XADD whose commit fails; `ChatPublish` and
`ChatPublishFails` what Telegram handlers do after their commit.

*Workers.* `ReadGroup` or `ClaimPending` (XAUTOCLAIM, which may take an entry from a
worker that is alive), `Load`, `Claim` (the conditional UPDATE), then the
continuation of an approved run (`Consume` or `Inspect`, `Settle`, `CallTool`,
`Seal`) or the coordinator (`StartCoordinator`, `Proceed`, `Interrupt`,
`RequestApproval`, `Finish`), `FinalWrite` and `Ack`. The two control checks of the
coordinator are two reads. `Heartbeat` runs beside the coordinator and not beside
the continuation, as in the code. `Crash` stops a worker anywhere.

*Recovery.* `RecoverScan` reads the stuck runs, `RecoverCommit` fails them and
creates their successors, or dead letters, without looking at them again.

*Environment.* `LeaseLapses` lets the lease of a dead owner end, and that of a live
one in the steps `LapseIn`, a constant, names: with `{}` workers are punctual, with
all steps a worker may stall anywhere for any time.

*Abstractions.* Timestamps are the predicates above. Between two control checks the
coordinator is one step that goes on, asks for an approval or ends with either
result. The action hash is taken to match. A run has its task, so `Load` leaves out the
FAILED of a run whose task is missing (`worker.py:112`); the legacy list `lumi:queue`
(`worker.py:457`), to which nothing in the repository pushes, is left out. Retry back-off, the page of 20 rows and the
attempts limit are in `SourceWatch`; stream trimming is left out.

### RunEvents

`Append` takes the advisory lock (kept until the transaction ends), locks the run,
reads the largest `seq` and inserts, which draws a `global_seq`; `Commit` makes the
rows visible, `Rollback` drops them and does not give the numbers back. `Connect`
starts the server's cursor at the client's stored Last-Event-ID; `Fetch` is one turn
of the generator that found rows, which then are in flight; `Receive` is one frame,
in order; `Drop` loses the connection and what is in flight. Payloads and keepalives
are left out. The row lock is kept in `Insert` beside the advisory lock, so that the
mutant without the advisory lock still has what the code would have.

### RunCoordinator

`make_plan` is an operator on the answer of a model, a sequence of actions of which
the tool matters and, for a repository read, whether it names a repository; an
answer that is no valid plan, or no answer, gives the template. `decide` and `verify`
are the policy table and the verifier. `Plan` makes and stores the plan; each turn of
the loop is `PauseCheck`, `StopCheck`, then `Exhaust` or `Decide`, then `Ask` or the
tool's `Return` or `Fail`, then `Record` or `RecordFails`; `Finish` is the code after
the loop. Operators' `Request` and `TimePasses` interleave with all of them. A
database operation that fails (`Lost`, at most `MaxFailures` times) is handled as the
code does at that place: a control read counts as no request, a lost PLAN or
AWAITING_APPROVAL raises, a lost TOOL_CALL is taken for an error of the tool. Failures
of the other events change nothing and are left out. The breaker's list of times is
a count, of which `ToolError` forgets any part that may be older than the cooldown.
Token and cost budgets are one bit, set when the answer is used. Left out:
`request_stop`, `request_pause` and `resume`, which no production code calls, and the
fallback for plans with a `tools` list, which the planner never returns.

`CoordinatorSteps` restates, for one run, the coordinator's part of `RunLifecycle`
(`Proceed`, `Interrupt`, `RequestApproval`, `Finish`, and an exception, which there
is a worker that does not acknowledge). `RunCoordinator` implements it: the first two
control reads map to themselves, everything up to the end is `act`. This is what
justifies the one-step coordinator of `RunLifecycle`.

### SourceWatch

One tick of a scheduler is `Publish` (read the page, XADD every row that is due; an
outage of Redis takes any of them), `Settle` (commit what became of the page), `Recover`
(recovery's commit, as far as the outbox sees it: new rows with a `not_before`; and
the query of the sources), a `Visit` per source, an `Insert` for each one that gets a
task, and `Commit`, which makes tasks, outbox rows and `last_accessed_at` visible at
once. An insert waits for a transaction that holds its key (`Holders`), dies of a
committed one, and two that wait for each other are taken apart by the database
(`DeadlockVictim`, external). `DatabaseFails` ends a tick anywhere. The outbox is a
set of rows, each its run, `created_at`, attempts and `not_before`; a page is the oldest
of them (`Pages`), where rows of one tick of the clock come in any order. A row written by two overlapping ticks
takes what the later one read, as the code's ORM writes it. Compose starts one
scheduler; two are what the unique key is for. Nothing in the repository writes
`is_enabled` or `backoff_until`, so they are constants.

### AgentScorer

`cursor` and `evals` are the committed tables, `txCursor` and `txEvals` what the
session sees; `broken` says that a statement failed and PostgreSQL refuses the
session's statements until it is rolled back. A turn is `Wake`, `GetCursor` and
`ReadRoom` for the room of announcements, `Discover`, then for each room `GetCursor`,
`ReadRoom`, one `SkipMessage`, `ScoreMessage` or `StatementFails` per message, and
`Save`. A read may also fail (`ReadFails`), be refused for its size (`ReadTooLarge`) or
bring a part of what is new with a `last_seq` that does not move (`ReadPartly`).

The server is external. A response holds any of the messages after `since`, in ascending
order, and any `last_seq` up to the newest one, as the connector's test has it
(`test_technocore_contract.py:279`); `read_room` moves the session's cursor to it over any
gap, and swallows a failure to do so. What is assumed is that a response moves the cursor
or returns everything: one that does neither is `ReadPartly` and counts as a failure. The limit of
1 MiB is `MaxResponse` messages of equal size; a response above it is no failure of the moment, as
the next turn asks the same question again.

`Discover` takes the announcements up to one whose room is no string (`garbled`), which
raises: the rest is not looked at and nothing is committed there, but the cursor that
`read_room` moved stays in the session and goes with the next room's commit.
`ScoreMessage` sends the alert of a risky evaluation before the commit; `alerts` counts
those that reached somebody, since a refusal, an exception or an empty list of recipients
is swallowed.

Two history variables say what is lost. `dropped`: messages that a failing statement cost.
`missed`: messages that a response passed over and announcements behind one that raised. A
message is of a kind: calm, hostile, without a number, or one whose evaluation raises;
the model's answer is any of `Answers`, so that tiers outside the four are normalised.
`Restart` forgets the announced rooms. Rooms are taken in any order.

### MemoryLifecycle, ContextAssembler, MemoryContext

Every memory operation but creation and retrieval is two steps of a session, because
the code reads with `session.get` or a query and writes at the flush: `Load` evaluates
the guard, `Write` stores what the operation makes of the items. Confidence and time to
live are constants of an item (`Confident`, `Mortal`), as they are set once. `endorsed`
and `buried` are history variables. `buried` holds items whose rejection was written
while no other session had loaded them: if one has, the later writer wins, and an item
an administrator rejected may be promoted or activated after all.

`Assemble` goes through the segments in their order (`Before`, `Foremost`) and takes what
fits in one pass (`Take`, `Pass`). `Retrievals` are the results of a search: distinct
retrievable items by falling confidence, at most `TopK`; which of them match the prompt
is left open.
`WithinBudget`, `NothingOmitted` and `PriorityHolds` say what the selection should be
without the pass. Lengths replace contents; content that already carries the marker of
untrusted text, which is then not wrapped, is left out. `BuildContext` adds goal,
retrieved memory and other segments. The worker adds only goal and memory; the other
types are the assembler's interface. The prompt that `assemble` returns is not used by
the coordinator (`coordinator.py:137`), which reports the segments only, and tool outputs
added later are never assembled.

### TelegramInbox

A delivery is `Deliver`, `Lookup`, `Insert`, `Handle` and `MarkProcessed` or
`MarkFailed`; every one of its statements may fail, the answer may not be heard, several
deliveries of an update may be in hand, and `Crash` ends all of them. `bot` is the
state of the singleton: not built, built by the first update after a start that failed,
or started. `Handle` applies the update, or swallows an exception (the handler's, or
that of a bot which was not started), or fails in `build()`, the only way to a 500.
`applied` counts the handler's commits. `disturbed`, `dropped`, `mistaken` and `broken`
are history variables that the properties use to say exactly which updates may be
repeated or lost. Updates without an id, which are not deduplicated, and
`attempt_count`, which is never read, are left out.

## Runs

All counters have named bounds in the guards. `CHECK_DEADLOCK FALSE` everywhere: the
system stops when the bounds are used up and every run is at rest.

| run | instance | shows |
|---|---|---|
| `stalls` | 2 workers, 1 task and its recovered successor, 1 approval, 3 entries, leases lapse at any step, decisions at any time | the approval is spent and used once, outcomes are truthful, only an early decision strands a waiting run, queued runs have a message; every step is a ledger step |
| `punctual` | 2 workers, a task from the API or Telegram, a retry, 2 approvals, 1 failure, punctual leases | one worker per run; completion is earned |
| `live` | 2 workers, 1 task and its successor, 1 approval, 4 entries, 1 failure, fairness | runs settle; granted approvals are continued |
| `operators` | Telegram task, pause, stop, one `/resume`, 2 workers, fairness | stop is honoured when no approval is involved |
| `events` | 2 writers, 2 runs, 4 numbers, pages of 2, 1 client, 2 lost connections, fairness | dense numbers; nothing skipped, shown twice or lost |
| `coordinator` | answers of up to 4 of 5 tools (reads, a write, a denied and an unknown one), plans of 3, budgets of 2, breaker at 2, 2 lost database operations, fairness | budgets, stop, records; ends; implements `CoordinatorSteps` |
| `scorer` | a configured and an announced room, 3 posts, responses of any of the messages and at most 2, 1 failing statement or read or restart, fairness | cursors cover evaluations; stored rows stay; alerts are earned; messages scored, rooms watched |
| `memory` | 2 items (one promotable and mortal), 2 sessions, contexts of a goal, memory and up to 2 of 4 other segments in a budget of 12 tokens | endorsement and rejection; budgets, fullness and priority of the context |
| `inbox` | 1 update, 3 deliveries at a time, 3 failing statements, 2 deaths, fairness | inbox states, repetition and loss are exactly the named ones; updates are handled |
| `sources` | 2 schedulers, 2 sources (one in backoff), 1 retry, page of 2, attempts limit 0, 2 hours, 1 outage of Redis or failing statement, fairness | one task an hour; no run lost; outbox and sources served |
| `early_decision` | 1 worker, decisions at any time | *violated*: the run waits for a decided approval |
| `late_write` | 1 worker, leases lapse in the continuation | *violated*: FAILED becomes COMPLETED |

Why the bounds are enough to be interesting: two workers are what a duplicate, a
reclaimed entry or a lapsed lease needs; a third entry lets a run be queued again
after an approval while a duplicate of the first is still pending; one spare run
gives recovery a successor whose own retry budget is then spent (`MaxRetry = 1`
stands for 3), so both branches happen; two approvals make the choice of the newest
matter. A stall that never ends is a crash, so `stalls` needs no failures of its
own. A page of 2 with 4 events makes a client need two fetches and lose a
connection within one. Clients do not interact, so one is enough for TLC, and the
proofs cover any number. In `coordinator` the longest plan exceeds
the iteration budget, which ends the loop before the tool budget does, as with the
code's 40 and 80; an answer may be longer than a plan; two failures open the breaker;
two lost operations can hide a stop twice or lose a record and a control read.
In `scorer` three posts let a batch of two lose its first message to the failure of the
second while a third arrives, exceed a response, leave a gap between two messages that
are returned, and put a garbled announcement before a legible one. One failure or restart
may come at any step; the theorems about `scorer`'s safety properties hold for any number of them. In
`memory` two sessions are what a stale write needs; the goal of 13 tokens exceeds the
budget alone, and the segments' sizes are such that each limit is met exactly and
exceeded by one. In `inbox` updates do not interact, so one is enough; three deliveries
are a winner, a loser and a late one. In `sources` an attempts limit of 0 makes one
failure exhaust a row, so an outage that takes both rows of a page fills it for good; two
hours make a source stale again. The largest runs are `stalls` (1.7 million distinct
states) and `memory` (1.2 million); `scorer` has 0.5 and `sources` 0.2 million.

What the violated runs mean is in `PROJECT.json` under `findings`, with the lines of
the repository that say otherwise. Each has a passing counterpart: `stalls`
allows early decisions too and shows that nothing else strands a run, and `punctual` excludes
by `LapseIn` the stalls that `late_write` needs. `early_decision` is the smaller
instance in which the trace is short.

### Disagreements without a run

Met while modelling, each readable off the named line; the models contain them:

* Two overlapping `/resume` commands (`telegram.py:446`): the second stores QUEUED over a
  run that a worker has claimed in between, and a second worker claims it, although
  `worker.py:117` promises an atomic claim. In `operators`' instance with
  `ResumesOverlap = TRUE`, a second chat and `MaxOwed = 2`, TLC shows the invariant
  `OneWorkerPerRun` violated; one chat alone cannot overlap with itself.
* A stop request on a run whose approval was granted (`worker.py:412`): the continuation
  invokes the tool without reading it. With `MaxApprovals = 1` in `operators`'
  instance `StopIsHonoured` is violated, although `telegram.py:476` says that the run is really
  stopped.
* A lost TOOL_CALL record (`coordinator.py:197`) is taken for an error of the tool and the
  entry is acknowledged, although `events.py:21` says it is not. The run has failed, so
  `CompletedIsRecorded` holds.
* The check for an execution that a crash left PENDING is skipped when the run has a
  second APPROVED approval (`worker.py:315`), so a run can complete over it.
* A Telegram handler's failed publish is swallowed (`telegram.py:275`) and its run, which
  has no outbox row, stays QUEUED.
* The API's resume cannot move a PAUSED run (`app.py:323`).
* A plan that a budget cuts short is verified on what was done, so a run may complete
  with actions left out (`coordinator.py:163`).
* A statement that fails while a batch is scored rolls back what was flushed for
  earlier messages, and the cursor then passes them (`agent_scorer.py:212`): `dropped` in
  `CursorCoversEvaluations`. Their alerts have been sent.
* The cursor follows `last_seq` over gaps (`technocore.py:355`, on purpose, by its comment and
  its test), so a message that the response leaves out is never scored: `missed` in
  `CursorCoversEvaluations` and `MessagesAreScored`.
* A room that is behind by more than 1 MiB is asked for with the same cursor on every turn
  and refused on every turn (`technocore.py:419`): `Blocked` in `MessagesAreScored` and
  `AnnouncedIsWatched`.
* An announcement whose room is no string raises (`agent_scorer.py:66`), and those behind it
  are skipped although the cursor passes them (`agent_scorer.py:83`): `missed` in
  `AnnouncedIsWatched`. Messages of a room that are no list end the whole turn
  (`agent_scorer.py:100`).
* An alert that is not delivered is not sent again (`agent_scorer.py:225`, `agent_alert.py:104`),
  and one that is delivered may be of an evaluation that is then rolled back. So a stored
  risky evaluation need not have an alert, and `AlertsAreEarned` says only what an alert means.
* Announced rooms are forgotten by a restart and their announcements are not read again
  (`agent_scorer.py:39`): `restarts > 0` in `AnnouncedIsWatched`.
* An update whose handler raised, or that met a bot which was not started, becomes
  PROCESSED without its effect (`telegram.py:571`), although `app.py:717` says that
  nothing counts as PROCESSED unprocessed: `dropped` in `ProcessedWasHandled`.
* A delivery that finds PENDING handles the update again (`app.py:706`), although
  `docs/CONFIGURATION.md:218` calls the inbox idempotent: `disturbed` in `QuietIsOnce`. The
  loser of the insert race answers 200, and the update is lost if the winner fails:
  `mistaken \cap broken` in `AnsweredIsApplied`.
* Twenty outbox rows above ten attempts fill the page and block every later row
  (`scheduler.py:60`): the first disjunct of `RowsArePublished`.
* `LAYER_PRIORITY` (`assembler.py:48`) gives `tool_output` and `external_data` the priority 5 of
  untrusted text and an unknown type 99, but `assemble` does not read it: all three are outside
  `SEQUENCE` and ranked by relevance, so a segment of unknown type may displace a tool output.
  `ContextIsRanked` takes its ranks from `SEQUENCE` and relevance and allows it.
* `expire_sweep` says that it is called periodically (`memory/service.py:217`) and nothing
  calls it; retrieval leaves out expired items itself.

### Fairness

Weak fairness only. A worker's event loop keeps stepping and keeps reading the
stream; the scheduler's loop calls `publish_outbox` and `recover_stuck_runs` every
turn; a Telegram handler goes on after its commit; leases of dead owners end with
time. Crashes, stalls, operators' decisions and ageing are not fair. In `RunEvents`
the generator polls, the network delivers, the client reconnects; writers owe
nothing. In `RunCoordinator` the coordinator's task goes on and tools return, since
every connector's HTTP client has a timeout. In `SourceWatch` a scheduler's tick goes on
and time passes; failures owe nothing and are bounded. In `AgentScorer` the poller goes
on; posts, failing reads and restarts are not fair. A server that may return too much owes
nothing either: `MessagesAreScored` excludes a room for which that never ends. In `TelegramInbox` a request goes on
while its process lives, and Telegram delivers again what it has not seen answered:
strong fairness, because the slots of the model may all be taken for a while, which a
server's are not.

## Proofs

Every invariant and every action property that a passing run checks is also a theorem,
and so are both refinements, for every number of runs, workers, approvals, entries,
failures, writers, clients, memory items, segments, sessions, updates, deliveries, rooms,
messages, sources and schedulers, and every size of pages, budgets and limits; the conditions
that some of them need are named below. `QueueInv` and `ScorerInv`, the largest of the
inductive invariants, were checked with TLC on the runs' instances first.

* `TypeCorrect`: `TypeOK` needs `WellFormed` beside it (entries, jobs and approvals
  name runs, what is about to be stored is a status); together `TypeInv`.
* `SingleUseCorrect`, `ImplementsLedger`: `SingleUse` is not inductive; `LedgerInv`
  says which worker may still invoke an approved tool (one that consumed it, at the
  step `call`), that at most one can, and what `calls` and `exec` are at each step.
  No assumption on leases: it holds for every `LapseIn`. The ledger's step is found
  per action; every other action leaves the mapped variables alone. `TruthfulOutcomeCorrect`
  follows from the same invariant.
* `QueuedCorrect`: `QueuedHasMessage` holds of every behaviour in which no Telegram handler
  loses its publish (`ChatPublishFails`, which the code swallows and after which the property
  is false). `QueueInv`: an entry *stands* for its run until a worker that has taken it is
  past the claim; the worker gets there only if the run is not QUEUED, and what it then
  acknowledges is not the last message of a run that still has to be claimed. Without
  `Stands` the invariant is not inductive, since an acknowledgement looks only at the entry.
* `StrandedCorrect`: `StrandedByEarlyDecision` for decisions at any time and leases that lapse
  at any step. `WaitInv` carries the approval that a worker about to store WAITING_APPROVAL has
  in hand; with it the final write is the one step after which a run may be stranded, and
  only if that approval was decided before.
* `OneWorkerCorrect`, assuming `LapseIn = {}` and `~ResumesOverlap`: `OwnInv` ties a
  working worker to `owner`, the lease and the status EXECUTING, and says what a
  pending `/resume` and recovery's `scan` may have read.
* `CompletionCorrect`, under the same assumptions: `EarnInv` on top of `OwnInv`.
* `EventsTypeCorrect`, `NothingSkippedCorrect`, `SeqIsDenseCorrect`,
  `ShownOnceCorrect`: `EventInv`. Only the holder of the advisory lock has
  uncommitted rows, so a draft's ids are beyond all committed ids and hence beyond
  every cursor; a commit never adds a row behind a cursor, and what lies between the
  last id received and the cursor is in flight.

* `CoordinatorTypeCorrect`, `PlanIsSoundCorrect`: `TypeInv` adds that no breaker is
  open while the loop goes on. `CompletedIsRecordedCorrect`, `StopBoundsWorkCorrect`,
  `BudgetHoldsCorrect`: `CoordInv`, in which `CountInv` balances invocations against
  records, errors and iterations, `StopInv` counts what a stop still allows at each
  step, and `StatusInv` ties the status to the step. `ImplementsSteps` maps every
  action under `CoordInv`.

* `MemTypeCorrect`, `MemoryIsEndorsed`, `RejectionIsFinal`: about `MemSpec`, the memory
  part of `MemoryContext`. `EndorsedInv` carries what a session that has loaded items may
  still write: only items that were candidates are promoted or approved, only endorsed
  ones activated. `BuriedInv` says that a buried item has a status that no load picks up
  for promotion, approval or activation, and that no session holds it for one.
  `ContextIsMemory`: the composition implements `MemSpec`, so they hold of it.
* `ContextFitsCorrect`, `ContextIsFullCorrect`, `ContextIsRankedCorrect`: `kept` is always what
  `Assemble` makes of `segments` (`ContextInv`), so all is said by `AssembleCorrect`, about any
  segments and any budget. `Before` is a strict total order (`BeforeIsOrder`), so the next
  segment exists (`ForemostIsFirst`), and `PassInv` holds after each segment of the pass: the
  counters are the sums of what is kept, what was seen comes before what is left, what was
  left out does not fit beside what is kept, and whatever was kept after it is cheaper. That
  policy and goal may exceed the budget harms nothing else, because they come first: when
  one of them is taken, everything taken before is one too (`CriticalFirst`).
* `WatchTypeCorrect`, `OneTaskPerHourCorrect`, `NoRunIsLostCorrect`: `WatchInv`. `KeyInv` says
  that a source's key of an hour has one holder, the committed tasks or one open transaction,
  which the waiting in `Insert` and the end of a deadlock keep; `LocalInv` what a tick has in
  hand, so that it never inserts a key twice; `RowInv` that a stored run has a row or an entry
  and that a row leaves the outbox only when its run is on the stream, also when two ticks
  write the same page.
* `ScorerTypeCorrect`, `CursorCorrect`, `AlertsCorrect`, `StoredIsKeptCorrect`: `ScorerInv`.
  `CoverInv` says of the session what `CursorCoversEvaluations` says of the tables: what its
  cursor, or the numbers of the batch in hand, have passed is evaluated in the session,
  dropped, missed, needs no evaluation, or is still in the batch. `SessionInv` says which
  evaluations a rollback takes away; `AlertsAreEarned` counts with the session's evaluations and is
  inductive beside it, since a step that takes one away counts a failure or a restart: a
  session that is broken already has none to lose.
* `InboxTypeCorrect`, `ProcessedIsHandled`, `DedupWorks`, `AcknowledgedIsApplied`:
  `RequestInv` ties a request's step to its update, `HandledInv` what `done` and PROCESSED
  say about `applied` and `dropped`, `QuietInv` that an undisturbed update has one request
  in hand and was applied at most once, before its row became PROCESSED, and `OwnerInv` that
  the row of an update that is neither handled nor `broken` has a request that still
  answers for it.

Induction over numbers is a lemma (`Induction`), proved from the library's theorem that a
set of numbers has a least element; it speaks of a set instead of a predicate, which the
provers can instantiate. With it the recursive functions of `ContextAssembler` (`Pass`, the sum
in `TokensOf`) are shown to exist (`PassExists`, `SumExists`), which gives their equations.

No theorem assumes anything of `EarlyDecision`. The assumptions on `ResumesOverlap` and
`LapseIn` are needed: overlapping `/resume` commands are described above, and `late_write` shows what
a lease that lapses under a live worker does. The assumptions on constants are those of the
modules (`...Assumption`): bounds and sizes are natural numbers, those the code divides by or
pages with not 0, and the values that stand for nothing are no members of the sets.
The type invariants of `RunEvents`, `RunCoordinator`, `MemoryLifecycle` and `TelegramInbox`, and
`PlanIsSound`, are left to the proofs.

Model-checked only, since the prover does not handle fairness: `RunsSettle`,
`ApprovedIsContinued`, `StopIsHonoured`, `EventsArrive`, `CoordinatorEnds`, `MessagesAreScored`,
`AnnouncedIsWatched`, `UpdatesAreHandled`, `RowsArePublished` and `SourcesAreWatched`.
`TerminalIsFinal` does not hold (`late_write`), and neither does `WaitingIsUndecided`
(`early_decision`).

## Not modelled

`PROJECT.json` lists every component with its status. Left out for good: HTTP, signing,
token and redaction code, the patterns of the evaluator, the console's views,
migrations and shell scripts, which keep no state that steps of several actors change.
`vector_search`, `list_status` and the inspector only read; `memory_relations` is written
and never read. The DLQ accepts every message; when its publish fails, the run is in no
queue (`scheduler.py:137`). The stream is not trimmed (`queue.py:31`), since 10000 unread entries
are outside the modelled load.

Not modelled yet: nonces and `signed_post`, and the rate limiter.

## Plan

1. `SignedPost`: `_MonotonicNonce`, `next_nonce_db` and `signed_post` (`technocore.py`). The
   nonce column is a 32-bit integer (`models.py:426`) and the nonce a clock in
   milliseconds; `ensure_greater` takes its own lock again for a candidate that is no
   number (`technocore.py:134`); a post repeated after a lost response reuses its nonce.
2. `RateLimiter`: the counter whose TTL every attempt renews (`auth.py:134`).
3. Theorems: `TerminalIsFinal` under punctual leases and without overlapping `/resume`
   commands, from `OwnInv`; the safety half of `StopIsHonoured`, that a run whose stop was
   seen is not continued; what `SignedPost` and `RateLimiter` promise.
