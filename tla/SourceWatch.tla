---------------------------- MODULE SourceWatch ----------------------------
(***************************************************************************)
(* The scheduler's tick: publish the outbox, recover stuck runs, and give  *)
(* every enabled source that was not looked at for an hour a task, a run   *)
(* and an outbox row.  Several schedulers may tick at once: what keeps     *)
(* them apart is the unique key of a source's task, and a tick dies of any *)
(* database error.                                                         *)
(***************************************************************************)
EXTENDS Integers, FiniteSets

CONSTANTS
    Sources,       \* sources that are enabled
    BackoffUntil,  \* backoff_until of each source, 0 for none
    FirstAccess,   \* last_accessed_at of each source when the schedulers start
    Schedulers,    \* scheduler processes
    Hour,          \* ticks of the clock in an hour
    Page,          \* outbox rows that are read at a time (20)
    MaxAttempts,   \* attempts above which a row is skipped (10)
    Retries,       \* bound: runs that recovery may requeue
    MinTime,       \* the clock when the schedulers start
    MaxTime,       \* bound: the clock
    MaxFaults      \* bound: outages of Redis and failing database statements

Never == -1

ASSUME WatchAssumption ==
    /\ Hour \in Nat \ {0} /\ Page \in Nat \ {0}
    /\ MaxAttempts \in Nat /\ MaxFaults \in Nat
    /\ MinTime \in Nat /\ MaxTime \in Nat /\ MinTime <= MaxTime
    /\ FirstAccess \in [Sources -> Never..MinTime]
    /\ BackoffUntil \in [Sources -> Nat]

VARIABLES
    now,
    accessed,   \* last_accessed_at of each source, Never if it is null
    tasks,      \* committed tasks of sources: source, hour of the key, and who made it
    requeued,   \* runs that recovery has requeued
    outbox,     \* unprocessed rows: run, created_at, attempts and not_before
    published,  \* runs that have an entry on the stream
    pc,         \* per scheduler: "asleep", "settle", "recover", "visit", "insert"
    page,       \* per scheduler: the rows it tried to publish, with what became of them
    seen,       \* per scheduler: last_accessed_at of the sources still to visit
    wanted,     \* per scheduler: the task it is about to insert, NoTask otherwise
    tx,         \* per scheduler: tasks inserted and not committed
    touched,    \* per scheduler: last_accessed_at that the commit will store
    faults

stored == <<tasks, requeued, accessed, outbox>>
local == <<page, seen, wanted, tx, touched>>
vars == <<now, stored, published, pc, local, faults>>

NoTask == [source |-> "none", hour |-> Never]
Nothing == [s \in {} |-> 0]

\* The run of a retry, named like the runs of tasks.
RetryRuns == {[source |-> r, hour |-> Never] : r \in Retries}

Task(p, src) == [source |-> src, hour |-> now \div Hour, by |-> p]

SameKey(t, u) == t.source = u.source /\ t.hour = u.hour

Init ==
    /\ now = MinTime /\ faults = 0
    /\ accessed = FirstAccess
    /\ tasks = {} /\ requeued = {} /\ outbox = {} /\ published = {}
    /\ pc = [p \in Schedulers |-> "asleep"]
    /\ page = [p \in Schedulers |-> {}]
    /\ seen = [p \in Schedulers |-> Nothing]
    /\ wanted = [p \in Schedulers |-> NoTask]
    /\ tx = [p \in Schedulers |-> {}]
    /\ touched = [p \in Schedulers |-> Nothing]

Goto(p, label) == pc' = [pc EXCEPT ![p] = label]

\* The tick ends in an exception: what is not committed is gone.
GiveUp(p) ==
    /\ Goto(p, "asleep")
    /\ page' = [page EXCEPT ![p] = {}]
    /\ seen' = [seen EXCEPT ![p] = Nothing]
    /\ wanted' = [wanted EXCEPT ![p] = NoTask]
    /\ tx' = [tx EXCEPT ![p] = {}]
    /\ touched' = [touched EXCEPT ![p] = Nothing]
    /\ UNCHANGED <<now, stored, published>>

DatabaseFails(p) ==
    /\ pc[p] # "asleep"
    /\ faults < MaxFaults /\ faults' = faults + 1
    /\ GiveUp(p)

-----------------------------------------------------------------------------
(***************************************************************************)
(* publish_outbox                                                          *)
(***************************************************************************)
\* Mutant: a row is published until its time has come.
DueEarly(row) == row.attempts <= MaxAttempts /\ row.notBefore >= now

Due(row) == row.attempts <= MaxAttempts /\ row.notBefore <= now

Row(run, created, notBefore) ==
    [run |-> run, created |-> created, attempts |-> 0, notBefore |-> notBefore]

\* What the query may return: the oldest rows, as many as a page has; rows that were
\* created within one tick of the clock come in any order.
Pages ==
    {rows \in SUBSET outbox :
        /\ Cardinality(rows) = IF Cardinality(outbox) < Page THEN Cardinality(outbox) ELSE Page
        /\ \A row \in rows, other \in outbox \ rows : row.created <= other.created}

\* The rows of a page that are due go to the stream; those of Down meet an outage of Redis.
Publish(p, rows, Down) ==
    LET due == {row \in rows : Due(row)}
    IN  /\ pc[p] = "asleep"
        /\ Down \subseteq due
        /\ Down # {} => faults < MaxFaults
        /\ faults' = IF Down = {} THEN faults ELSE faults + 1
        /\ published' = published \cup {row.run : row \in due \ Down}
        /\ page' = [page EXCEPT ![p] =
                        {[run |-> row.run, attempts |-> row.attempts + 1,
                          processed |-> row \notin Down] : row \in due}]
        /\ Goto(p, "settle")
        /\ UNCHANGED <<now, stored, seen, wanted, tx, touched>>

\* Mutant: what failed counts as processed.
AfterAll(row, written) == IF \E w \in written : w.run = row.run THEN {} ELSE {row}

\* An outbox row after the commit of what became of a page.
After(row, written) ==
    IF \E w \in written : w.run = row.run
    THEN LET w == CHOOSE w \in written : w.run = row.run
         IN  IF w.processed THEN {} ELSE {[row EXCEPT !.attempts = w.attempts]}
    ELSE {row}

Settle(p) ==
    /\ pc[p] = "settle"
    /\ outbox' = UNION {After(row, page[p]) : row \in outbox}
    /\ page' = [page EXCEPT ![p] = {}]
    /\ Goto(p, "recover")
    /\ UNCHANGED <<now, tasks, requeued, accessed, published, seen, wanted, tx, touched, faults>>

\* Mutant: the row of a retry is stored without its run.
RecoverRowOnly(p, found) ==
    /\ pc[p] = "recover"
    /\ found \subseteq RetryRuns \ requeued
    /\ found # {} => now < MaxTime
    /\ requeued' = requeued
    /\ outbox' = outbox \cup {Row(r, now, now + 1) : r \in found}
    /\ seen' = [seen EXCEPT ![p] = accessed]
    /\ Goto(p, "visit")
    /\ UNCHANGED <<now, tasks, accessed, published, page, wanted, tx, touched, faults>>

\* recover_stuck_runs as far as the outbox sees it, and the query of the sources.
Recover(p, found) ==
    /\ pc[p] = "recover"
    /\ found \subseteq RetryRuns \ requeued
    /\ found # {} => now < MaxTime
    /\ requeued' = requeued \cup found
    /\ outbox' = outbox \cup {Row(r, now, now + 1) : r \in found}
    /\ seen' = [seen EXCEPT ![p] = accessed]
    /\ Goto(p, "visit")
    /\ UNCHANGED <<now, tasks, accessed, published, page, wanted, tx, touched, faults>>

-----------------------------------------------------------------------------
(***************************************************************************)
(* check_sources, one transaction                                          *)
(***************************************************************************)
Stale(last) == last = Never \/ now - last > Hour

\* last_accessed_at of one source of the session is set to the present time.
With(times, src) == [s \in DOMAIN times \cup {src} |-> IF s = src THEN now ELSE times[s]]

Touch(p, src) == touched' = [touched EXCEPT ![p] = With(@, src)]

\* A source of the query, in any order: left alone, touched, or to be given a task.
Visit(p, src) ==
    /\ pc[p] = "visit" /\ src \in DOMAIN seen[p]
    /\ seen' = [seen EXCEPT ![p] = [s \in DOMAIN @ \ {src} |-> @[s]]]
    /\ IF BackoffUntil[src] > now \/ ~Stale(seen[p][src])
       THEN UNCHANGED <<pc, wanted, touched>>
       ELSE IF \E t \in tasks : SameKey(t, Task(p, src))
            THEN Touch(p, src) /\ UNCHANGED <<pc, wanted>>
            ELSE /\ wanted' = [wanted EXCEPT ![p] = Task(p, src)]
                 /\ Goto(p, "insert") /\ UNCHANGED touched
    /\ UNCHANGED <<now, stored, published, page, tx, faults>>

\* The schedulers that hold the key p wants, which p waits for.
Holders(p) == {q \in Schedulers \ {p} : \E t \in tx[q] : SameKey(t, wanted[p])}

\* Mutant: the index of the key is not unique.
InsertAny(p) ==
    /\ pc[p] = "insert"
    /\ tx' = [tx EXCEPT ![p] = @ \cup {wanted[p]}]
    /\ Touch(p, wanted[p].source)
    /\ wanted' = [wanted EXCEPT ![p] = NoTask]
    /\ Goto(p, "visit")
    /\ UNCHANGED <<now, stored, published, page, seen, faults>>

\* The key that was free when it was looked up may be taken by now.
Insert(p) ==
    /\ pc[p] = "insert" /\ Holders(p) = {}
    /\ IF \E t \in tasks : SameKey(t, wanted[p])
       THEN GiveUp(p)
       ELSE /\ tx' = [tx EXCEPT ![p] = @ \cup {wanted[p]}]
            /\ Touch(p, wanted[p].source)
            /\ wanted' = [wanted EXCEPT ![p] = NoTask]
            /\ Goto(p, "visit")
            /\ UNCHANGED <<now, stored, published, page, seen>>
    /\ UNCHANGED faults

\* Two schedulers wait for each other's keys: the database ends the transaction of one, and
\* the other gets its key.
DeadlockVictim(p, q) ==
    /\ pc[p] = "insert" /\ pc[q] = "insert"
    /\ q \in Holders(p) /\ p \in Holders(q)
    /\ pc' = [pc EXCEPT ![p] = "asleep", ![q] = "visit"]
    /\ seen' = [seen EXCEPT ![p] = Nothing]
    /\ wanted' = [wanted EXCEPT ![p] = NoTask, ![q] = NoTask]
    /\ tx' = [tx EXCEPT ![p] = {}, ![q] = @ \cup {wanted[q]}]
    /\ touched' = [touched EXCEPT ![p] = Nothing, ![q] = With(@, wanted[q].source)]
    /\ UNCHANGED <<now, stored, published, page, faults>>

\* Mutant: the tasks are stored, the time of the look at their sources is not.
CommitUntouched(p) ==
    /\ pc[p] = "visit" /\ seen[p] = Nothing
    /\ tasks' = tasks \cup tx[p]
    /\ outbox' = outbox \cup {Row(t, touched[p][t.source], 0) : t \in tx[p]}
    /\ tx' = [tx EXCEPT ![p] = {}] /\ touched' = [touched EXCEPT ![p] = Nothing]
    /\ Goto(p, "asleep")
    /\ UNCHANGED <<now, requeued, accessed, published, page, seen, wanted, faults>>

\* A row is created when its task is inserted, which is when the source is touched.
Commit(p) ==
    /\ pc[p] = "visit" /\ seen[p] = Nothing
    /\ tasks' = tasks \cup tx[p]
    /\ outbox' = outbox \cup {Row(t, touched[p][t.source], 0) : t \in tx[p]}
    /\ accessed' = [s \in Sources |-> IF s \in DOMAIN touched[p] THEN touched[p][s]
                                    ELSE accessed[s]]
    /\ tx' = [tx EXCEPT ![p] = {}] /\ touched' = [touched EXCEPT ![p] = Nothing]
    /\ Goto(p, "asleep")
    /\ UNCHANGED <<now, requeued, published, page, seen, wanted, faults>>

-----------------------------------------------------------------------------
Tick ==
    /\ now < MaxTime /\ now' = now + 1
    /\ UNCHANGED <<stored, published, pc, local, faults>>

Step(p) ==
    \/ Settle(p) \/ Insert(p) \/ Commit(p)
    \/ \E rows \in Pages : \E Down \in SUBSET rows : Publish(p, rows, Down)
    \/ \E found \in SUBSET RetryRuns : Recover(p, found)
    \/ \E src \in Sources : Visit(p, src)
    \/ \E q \in Schedulers : DeadlockVictim(p, q)

Next == Tick \/ \E p \in Schedulers : Step(p) \/ DatabaseFails(p)

\* The loop sleeps for a minute and goes on; time passes.
Fairness == WF_vars(Tick) /\ \A p \in Schedulers : WF_vars(Step(p))

Spec == Init /\ [][Next]_vars /\ Fairness

-----------------------------------------------------------------------------
(***************************************************************************)
(* Properties                                                              *)
(***************************************************************************)
Runs == {row.run : row \in outbox}
Exhausted == {row.run : row \in {r \in outbox : r.attempts > MaxAttempts}}

\* Rows, tasks and the state of the schedulers have their shape.
TypeOK ==
    /\ now \in MinTime..MaxTime /\ faults \in 0..MaxFaults
    /\ accessed \in [Sources -> Never..MaxTime]
    /\ \A t \in tasks : t.source \in Sources /\ t.hour \in 0..(now \div Hour)
    /\ requeued \subseteq RetryRuns
    /\ Runs \subseteq tasks \cup requeued
    /\ published \subseteq tasks \cup requeued
    /\ \A row, other \in outbox : row.run = other.run => row = other
    /\ \A row \in outbox : row.attempts \in 0..MaxAttempts + 1
    /\ pc \in [Schedulers -> {"asleep", "settle", "recover", "visit", "insert"}]

\* However many schedulers tick at once, a source has one task per hour (the unique index
\* of idempotency_key).
OneTaskPerHour == \A t, u \in tasks : SameKey(t, u) => t = u

\* The run of every task, and every run that recovery requeued, is on the stream or still
\* in the outbox, whichever ticks overlap, fail or die (publish_outbox, check_sources).
NoRunIsLost == tasks \cup requeued \subseteq Runs \cup published

\* When the clock has stopped and no more rows come, all that is left in the outbox is what
\* could not be published too often, and what as many such rows as fill a page keep behind
\* them for good (publish_outbox).
RowsArePublished == <>[](Cardinality(Exhausted) >= Page \/ Runs \subseteq published \cup Exhausted)

\* A source that has not been looked at for an hour is looked at, although one failure in a
\* tick undoes the work of the tick for every source (check_sources).
SourcesAreWatched ==
    \A src \in Sources :
        Stale(accessed[src]) /\ BackoffUntil[src] <= now ~> ~Stale(accessed[src])
=============================================================================
