----------------------------- MODULE RunEvents -----------------------------
(***************************************************************************)
(* The run event log and its live stream.  Workers and the scheduler       *)
(* append events inside transactions, serialised by an advisory lock;      *)
(* every event has a number within its run (seq) and a number from an      *)
(* identity column (global_seq).  The API streams committed events to      *)
(* browsers, who name the last global_seq they saw when they reconnect.    *)
(*                                                                         *)
(* global_seq is drawn when the row is inserted and becomes visible when   *)
(* the transaction commits, and a rollback does not give it back.          *)
(***************************************************************************)
EXTENDS Naturals, FiniteSets

CONSTANTS
    Runs,
    Writers,    \* database sessions that append events
    NoWriter,
    Clients,    \* browsers with a live view
    Limit,      \* rows per fetch (50 in the code)
    MaxGlobal,  \* bound: global_seq values drawn
    MaxDrops    \* bound: connections lost

Ids == 1..MaxGlobal
Event == [id : Ids, run : Runs, seq : Nat]

ASSUME RunEventsAssumption ==
    /\ NoWriter \notin Writers
    /\ Limit \in Nat \ {0}
    /\ MaxGlobal \in Nat /\ MaxDrops \in Nat

VARIABLES
    lock,    \* holder of pg_advisory_xact_lock(727271)
    drawn,   \* last value drawn from the identity column
    draft,   \* per writer: rows inserted and not committed
    log,     \* committed rows
    open,    \* clients whose connection is up
    cursor,  \* per client: the server's cur, of its connection
    flight,  \* per client: ids sent and not received
    last,    \* per client: the stored Last-Event-ID
    seen,    \* per client: ids received
    drops

logVars == <<lock, drawn, draft, log>>
sseVars == <<open, cursor, flight, last, seen, drops>>
vars == <<logVars, sseVars>>

Init ==
    /\ lock = NoWriter
    /\ drawn = 0
    /\ draft = [t \in Writers |-> {}]
    /\ log = {}
    /\ open = {}
    /\ cursor = [c \in Clients |-> 0]
    /\ flight = [c \in Clients |-> {}]
    /\ last = [c \in Clients |-> 0]
    /\ seen = [c \in Clients |-> {}]
    /\ drops = 0

-----------------------------------------------------------------------------
(***************************************************************************)
(* Writers.                                                                *)
(***************************************************************************)

\* n is one more than the largest seq of run r among the rows S, 0 if there is none.
IsNextSeq(n, r, S) ==
    /\ \A e \in S : e.run = r => e.seq < n
    /\ n = 0 \/ \E e \in S : e.run = r /\ e.seq = n - 1

\* Inserting a row draws an id; the row lock on the run is held as long as the row
\* is not committed.
Insert(t, r, n) ==
    /\ drawn < MaxGlobal
    /\ \A u \in Writers \ {t} : \A e \in draft[u] : e.run # r
    /\ IsNextSeq(n, r, log \cup draft[t])
    /\ drawn' = drawn + 1
    /\ draft' = [draft EXCEPT ![t] = @ \cup {[id |-> drawn + 1, run |-> r, seq |-> n]}]

\* Mutant: the advisory lock is not taken; the row lock alone remains.
AppendUnlocked(t, r, n) ==
    /\ Insert(t, r, n)
    /\ lock' = t
    /\ UNCHANGED <<log, sseVars>>

\* Mutant: the largest seq is read among the rows that others have committed.
AppendOverOwnRows(t, r, n) ==
    /\ lock \in {NoWriter, t}
    /\ drawn < MaxGlobal
    /\ IsNextSeq(n, r, log)
    /\ lock' = t
    /\ drawn' = drawn + 1
    /\ draft' = [draft EXCEPT ![t] = @ \cup {[id |-> drawn + 1, run |-> r, seq |-> n]}]
    /\ UNCHANGED <<log, sseVars>>

\* append_run_event_in_session: the lock is taken, or was taken by an earlier append
\* of this transaction, and stays until the transaction ends.
Append(t, r, n) ==
    /\ lock \in {NoWriter, t}
    /\ Insert(t, r, n)
    /\ lock' = t
    /\ UNCHANGED <<log, sseVars>>

Commit(t) ==
    /\ lock = t
    /\ log' = log \cup draft[t]
    /\ draft' = [draft EXCEPT ![t] = {}]
    /\ lock' = NoWriter
    /\ UNCHANGED <<drawn, sseVars>>

\* An exception or a crash: the rows are gone, the ids they drew stay drawn.
Rollback(t) ==
    /\ lock = t
    /\ draft' = [draft EXCEPT ![t] = {}]
    /\ lock' = NoWriter
    /\ UNCHANGED <<drawn, log, sseVars>>

-----------------------------------------------------------------------------
(***************************************************************************)
(* Live view.                                                              *)
(***************************************************************************)

\* Mutant: a new connection starts where the old one had read to.
ConnectAtCursor(c) ==
    /\ c \notin open
    /\ open' = open \cup {c}
    /\ UNCHANGED <<logVars, cursor, flight, last, seen, drops>>

\* The client sends the id it stored last; the server's cursor starts there.
Connect(c) ==
    /\ c \notin open
    /\ open' = open \cup {c}
    /\ cursor' = [cursor EXCEPT ![c] = last[c]]
    /\ UNCHANGED <<logVars, flight, last, seen, drops>>

\* Ids of the committed rows beyond a cursor, and the first Limit of them.
Beyond(g) == {i \in Ids : i > g /\ \E e \in log : e.id = i}
FirstOf(S) == {i \in S : Cardinality({j \in S : j < i}) < Limit}

\* Mutant: rows from the cursor on, the row at the cursor included.
FetchInclusive(c, m) ==
    LET rows == FirstOf({i \in Ids : i >= cursor[c] /\ \E e \in log : e.id = i}) IN
    /\ c \in open
    /\ m \in rows /\ \A i \in rows : i <= m
    /\ flight' = [flight EXCEPT ![c] = @ \cup rows]
    /\ cursor' = [cursor EXCEPT ![c] = m]
    /\ UNCHANGED <<logVars, open, last, seen, drops>>

\* One turn of the generator that found rows: all of them are sent, in order, and
\* the cursor moves to the last of them, m.
Fetch(c, m) ==
    LET rows == FirstOf(Beyond(cursor[c])) IN
    /\ c \in open
    /\ m \in rows /\ \A i \in rows : i <= m
    /\ flight' = [flight EXCEPT ![c] = @ \cup rows]
    /\ cursor' = [cursor EXCEPT ![c] = m]
    /\ UNCHANGED <<logVars, open, last, seen, drops>>

\* A frame arrives, in the order sent: the client stores its id and shows it.
Receive(c, i) ==
    /\ c \in open
    /\ i \in flight[c] /\ \A j \in flight[c] : i <= j
    /\ flight' = [flight EXCEPT ![c] = @ \ {i}]
    /\ last' = [last EXCEPT ![c] = i]
    /\ seen' = [seen EXCEPT ![c] = @ \cup {i}]
    /\ UNCHANGED <<logVars, open, cursor, drops>>

\* The connection breaks with frames on the way.
Drop(c) ==
    /\ drops < MaxDrops
    /\ c \in open
    /\ open' = open \ {c}
    /\ flight' = [flight EXCEPT ![c] = {}]
    /\ drops' = drops + 1
    /\ UNCHANGED <<logVars, cursor, last, seen>>

-----------------------------------------------------------------------------

Write(t) ==
    \/ \E r \in Runs, n \in 0..MaxGlobal : Append(t, r, n)
    \/ Commit(t) \/ Rollback(t)

View(c) ==
    \/ Connect(c) \/ Drop(c)
    \/ \E i \in Ids : Fetch(c, i) \/ Receive(c, i)

Next == (\E t \in Writers : Write(t)) \/ (\E c \in Clients : View(c))

Spec == Init /\ [][Next]_vars

\* The generator polls, the network delivers and the client reconnects; writers owe
\* nothing.
FairSpec ==
    /\ Spec
    /\ \A c \in Clients :
          /\ WF_vars(Connect(c))
          /\ WF_vars(\E i \in Ids : Fetch(c, i))
          /\ WF_vars(\E i \in Ids : Receive(c, i))

-----------------------------------------------------------------------------

\* Every column, lock and client variable has a value of its type.
TypeOK ==
    /\ lock \in Writers \cup {NoWriter}
    /\ drawn \in 0..MaxGlobal
    /\ draft \in [Writers -> SUBSET Event]
    /\ log \subseteq Event
    /\ open \subseteq Clients
    /\ cursor \in [Clients -> 0..MaxGlobal]
    /\ flight \in [Clients -> SUBSET Ids]
    /\ last \in [Clients -> 0..MaxGlobal]
    /\ seen \in [Clients -> SUBSET Ids]
    /\ drops \in Nat

\* A live view skips nothing: every committed event up to the Last-Event-ID was
\* received, so no event is committed behind a cursor that has passed its id.
NothingSkipped ==
    \A c \in Clients : \A e \in log : e.id <= last[c] => e.id \in seen[c]

\* A run's events are numbered 0, 1, 2, ... without a gap, in the order of their
\* global_seq, although transactions interleave and roll back.
SeqIsDense ==
    /\ \A e, f \in log : e.run = f.run /\ e.id < f.id => e.seq < f.seq
    /\ \A e \in log : \A n \in 0..e.seq : \E f \in log : f.run = e.run /\ f.seq = n

\* No event is shown twice, across any number of reconnections.
ShownOnce ==
    [][\A c \in Clients, i \in Ids : Receive(c, i) => i \notin seen[c]]_vars

\* Every committed event reaches every live view, as the number of lost connections
\* is finite.
EventsArrive ==
    \A c \in Clients, i \in Ids :
        (\E e \in log : e.id = i) ~> i \in seen[c]
=============================================================================
