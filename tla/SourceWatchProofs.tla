------------------------- MODULE SourceWatchProofs -------------------------
(***************************************************************************)
(* Theorems about SourceWatch for every number of sources, schedulers and  *)
(* failures, every page size and every length of the run.                  *)
(***************************************************************************)
EXTENDS SourceWatch, TLAPS

\* Runs of tasks, all runs, and rows of the outbox.
TaskSet == [source : Sources, hour : Nat, by : Schedulers]
RunIds == TaskSet \cup RetryRuns
RowSet == [run : RunIds, created : Nat, attempts : 0..MaxAttempts + 1, notBefore : Nat]
EntrySet == [run : RunIds, attempts : 0..MaxAttempts + 1, processed : BOOLEAN]

\* Columns and variables of the schedulers.
TypeInv ==
    /\ now \in MinTime..MaxTime /\ faults \in 0..MaxFaults
    /\ accessed \in [Sources -> Never..MaxTime]
    /\ tasks \subseteq TaskSet /\ requeued \subseteq RetryRuns
    /\ outbox \subseteq RowSet
    /\ pc \in [Schedulers -> {"asleep", "settle", "recover", "visit", "insert"}]
    /\ page \in [Schedulers -> SUBSET EntrySet]
    /\ wanted \in [Schedulers -> TaskSet \cup {NoTask}]
    /\ tx \in [Schedulers -> SUBSET TaskSet]
    /\ DOMAIN seen = Schedulers /\ DOMAIN touched = Schedulers

\* What a scheduler in the middle of check_sources has in hand: sources it has yet to
\* visit, a source it is about to give a task, tasks it has inserted, and when it touched
\* which source.
LocalInv ==
    \A p \in Schedulers :
        /\ DOMAIN seen[p] \subseteq Sources
        /\ DOMAIN touched[p] \subseteq Sources
        /\ \A s \in DOMAIN touched[p] : touched[p][s] \in 0..now
        /\ \A t \in tx[p] : t.source \notin DOMAIN seen[p] /\ t.source \in DOMAIN touched[p]
        /\ pc[p] \in {"asleep", "settle", "recover"} => tx[p] = {}
        /\ pc[p] = "insert" =>
              /\ wanted[p] \in TaskSet
              /\ wanted[p].source \notin DOMAIN seen[p]
              /\ \A t \in tx[p] : t.source # wanted[p].source

\* No task is of a later hour.
HoursInv ==
    /\ \A t \in tasks : t.hour <= now \div Hour
    /\ \A p \in Schedulers :
          /\ \A t \in tx[p] : t.hour <= now \div Hour
          /\ pc[p] = "insert" => wanted[p].hour <= now \div Hour

\* A key has one holder: the committed tasks, or one open transaction.
KeyInv ==
    /\ \A t, u \in tasks : SameKey(t, u) => t = u
    /\ \A p \in Schedulers : \A t, u \in tx[p] : SameKey(t, u) => t = u
    /\ \A p \in Schedulers : \A t \in tx[p], u \in tasks : ~SameKey(t, u)
    /\ \A p, q \in Schedulers : p # q => \A t \in tx[p], u \in tx[q] : ~SameKey(t, u)

\* Rows stand for stored runs, one row for each, and what a scheduler is about to mark as
\* processed is on the stream.
RowInv ==
    /\ \A row \in outbox : row.run \in tasks \cup requeued
    /\ \A row, other \in outbox : row.run = other.run => row = other
    /\ published \subseteq tasks \cup requeued
    /\ \A r \in tasks \cup requeued : r \in published \/ \E row \in outbox : row.run = r
    /\ \A p \in Schedulers : \A w \in page[p] : w.processed => w.run \in published

WatchInv == TypeInv /\ LocalInv /\ HoursInv /\ KeyInv /\ RowInv

USE DEF stored, local

-----------------------------------------------------------------------------

\* The hour of the key grows with the clock.
LEMMA HoursGrow ==
    ASSUME NEW a \in Nat, NEW b \in Nat, a <= b
    PROVE  /\ a \div Hour \in Nat /\ b \div Hour \in Nat
           /\ a \div Hour <= b \div Hour
  BY WatchAssumption

\* Every initial state satisfies the invariant.
LEMMA InitInv == Init => WatchInv
  <1> SUFFICES ASSUME Init PROVE WatchInv
    OBVIOUS
  <1>1. TypeInv
    BY WatchAssumption DEF Init, TypeInv, Never
  <1>2. LocalInv /\ HoursInv
    BY DEF Init, LocalInv, HoursInv, Nothing
  <1>3. KeyInv /\ RowInv
    BY DEF Init, KeyInv, RowInv
  <1>4. QED
    BY <1>1, <1>2, <1>3 DEF WatchInv

\* Time keeps the invariant (Tick).
LEMMA TickInv == WatchInv /\ Tick => WatchInv'
  <1> SUFFICES ASSUME WatchInv, Tick PROVE WatchInv'
    OBVIOUS
  <1> USE DEF WatchInv, Tick
  <1>1. TypeInv' /\ LocalInv'
    BY WatchAssumption DEF TypeInv, LocalInv
  <1>2. HoursInv'
    <2>1. /\ now \div Hour \in Nat /\ now' \div Hour \in Nat
          /\ now \div Hour <= now' \div Hour
      <3>1. now \in Nat /\ now' \in Nat /\ now <= now'
        BY WatchAssumption DEF TypeInv
      <3>2. QED
        BY <3>1, HoursGrow
    <2>2. QED
      BY <2>1 DEF HoursInv, TypeInv, TaskSet, LocalInv
  <1>3. KeyInv' /\ RowInv'
    BY DEF KeyInv, RowInv, SameKey
  <1>4. QED
    BY <1>1, <1>2, <1>3

\* A tick that ends in an exception takes back what is not committed (GiveUp).
LEMMA GiveUpInv ==
    ASSUME WatchInv, NEW p \in Schedulers, GiveUp(p), faults' \in 0..MaxFaults
    PROVE  WatchInv'
  <1> USE DEF WatchInv, GiveUp, Goto
  <1>1. TypeInv'
    BY DEF TypeInv
  <1>2. LocalInv' /\ HoursInv'
    BY DEF TypeInv, LocalInv, HoursInv, Nothing
  <1>3. KeyInv'
    BY DEF KeyInv, TypeInv
  <1>4. RowInv'
    BY DEF RowInv, TypeInv
  <1>5. QED
    BY <1>1, <1>2, <1>3, <1>4

-----------------------------------------------------------------------------
(***************************************************************************)
(* The outbox                                                              *)
(***************************************************************************)
LEMMA PublishInv ==
    ASSUME WatchInv, NEW p \in Schedulers, NEW rows \in Pages, NEW Down \in SUBSET rows,
           Publish(p, rows, Down)
    PROVE  WatchInv'
  <1> DEFINE due == {row \in rows : Due(row)}
             tried == {[run |-> row.run, attempts |-> row.attempts + 1,
                        processed |-> row \notin Down] : row \in due}
  <1>1. due \subseteq outbox
    BY DEF Pages
  <1>2. /\ page' = [page EXCEPT ![p] = tried]
        /\ published' = published \cup {row.run : row \in due \ Down}
        /\ pc' = [pc EXCEPT ![p] = "settle"] /\ pc[p] = "asleep"
        /\ UNCHANGED <<now, stored, seen, wanted, tx, touched>>
        /\ faults' = IF Down = {} THEN faults ELSE faults + 1
        /\ Down # {} => faults < MaxFaults
    BY DEF Publish, Goto
  <1>3. tried \subseteq EntrySet
    <2>1. ASSUME NEW row \in due
          PROVE  [run |-> row.run, attempts |-> row.attempts + 1,
                  processed |-> row \notin Down] \in EntrySet
      <3>1. row \in RowSet /\ row.attempts <= MaxAttempts
        BY <1>1 DEF WatchInv, TypeInv, Due
      <3>2. row.run \in RunIds /\ row.attempts + 1 \in 0..MaxAttempts + 1
        BY <3>1, WatchAssumption DEF RowSet
      <3>3. QED
        BY <3>2 DEF EntrySet
    <2>2. QED
      BY <2>1
  <1>4. TypeInv'
    <2>1. faults' \in 0..MaxFaults
      BY <1>2, WatchAssumption DEF WatchInv, TypeInv
    <2>2. QED
      BY <1>2, <1>3, <2>1 DEF WatchInv, TypeInv
  <1>5. LocalInv' /\ HoursInv'
    BY <1>2 DEF WatchInv, TypeInv, LocalInv, HoursInv
  <1>6. KeyInv'
    BY <1>2 DEF WatchInv, KeyInv
  <1>7. RowInv'
    <2>1. \A w \in tried : w.processed => w.run \in published'
      <3>1. ASSUME NEW w \in tried, w.processed
            PROVE  w.run \in published'
        <4>1. PICK row \in due : w = [run |-> row.run, attempts |-> row.attempts + 1,
                                      processed |-> row \notin Down]
          OBVIOUS
        <4>2. w.run = row.run /\ w.processed = (row \notin Down)
          BY <4>1
        <4>3. QED
          BY <1>2, <3>1, <4>2
      <3>2. QED
        BY <3>1
    <2>2. published' \subseteq tasks \cup requeued
      BY <1>1, <1>2 DEF WatchInv, RowInv
    <2>3. QED
      BY <1>2, <2>1, <2>2 DEF WatchInv, TypeInv, RowInv
  <1>8. QED
    BY <1>4, <1>5, <1>6, <1>7 DEF WatchInv

\* What the commit of a page makes of a row: nothing, if it was published by this
\* scheduler; otherwise a row of the same run.
LEMMA AfterRow ==
    ASSUME WatchInv, NEW p \in Schedulers, NEW row \in outbox
    PROVE  \/ After(row, page[p]) = {} /\ row.run \in published
           \/ \E new \in RowSet : After(row, page[p]) = {new} /\ new.run = row.run
  <1>1. row \in RowSet
    BY DEF WatchInv, TypeInv
  <1>2. CASE \A w \in page[p] : w.run # row.run
    BY <1>1, <1>2 DEF After
  <1>3. CASE \E w \in page[p] : w.run = row.run
    <2> DEFINE w == CHOOSE w \in page[p] : w.run = row.run
    <2>1. w \in page[p] /\ w.run = row.run
      BY <1>3
    <2> HIDE DEF w
    <2>2. w \in EntrySet
      BY <2>1 DEF WatchInv, TypeInv
    <2>3. CASE w.processed
      <3>1. After(row, page[p]) = {}
        BY <1>3, <2>3 DEF After, w
      <3>2. QED
        BY <2>1, <2>3, <3>1 DEF WatchInv, RowInv
    <2>4. CASE ~w.processed
      <3>1. After(row, page[p]) = {[row EXCEPT !.attempts = w.attempts]}
        BY <1>3, <2>4 DEF After, w
      <3>2. /\ [row EXCEPT !.attempts = w.attempts] \in RowSet
            /\ [row EXCEPT !.attempts = w.attempts].run = row.run
        BY <1>1, <2>2 DEF RowSet, EntrySet
      <3>3. QED
        BY <3>1, <3>2
    <2>5. QED
      BY <2>3, <2>4
  <1>4. QED
    BY <1>2, <1>3

\* The commit of a page takes rows away only of runs that are on the stream (Settle).
LEMMA SettleInv ==
    ASSUME WatchInv, NEW p \in Schedulers, Settle(p)
    PROVE  WatchInv'
  <1>1. /\ outbox' = UNION {After(row, page[p]) : row \in outbox}
        /\ page' = [page EXCEPT ![p] = {}]
        /\ pc' = [pc EXCEPT ![p] = "recover"] /\ pc[p] = "settle"
        /\ UNCHANGED <<now, tasks, requeued, accessed, published, seen, wanted, tx, touched,
                       faults>>
    BY DEF Settle, Goto
  <1>2. \A new \in outbox' : \E row \in outbox : new \in After(row, page[p])
    BY <1>1
  <1>3. \A new \in outbox' :
            /\ new \in RowSet
            /\ \E row \in outbox : After(row, page[p]) = {new} /\ new.run = row.run
    BY <1>2, AfterRow
  <1>4. TypeInv'
    BY <1>1, <1>3 DEF WatchInv, TypeInv
  <1>5. LocalInv' /\ HoursInv'
    BY <1>1 DEF WatchInv, TypeInv, LocalInv, HoursInv
  <1>6. KeyInv'
    BY <1>1 DEF WatchInv, KeyInv
  <1>7. RowInv'
    <2>1. \A new \in outbox' : new.run \in tasks \cup requeued
      BY <1>3 DEF WatchInv, RowInv
    <2>2. ASSUME NEW new \in outbox', NEW other \in outbox', new.run = other.run
          PROVE  new = other
      <3>1. PICK row \in outbox : After(row, page[p]) = {new} /\ new.run = row.run
        BY <1>3
      <3>2. PICK old \in outbox : After(old, page[p]) = {other} /\ other.run = old.run
        BY <1>3
      <3>3. row = old
        BY <2>2, <3>1, <3>2 DEF WatchInv, RowInv
      <3>4. QED
        BY <3>1, <3>2, <3>3
    <2>3. ASSUME NEW r \in tasks \cup requeued, r \notin published
          PROVE  \E new \in outbox' : new.run = r
      <3>1. PICK row \in outbox : row.run = r
        BY <2>3 DEF WatchInv, RowInv
      <3>2. PICK new \in RowSet : After(row, page[p]) = {new} /\ new.run = r
        BY <2>3, <3>1, AfterRow
      <3>3. QED
        BY <1>1, <3>2
    <2>4. \A q \in Schedulers : \A w \in page'[q] : w.processed => w.run \in published
      BY <1>1 DEF WatchInv, TypeInv, RowInv
    <2>5. QED
      BY <1>1, <2>1, <2>2, <2>3, <2>4 DEF WatchInv, RowInv
  <1>8. QED
    BY <1>4, <1>5, <1>6, <1>7 DEF WatchInv

\* A requeued run comes with its row (Recover).
LEMMA RecoverInv ==
    ASSUME WatchInv, NEW p \in Schedulers, NEW found \in SUBSET RetryRuns, Recover(p, found)
    PROVE  WatchInv'
  <1> DEFINE added == {Row(r, now, now + 1) : r \in found}
  <1>1. /\ outbox' = outbox \cup added /\ requeued' = requeued \cup found
        /\ found \subseteq RetryRuns \ requeued
        /\ seen' = [seen EXCEPT ![p] = accessed]
        /\ pc' = [pc EXCEPT ![p] = "visit"] /\ pc[p] = "recover"
        /\ UNCHANGED <<now, tasks, accessed, published, page, wanted, tx, touched, faults>>
    BY DEF Recover, Goto
  <1>2. /\ added \subseteq RowSet
        /\ \A row \in added : row.run \in found
        /\ \A r \in found : \E row \in added : row.run = r
        /\ \A row, other \in added : row.run = other.run => row = other
    <2>1. now \in Nat /\ now + 1 \in Nat /\ 0 \in 0..MaxAttempts + 1
      BY WatchAssumption DEF WatchInv, TypeInv
    <2>2. \A r \in found : Row(r, now, now + 1) \in RowSet /\ Row(r, now, now + 1).run = r
      BY <1>1, <2>1 DEF Row, RowSet, RunIds
    <2>3. QED
      BY <2>2
  <1>3. found \cap tasks = {}
    BY WatchAssumption DEF WatchInv, TypeInv, TaskSet, RetryRuns, Never
  <1>4. TypeInv'
    BY <1>1, <1>2 DEF WatchInv, TypeInv
  <1>5. LocalInv' /\ HoursInv'
    <2>1. tx[p] = {} /\ DOMAIN accessed = Sources
      BY <1>1 DEF WatchInv, TypeInv, LocalInv
    <2>2. QED
      BY <1>1, <2>1 DEF WatchInv, TypeInv, LocalInv, HoursInv
  <1>6. KeyInv'
    BY <1>1 DEF WatchInv, KeyInv
  <1>7. RowInv'
    <2> HIDE DEF added
    <2>1. \A row, other \in outbox' : row.run = other.run => row = other
      BY <1>1, <1>2, <1>3 DEF WatchInv, RowInv
    <2>2. QED
      BY <1>1, <1>2, <2>1 DEF WatchInv, RowInv
  <1>8. QED
    BY <1>4, <1>5, <1>6, <1>7 DEF WatchInv

-----------------------------------------------------------------------------
(***************************************************************************)
(* check_sources                                                           *)
(***************************************************************************)
LEMMA TaskType ==
    ASSUME WatchInv, NEW p \in Schedulers, NEW src \in Sources
    PROVE  /\ Task(p, src) \in TaskSet /\ Task(p, src).source = src
           /\ Task(p, src).hour = now \div Hour
  <1>1. now \in Nat
    BY WatchAssumption DEF WatchInv, TypeInv
  <1>2. now \div Hour \in Nat
    BY <1>1, HoursGrow
  <1>3. QED
    BY <1>2 DEF Task, TaskSet

\* A step that leaves the tables, the pages and the transactions alone.
LEMMA TablesKept ==
    ASSUME WatchInv, UNCHANGED <<tasks, requeued, outbox, published, page, tx>>
    PROVE  KeyInv' /\ RowInv'
  BY DEF WatchInv, KeyInv, RowInv

\* A visited source is left alone, touched, or about to get a task (Visit).
LEMMA VisitInv ==
    ASSUME WatchInv, NEW p \in Schedulers, NEW src \in Sources, Visit(p, src)
    PROVE  WatchInv'
  <1>1. /\ pc[p] = "visit" /\ src \in DOMAIN seen[p]
        /\ UNCHANGED <<now, stored, published, page, tx, faults>>
    BY DEF Visit
  <1>2. /\ DOMAIN seen' = Schedulers
        /\ DOMAIN seen'[p] = DOMAIN seen[p] \ {src}
        /\ \A q \in Schedulers \ {p} : seen'[q] = seen[q]
    BY DEF Visit, WatchInv, TypeInv
  <1>3. now \in Nat /\ now \in 0..now
    BY WatchAssumption DEF WatchInv, TypeInv
  <1>4. CASE UNCHANGED <<pc, wanted, touched>>
    <2>1. TypeInv' /\ LocalInv' /\ HoursInv'
      BY <1>1, <1>2, <1>4 DEF WatchInv, TypeInv, LocalInv, HoursInv
    <2>2. QED
      BY <1>1, <2>1, TablesKept DEF WatchInv
  <1>5. CASE Touch(p, src) /\ UNCHANGED <<pc, wanted>>
    <2>1. /\ DOMAIN touched' = Schedulers
          /\ DOMAIN touched'[p] = DOMAIN touched[p] \cup {src}
          /\ \A s \in DOMAIN touched'[p] :
                touched'[p][s] = IF s = src THEN now ELSE touched[p][s]
          /\ \A q \in Schedulers \ {p} : touched'[q] = touched[q]
      BY <1>5 DEF Touch, With, WatchInv, TypeInv
    <2>2. TypeInv' /\ HoursInv'
      BY <1>1, <1>2, <1>5, <2>1 DEF WatchInv, TypeInv, HoursInv
    <2>3. LocalInv'
      BY <1>1, <1>2, <1>3, <1>5, <2>1 DEF WatchInv, TypeInv, LocalInv
    <2>4. QED
      BY <1>1, <2>2, <2>3, TablesKept DEF WatchInv
  <1>6. CASE /\ wanted' = [wanted EXCEPT ![p] = Task(p, src)]
             /\ Goto(p, "insert") /\ UNCHANGED touched
    <2>1. TypeInv'
      BY <1>1, <1>2, <1>6, TaskType DEF WatchInv, TypeInv, Goto
    <2>2. LocalInv'
      BY <1>1, <1>2, <1>6, TaskType DEF WatchInv, TypeInv, LocalInv, Goto
    <2>3. HoursInv'
      <3>1. now \div Hour \in Nat
        BY <1>3, HoursGrow
      <3>2. QED
        BY <1>1, <1>6, <3>1, TaskType DEF WatchInv, TypeInv, HoursInv, Goto
    <2>4. QED
      BY <1>1, <2>1, <2>2, <2>3, TablesKept DEF WatchInv
  <1>7. QED
    BY <1>4, <1>5, <1>6 DEF Visit

\* A scheduler without a rival for its key: neither the committed tasks nor an open
\* transaction has it.
LEMMA KeyIsFree ==
    ASSUME WatchInv, NEW p \in Schedulers, pc[p] = "insert",
           \A t \in tasks : ~SameKey(t, wanted[p]),
           NEW Freed \in SUBSET Schedulers, p \notin Freed,
           \A q \in Schedulers \ (Freed \cup {p}) : \A t \in tx[q] : ~SameKey(t, wanted[p]),
           UNCHANGED <<tasks, requeued, outbox, published, page>>,
           DOMAIN tx' = Schedulers,
           tx'[p] = tx[p] \cup {wanted[p]},
           \A q \in Freed : tx'[q] = {},
           \A q \in Schedulers \ (Freed \cup {p}) : tx'[q] = tx[q]
    PROVE  KeyInv' /\ RowInv'
  <1> DEFINE k == wanted[p]
  <1>1. \A t \in tx[p] : ~SameKey(t, k) /\ ~SameKey(k, t)
    BY DEF WatchInv, LocalInv, SameKey
  <1>2. /\ \A t \in tasks : ~SameKey(k, t)
        /\ \A q \in Schedulers \ (Freed \cup {p}) : \A t \in tx[q] : ~SameKey(k, t)
    BY DEF SameKey
  <1> HIDE DEF k
  <1>3. \A q \in Schedulers : \A t, u \in tx'[q] : SameKey(t, u) => t = u
    <2>1. ASSUME NEW q \in Schedulers, NEW t \in tx'[q], NEW u \in tx'[q], SameKey(t, u)
          PROVE  t = u
      <3>1. CASE q = p
        BY <1>1, <2>1, <3>1 DEF WatchInv, KeyInv, k
      <3>2. CASE q # p
        BY <2>1, <3>2 DEF WatchInv, KeyInv
      <3>3. QED
        BY <3>1, <3>2
    <2>2. QED
      BY <2>1
  <1>4. \A q \in Schedulers : \A t \in tx'[q], u \in tasks : ~SameKey(t, u)
    <2>1. ASSUME NEW q \in Schedulers, NEW t \in tx'[q], NEW u \in tasks
          PROVE  ~SameKey(t, u)
      <3>1. t = k \/ t \in tx[q]
        BY <2>1 DEF k
      <3>2. QED
        BY <1>2, <3>1 DEF WatchInv, KeyInv
    <2>2. QED
      BY <2>1
  <1>5. \A q, r \in Schedulers : q # r => \A t \in tx'[q], u \in tx'[r] : ~SameKey(t, u)
    <2>1. ASSUME NEW q \in Schedulers, NEW r \in Schedulers, q # r,
                 NEW t \in tx'[q], NEW u \in tx'[r]
          PROVE  ~SameKey(t, u)
      <3>1. CASE t \in tx[q] /\ u \in tx[r]
        BY <2>1, <3>1 DEF WatchInv, KeyInv
      <3>2. CASE q = p /\ t = k
        <4>1. r \notin Freed /\ u \in tx[r]
          BY <2>1, <3>2
        <4>2. QED
          BY <1>2, <2>1, <3>2, <4>1
      <3>3. CASE r = p /\ u = k
        <4>1. q \notin Freed /\ t \in tx[q]
          BY <2>1, <3>3
        <4>2. ~SameKey(t, wanted[p])
          BY <2>1, <3>3, <4>1
        <4>3. QED
          BY <3>3, <4>2 DEF k
      <3>4. QED
        BY <2>1, <3>1, <3>2, <3>3 DEF k
    <2>2. QED
      BY <2>1
  <1>6. KeyInv'
    BY <1>3, <1>4, <1>5 DEF WatchInv, KeyInv, SameKey
  <1>7. RowInv'
    BY DEF WatchInv, RowInv
  <1>8. QED
    BY <1>6, <1>7

\* The scheduler that got its key goes on with the visit of the other sources.
LEMMA GotKey ==
    ASSUME WatchInv, NEW p \in Schedulers, pc[p] = "insert",
           pc'[p] = "visit", wanted'[p] = NoTask, UNCHANGED now,
           tx'[p] = tx[p] \cup {wanted[p]},
           touched'[p] = With(touched[p], wanted[p].source),
           seen'[p] = seen[p]
    PROVE  /\ DOMAIN seen'[p] \subseteq Sources
           /\ DOMAIN touched'[p] \subseteq Sources
           /\ \A s \in DOMAIN touched'[p] : touched'[p][s] \in 0..now'
           /\ \A t \in tx'[p] : /\ t.source \notin DOMAIN seen'[p]
                                /\ t.source \in DOMAIN touched'[p]
                                /\ t.hour <= now' \div Hour
  <1>1. now \in Nat
    BY WatchAssumption DEF WatchInv, TypeInv
  <1>2. wanted[p] \in TaskSet /\ wanted[p].source \in Sources
    BY DEF WatchInv, LocalInv, TaskSet
  <1>3. /\ DOMAIN touched'[p] = DOMAIN touched[p] \cup {wanted[p].source}
        /\ \A s \in DOMAIN touched'[p] :
              touched'[p][s] = IF s = wanted[p].source THEN now ELSE touched[p][s]
    BY DEF With
  <1>4. QED
    BY <1>1, <1>2, <1>3 DEF WatchInv, LocalInv, HoursInv

\* An inserted key is nobody else's, committed or not (Insert).
LEMMA InsertInv ==
    ASSUME WatchInv, NEW p \in Schedulers, Insert(p)
    PROVE  WatchInv'
  <1>1. CASE \E t \in tasks : SameKey(t, wanted[p])
    <2>1. GiveUp(p) /\ faults' = faults
      BY <1>1 DEF Insert
    <2>2. QED
      BY <2>1, GiveUpInv DEF WatchInv, TypeInv
  <1>2. CASE ~\E t \in tasks : SameKey(t, wanted[p])
    <2>1. /\ pc[p] = "insert" /\ pc' = [pc EXCEPT ![p] = "visit"]
          /\ tx' = [tx EXCEPT ![p] = tx[p] \cup {wanted[p]}]
          /\ touched' = [touched EXCEPT ![p] = With(touched[p], wanted[p].source)]
          /\ wanted' = [wanted EXCEPT ![p] = NoTask]
          /\ UNCHANGED <<now, stored, published, page, seen, faults>>
      BY <1>2 DEF Insert, Touch, Goto
    <2>2. \A q \in Schedulers \ {p} : \A t \in tx[q] : ~SameKey(t, wanted[p])
      BY DEF Insert, Holders
    <2>3. wanted[p] \in TaskSet
      BY <2>1 DEF WatchInv, LocalInv
    <2>4. TypeInv'
      BY <2>1, <2>3 DEF WatchInv, TypeInv
    <2>5. LocalInv' /\ HoursInv'
      BY <2>1, GotKey DEF WatchInv, TypeInv, LocalInv, HoursInv
    <2>6. KeyInv' /\ RowInv'
      <3>1. /\ DOMAIN tx' = Schedulers /\ tx'[p] = tx[p] \cup {wanted[p]}
            /\ \A q \in Schedulers \ {p} : tx'[q] = tx[q]
        BY <2>1 DEF WatchInv, TypeInv
      <3>2. QED
        <4> DEFINE Freed == {}
        <4>1. /\ Freed \in SUBSET Schedulers /\ p \notin Freed
              /\ \A q \in Schedulers \ (Freed \cup {p}) :
                    tx'[q] = tx[q] /\ \A t \in tx[q] : ~SameKey(t, wanted[p])
              /\ \A q \in Freed : tx'[q] = {}
          BY <2>2, <3>1
        <4> HIDE DEF Freed
        <4>2. QED
          BY <1>2, <2>1, <3>1, <4>1, KeyIsFree
    <2>7. QED
      BY <2>4, <2>5, <2>6 DEF WatchInv
  <1>3. QED
    BY <1>1, <1>2

\* The survivor of a deadlock gets the key its victim held (DeadlockVictim).
LEMMA DeadlockInv ==
    ASSUME WatchInv, NEW p \in Schedulers, NEW q \in Schedulers, DeadlockVictim(p, q)
    PROVE  WatchInv'
  <1>1. /\ pc[p] = "insert" /\ pc[q] = "insert" /\ p # q
        /\ pc' = [pc EXCEPT ![p] = "asleep", ![q] = "visit"]
        /\ seen' = [seen EXCEPT ![p] = Nothing]
        /\ wanted' = [wanted EXCEPT ![p] = NoTask, ![q] = NoTask]
        /\ tx' = [tx EXCEPT ![p] = {}, ![q] = tx[q] \cup {wanted[q]}]
        /\ touched' = [touched EXCEPT ![p] = Nothing,
                                      ![q] = With(touched[q], wanted[q].source)]
        /\ UNCHANGED <<now, stored, published, page, faults>>
    BY DEF DeadlockVictim, Holders, WatchInv, TypeInv
  <1>2. /\ pc'[p] = "asleep" /\ pc'[q] = "visit" /\ seen'[p] = Nothing /\ seen'[q] = seen[q]
        /\ tx'[p] = {} /\ tx'[q] = tx[q] \cup {wanted[q]}
        /\ wanted'[q] = NoTask
        /\ touched'[p] = Nothing /\ touched'[q] = With(touched[q], wanted[q].source)
        /\ \A r \in Schedulers \ {p, q} :
              /\ pc'[r] = pc[r] /\ seen'[r] = seen[r] /\ tx'[r] = tx[r]
              /\ wanted'[r] = wanted[r] /\ touched'[r] = touched[r]
        /\ DOMAIN tx' = Schedulers
    BY <1>1 DEF WatchInv, TypeInv
  \* The key that q waits for is p's, so nobody else has it, and it is not stored.
  <1>3. PICK held \in tx[p] : SameKey(held, wanted[q])
    BY DEF DeadlockVictim, Holders
  <1>4. \A u \in tasks : ~SameKey(u, wanted[q])
    BY <1>3 DEF WatchInv, KeyInv, SameKey
  <1>5. \A r \in Schedulers \ {p, q} : \A u \in tx[r] : ~SameKey(u, wanted[q])
    BY <1>3 DEF WatchInv, KeyInv, SameKey
  <1>6. wanted[q] \in TaskSet
    BY <1>1 DEF WatchInv, LocalInv
  <1>7. TypeInv'
    BY <1>1, <1>6 DEF WatchInv, TypeInv
  <1>8. LocalInv' /\ HoursInv'
    <2>1. DOMAIN Nothing = {}
      BY DEF Nothing
    <2>2. /\ DOMAIN seen'[q] \subseteq Sources
          /\ DOMAIN touched'[q] \subseteq Sources
          /\ \A s \in DOMAIN touched'[q] : touched'[q][s] \in 0..now'
          /\ \A u \in tx'[q] : /\ u.source \notin DOMAIN seen'[q]
                               /\ u.source \in DOMAIN touched'[q]
                               /\ u.hour <= now' \div Hour
      BY <1>1, <1>2, GotKey
    <2>3. LocalInv'
      <3> SUFFICES ASSUME NEW r \in Schedulers
                   PROVE  /\ DOMAIN seen'[r] \subseteq Sources
                          /\ DOMAIN touched'[r] \subseteq Sources
                          /\ \A s \in DOMAIN touched'[r] : touched'[r][s] \in 0..now'
                          /\ \A u \in tx'[r] : /\ u.source \notin DOMAIN seen'[r]
                                               /\ u.source \in DOMAIN touched'[r]
                          /\ pc'[r] \in {"asleep", "settle", "recover"} => tx'[r] = {}
                          /\ pc'[r] = "insert" =>
                                /\ wanted'[r] \in TaskSet
                                /\ wanted'[r].source \notin DOMAIN seen'[r]
                                /\ \A u \in tx'[r] : u.source # wanted'[r].source
        BY DEF LocalInv, TaskSet
      <3>1. CASE r = p
        BY <1>2, <2>1, <3>1
      <3>2. CASE r = q
        BY <1>2, <2>2, <3>2
      <3>3. CASE r \notin {p, q}
        <4>1. /\ pc'[r] = pc[r] /\ seen'[r] = seen[r] /\ tx'[r] = tx[r] /\ now' = now
              /\ wanted'[r] = wanted[r] /\ touched'[r] = touched[r]
          BY <1>1, <1>2, <3>3
        <4>2. QED
          BY <4>1 DEF WatchInv, LocalInv
      <3>4. QED
        BY <3>1, <3>2, <3>3
    <2>4. HoursInv'
      <3> SUFFICES ASSUME NEW r \in Schedulers
                   PROVE  /\ \A u \in tx'[r] : u.hour <= now' \div Hour
                          /\ pc'[r] = "insert" => wanted'[r].hour <= now' \div Hour
        BY <1>1 DEF WatchInv, HoursInv
      <3>1. CASE r = p
        BY <1>2, <3>1
      <3>2. CASE r = q
        BY <1>2, <2>2, <3>2
      <3>3. CASE r \notin {p, q}
        <4>1. /\ pc'[r] = pc[r] /\ seen'[r] = seen[r] /\ tx'[r] = tx[r] /\ now' = now
              /\ wanted'[r] = wanted[r] /\ touched'[r] = touched[r]
          BY <1>1, <1>2, <3>3
        <4>2. QED
          BY <4>1 DEF WatchInv, HoursInv
      <3>4. QED
        BY <3>1, <3>2, <3>3
    <2>5. QED
      BY <2>3, <2>4
  <1>9. KeyInv' /\ RowInv'
    <2> DEFINE Freed == {p}
    <2>1. /\ Freed \in SUBSET Schedulers /\ q \notin Freed
          /\ \A r \in Schedulers \ (Freed \cup {q}) :
                tx'[r] = tx[r] /\ \A t \in tx[r] : ~SameKey(t, wanted[q])
          /\ \A r \in Freed : tx'[r] = {}
      BY <1>1, <1>2, <1>5
    <2> HIDE DEF Freed
    <2>2. QED
      BY <1>1, <1>2, <1>4, <2>1, KeyIsFree
  <1>10. QED
    BY <1>7, <1>8, <1>9 DEF WatchInv

\* Tasks become visible with their rows (Commit).
LEMMA CommitInv ==
    ASSUME WatchInv, NEW p \in Schedulers, Commit(p)
    PROVE  WatchInv'
  <1> DEFINE added == {Row(t, touched[p][t.source], 0) : t \in tx[p]}
  <1>1. /\ pc[p] = "visit" /\ pc' = [pc EXCEPT ![p] = "asleep"]
        /\ tasks' = tasks \cup tx[p] /\ outbox' = outbox \cup added
        /\ accessed' = [s \in Sources |-> IF s \in DOMAIN touched[p] THEN touched[p][s]
                                          ELSE accessed[s]]
        /\ tx' = [tx EXCEPT ![p] = {}] /\ touched' = [touched EXCEPT ![p] = Nothing]
        /\ UNCHANGED <<now, requeued, published, page, seen, wanted, faults>>
    BY DEF Commit, Goto
  <1>2. /\ added \subseteq RowSet
        /\ \A row \in added : row.run \in tx[p]
        /\ \A t \in tx[p] : \E row \in added : row.run = t
        /\ \A row, other \in added : row.run = other.run => row = other
    <2>1. 0 \in 0..MaxAttempts + 1
      BY WatchAssumption
    <2>2. \A t \in tx[p] : t \in RunIds /\ touched[p][t.source] \in Nat
      BY DEF WatchInv, TypeInv, LocalInv, RunIds
    <2>3. \A t \in tx[p] : /\ Row(t, touched[p][t.source], 0) \in RowSet
                           /\ Row(t, touched[p][t.source], 0).run = t
      BY <2>1, <2>2 DEF Row, RowSet
    <2>4. QED
      BY <2>3
  <1> HIDE DEF added
  <1>3. tx[p] \cap (tasks \cup requeued) = {}
    <2>1. tx[p] \cap tasks = {}
      BY DEF WatchInv, KeyInv, SameKey
    <2>2. tx[p] \cap requeued = {}
      BY DEF WatchInv, TypeInv, TaskSet, RetryRuns, Never
    <2>3. QED
      BY <2>1, <2>2
  <1>4. TypeInv'
    <2>1. accessed' \in [Sources -> Never..MaxTime]
      <3>1. \A s \in DOMAIN touched[p] : touched[p][s] \in Never..MaxTime
        BY WatchAssumption DEF WatchInv, TypeInv, LocalInv, Never
      <3>2. QED
        BY <1>1, <3>1 DEF WatchInv, TypeInv
    <2>2. QED
      BY <1>1, <1>2, <2>1 DEF WatchInv, TypeInv
  <1>5. LocalInv' /\ HoursInv'
    BY <1>1 DEF WatchInv, TypeInv, LocalInv, HoursInv, Nothing
  <1>6. KeyInv'
    <2>1. tx'[p] = {} /\ \A q \in Schedulers \ {p} : tx'[q] = tx[q]
      BY <1>1 DEF WatchInv, TypeInv
    <2>2. \A t, u \in tasks' : SameKey(t, u) => t = u
      BY <1>1 DEF WatchInv, KeyInv, SameKey
    <2>3. \A q \in Schedulers : \A t \in tx'[q], u \in tasks' : ~SameKey(t, u)
      BY <1>1, <2>1 DEF WatchInv, KeyInv, SameKey
    <2>4. QED
      BY <2>1, <2>2, <2>3 DEF WatchInv, KeyInv, SameKey
  <1>7. RowInv'
    <2>1. \A row, other \in outbox' : row.run = other.run => row = other
      BY <1>1, <1>2, <1>3 DEF WatchInv, RowInv
    <2>2. QED
      BY <1>1, <1>2, <2>1 DEF WatchInv, RowInv
  <1>8. QED
    BY <1>4, <1>5, <1>6, <1>7 DEF WatchInv

-----------------------------------------------------------------------------
\* Every step keeps the invariant.
LEMMA NextInv == WatchInv /\ [Next]_vars => WatchInv'
  <1> SUFFICES ASSUME WatchInv, [Next]_vars PROVE WatchInv'
    OBVIOUS
  <1>1. ASSUME NEW p \in Schedulers, Step(p)
        PROVE  WatchInv'
    BY <1>1, SettleInv, InsertInv, CommitInv, PublishInv, RecoverInv, VisitInv, DeadlockInv
       DEF Step
  <1>2. ASSUME NEW p \in Schedulers, DatabaseFails(p)
        PROVE  WatchInv'
    <2>1. GiveUp(p) /\ faults' \in 0..MaxFaults
      BY <1>2, WatchAssumption DEF DatabaseFails, WatchInv, TypeInv
    <2>2. QED
      BY <2>1, GiveUpInv
  <1>3. CASE UNCHANGED vars
    BY <1>3 DEF vars, WatchInv, TypeInv, LocalInv, HoursInv, KeyInv, RowInv, SameKey
  <1>4. QED
    BY <1>1, <1>2, <1>3, TickInv DEF Next

\* The invariant holds in every reachable state.
LEMMA WatchInvariance == Spec => []WatchInv
  BY InitInv, NextInv, PTL DEF Spec

\* Rows, tasks and the state of any number of schedulers have their shape (publish_outbox,
\* check_sources); in particular no run ever has two rows and every row stands for a run
\* that is stored.
THEOREM WatchTypeCorrect == Spec => []TypeOK
  <1>1. WatchInv => TypeOK
    <2> SUFFICES ASSUME WatchInv PROVE TypeOK
      OBVIOUS
    <2>1. \A t \in tasks : t.source \in Sources /\ t.hour \in 0..(now \div Hour)
      <3>1. now \div Hour \in Nat
        <4>1. now \in Nat
          BY WatchAssumption DEF WatchInv, TypeInv
        <4>2. QED
          BY <4>1, HoursGrow
      <3>2. QED
        BY <3>1 DEF WatchInv, TypeInv, HoursInv, TaskSet
    <2>2. \A row \in outbox : row.attempts \in 0..MaxAttempts + 1
      BY DEF WatchInv, TypeInv, RowSet
    <2>3. QED
      BY <2>1, <2>2 DEF WatchInv, TypeInv, RowInv, TypeOK, Runs
  <1>2. QED
    BY <1>1, WatchInvariance, PTL

\* However many schedulers tick at once, die, or are ended by the database for a deadlock
\* of keys, no source has two tasks for one hour (idempotency_key in check_sources).
THEOREM OneTaskPerHourCorrect == Spec => []OneTaskPerHour
  BY WatchInvariance, PTL DEF WatchInv, KeyInv, OneTaskPerHour

\* Whatever ticks overlap, fail or write a stale page back, a stored run is on the stream or
\* still has its row (publish_outbox): the row is marked processed by a tick that published
\* it, and by no other.
THEOREM NoRunIsLostCorrect == Spec => []NoRunIsLost
  <1>1. WatchInv => NoRunIsLost
    BY DEF WatchInv, RowInv, NoRunIsLost, Runs
  <1>2. QED
    BY <1>1, WatchInvariance, PTL
=============================================================================
