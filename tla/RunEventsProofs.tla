-------------------------- MODULE RunEventsProofs --------------------------
(***************************************************************************)
(* For any number of runs, writers and clients: the event log is numbered  *)
(* densely, and a live view shows each committed event up to its           *)
(* Last-Event-ID, once.                                                    *)
(*                                                                         *)
(* The argument rests on the advisory lock.  Only its holder has rows that *)
(* are not committed, so all ids of a draft are beyond all committed ids,  *)
(* and beyond every cursor, which is a committed id: a commit never adds   *)
(* a row behind a cursor.                                                  *)
(***************************************************************************)
EXTENDS RunEvents, TLAPS, FiniteSetTheorems

USE DEF Ids

Dense(S) ==
    /\ \A e, f \in S : e.run = f.run /\ e.id < f.id => e.seq < f.seq
    /\ \A e \in S : \A n \in 0..e.seq : \E f \in S : f.run = e.run /\ f.seq = n

\* Writers: one drafts at a time, beyond everything committed.
LogInv ==
    /\ \A t \in Writers : draft[t] # {} => lock = t
    /\ \A e \in log : e.id <= drawn
    /\ \A t \in Writers : \A e \in draft[t] : e.id <= drawn
    /\ \A t \in Writers : \A e \in draft[t], f \in log : f.id < e.id
    /\ Dense(log)
    /\ \A t \in Writers : Dense(log \cup draft[t])

Committed(i) == \E e \in log : e.id = i

\* Clients: cursors are committed ids; what lies between the last id received and the
\* cursor is on its way.
ViewInv ==
    \A c \in Clients :
        /\ cursor[c] = 0 \/ Committed(cursor[c])
        /\ last[c] = 0 \/ Committed(last[c])
        /\ \A i \in seen[c] : i <= last[c]
        /\ \A e \in log : e.id <= last[c] => e.id \in seen[c]
        /\ \A i \in flight[c] : Committed(i) /\ last[c] < i /\ i <= cursor[c]
        /\ c \notin open => flight[c] = {}
        /\ c \in open => last[c] <= cursor[c]
        /\ c \in open =>
              \A e \in log : last[c] < e.id /\ e.id <= cursor[c] => e.id \in flight[c]

EventInv == TypeOK /\ LogInv /\ ViewInv

-----------------------------------------------------------------------------

\* Every initial state satisfies the invariant.
LEMMA InitEventInv == Init => EventInv
  BY RunEventsAssumption DEF Init, EventInv, TypeOK, LogInv, ViewInv, Dense, Event

\* A writer's step keeps the types.
LEMMA WriteTypeOK ==
    ASSUME TypeOK, NEW t \in Writers, Write(t)
    PROVE  TypeOK'
  <1>1. ASSUME NEW r \in Runs, NEW n \in 0..MaxGlobal, Append(t, r, n)
        PROVE  TypeOK'
    BY <1>1, RunEventsAssumption DEF Append, Insert, TypeOK, Event, sseVars
  <1>2. CASE Commit(t)
    BY <1>2 DEF Commit, TypeOK, sseVars
  <1>3. CASE Rollback(t)
    BY <1>3 DEF Rollback, TypeOK, sseVars
  <1>4. QED
    BY <1>1, <1>2, <1>3 DEF Write

\* A step of the stream or a client keeps the types.
LEMMA ViewTypeOK ==
    ASSUME TypeOK, NEW c \in Clients, View(c)
    PROVE  TypeOK'
  <1>1. CASE Connect(c)
    BY <1>1 DEF Connect, TypeOK, logVars
  <1>2. CASE Drop(c)
    BY <1>2 DEF Drop, TypeOK, logVars
  <1>3. ASSUME NEW m \in Ids, Fetch(c, m)
        PROVE  TypeOK'
    BY <1>3, RunEventsAssumption DEF Fetch, FirstOf, Beyond, TypeOK, logVars
  <1>4. ASSUME NEW i \in Ids, Receive(c, i)
        PROVE  TypeOK'
    BY <1>4, RunEventsAssumption DEF Receive, TypeOK, logVars
  <1>5. QED
    BY <1>1, <1>2, <1>3, <1>4 DEF View

-----------------------------------------------------------------------------

\* Adding the next event of a run, under a fresh id, keeps a set of rows dense.
LEMMA DenseExtends ==
    ASSUME NEW S \in SUBSET Event, NEW r \in Runs, NEW n \in Nat, NEW i \in Nat,
           Dense(S), IsNextSeq(n, r, S), \A e \in S : e.id < i
    PROVE  Dense(S \cup {[id |-> i, run |-> r, seq |-> n]})
  <1> DEFINE new == [id |-> i, run |-> r, seq |-> n]
             T == S \cup {new}
  <1>1. \A e \in S : e.id \in Nat /\ e.seq \in Nat
    BY DEF Event
  <1>2. ASSUME NEW e \in T, NEW f \in T, e.run = f.run, e.id < f.id
        PROVE  e.seq < f.seq
    <2>1. CASE f \in S
      BY <1>1, <1>2, <2>1 DEF Dense
    <2>2. CASE f = new
      BY <1>1, <1>2, <2>2 DEF IsNextSeq
    <2>3. QED
      BY <2>1, <2>2
  <1>3. ASSUME NEW e \in T, NEW k \in 0..e.seq
        PROVE  \E f \in T : f.run = e.run /\ f.seq = k
    <2>1. CASE e \in S
      BY <1>3, <2>1 DEF Dense
    <2>2. CASE e = new /\ k = n
      BY <2>2
    <2>3. CASE e = new /\ k # n
      <3>1. PICK p \in S : p.run = r /\ p.seq = n - 1
        BY <1>3, <2>3 DEF IsNextSeq
      <3>2. k \in 0..p.seq
        BY <1>1, <1>3, <2>3, <3>1
      <3>3. QED
        BY <2>3, <3>1, <3>2 DEF Dense
    <2>4. QED
      BY <1>3, <2>1, <2>2, <2>3
  <1>4. QED
    BY <1>2, <1>3 DEF Dense

\* A writer's step keeps what is said of committed and uncommitted rows.
LEMMA WriteLogInv ==
    ASSUME EventInv, NEW t \in Writers, Write(t)
    PROVE  LogInv'
  <1> USE DEF EventInv
  <1>1. ASSUME NEW r \in Runs, NEW n \in 0..MaxGlobal, Append(t, r, n)
        PROVE  LogInv'
    <2> DEFINE new == [id |-> drawn + 1, run |-> r, seq |-> n]
    <2>1. /\ draft' = [draft EXCEPT ![t] = @ \cup {new}]
          /\ log' = log /\ drawn' = drawn + 1 /\ lock' = t
          /\ IsNextSeq(n, r, log \cup draft[t])
      BY <1>1 DEF Append, Insert
    <2>2. draft'[t] = draft[t] \cup {new} /\ \A u \in Writers \ {t} : draft'[u] = draft[u]
      BY <2>1 DEF TypeOK
    <2>3. \A u \in Writers \ {t} : draft[u] = {}
      BY <1>1, RunEventsAssumption DEF Append, LogInv
    <2>4. drawn \in Nat /\ \A e \in log \cup draft[t] : e \in Event /\ e.id \in Nat /\ e.id <= drawn
      BY DEF TypeOK, LogInv, Event
    <2>5. Dense(log \cup draft'[t])
      <3>1. Dense((log \cup draft[t]) \cup {new})
        <4>1. Dense(log \cup draft[t])
          BY DEF LogInv
        <4>2. log \cup draft[t] \in SUBSET Event
          BY DEF TypeOK
        <4>3. \A e \in log \cup draft[t] : e.id < drawn + 1
          BY <2>4
        <4>4. n \in Nat /\ drawn + 1 \in Nat
          BY <2>4
        <4>5. QED
          BY <2>1, <4>1, <4>2, <4>3, <4>4, DenseExtends
      <3>2. (log \cup draft[t]) \cup {new} = log \cup draft'[t]
        BY <2>2
      <3>3. QED
        BY <3>1, <3>2
    <2>6. \A u \in Writers : Dense(log \cup draft'[u])
      BY <2>2, <2>5 DEF LogInv
    <2>7. \A u \in Writers : \A e \in draft'[u] : e.id <= drawn' /\ \A f \in log : f.id < e.id
      BY <2>1, <2>2, <2>4, <2>3 DEF LogInv
    <2>8. QED
      BY <2>1, <2>2, <2>3, <2>4, <2>6, <2>7 DEF LogInv, Dense
  <1>2. CASE Commit(t)
    <2>1. \A u \in Writers \ {t} : draft[u] = {}
      BY <1>2 DEF Commit, LogInv
    <2>2. \A u \in Writers : draft'[u] = {}
      BY <1>2, <2>1 DEF Commit, TypeOK
    <2>3. log' = log \cup draft[t] /\ drawn' = drawn
      BY <1>2 DEF Commit
    <2>4. Dense(log')
      BY <2>3 DEF LogInv
    <2>5. \A u \in Writers : log' \cup draft'[u] = log'
      BY <2>2
    <2>6. \A e \in log' : e.id <= drawn'
      BY <2>3 DEF LogInv
    <2>7. QED
      BY <2>2, <2>4, <2>5, <2>6 DEF LogInv, Dense
  <1>3. CASE Rollback(t)
    <2>1. \A u \in Writers : draft'[u] = {}
      BY <1>3 DEF Rollback, LogInv, TypeOK
    <2>2. log' = log /\ drawn' = drawn
      BY <1>3 DEF Rollback
    <2>3. \A u \in Writers : log' \cup draft'[u] = log
      BY <2>1, <2>2
    <2>4. QED
      BY <2>1, <2>2, <2>3 DEF LogInv, Dense
  <1>4. QED
    BY <1>1, <1>2, <1>3 DEF Write

\* A commit adds ids beyond every cursor only.
LEMMA WriteViewInv ==
    ASSUME EventInv, NEW t \in Writers, Write(t)
    PROVE  ViewInv'
  <1> USE DEF EventInv
  <1>1. UNCHANGED sseVars
    BY DEF Write, Append, Commit, Rollback
  <1>2. log' = log \/ log' = log \cup draft[t]
    BY DEF Write, Append, Commit, Rollback
  <1>3. \A e \in log' \ log, c \in Clients :
           /\ e.id \in Nat /\ e.id > cursor[c] /\ e.id > last[c]
    BY <1>2 DEF LogInv, ViewInv, Committed, TypeOK, Event
  <1>4. \A i : Committed(i) => Committed(i)'
    BY <1>2 DEF Committed
  <1>5. \A c \in Clients : cursor[c] \in Nat /\ last[c] \in Nat
    BY DEF TypeOK
  <1>6. QED
    BY <1>1, <1>3, <1>4, <1>5 DEF ViewInv, sseVars

-----------------------------------------------------------------------------

\* The rows of a fetch are the first ones: nothing beyond the cursor is left out
\* before one of them.
LEMMA FirstIsPrefix ==
    ASSUME NEW S \in SUBSET Ids, NEW i \in FirstOf(S), NEW j \in S, j < i
    PROVE  j \in FirstOf(S)
  <1> DEFINE A == {k \in S : k < j}
             B == {k \in S : k < i}
  <1>1. IsFiniteSet(Ids)
    BY FS_Interval, RunEventsAssumption
  <1>2. IsFiniteSet(A) /\ IsFiniteSet(B)
    BY <1>1, FS_Subset
  <1>3. A \subseteq B
    <2>1. i \in Nat /\ j \in Nat /\ \A k \in S : k \in Nat
      BY RunEventsAssumption DEF FirstOf
    <2>2. \A k \in S : k < j => k < i
      BY <2>1
    <2>3. QED
      BY <2>2
  <1>4. Cardinality(A) <= Cardinality(B)
    BY <1>2, <1>3, FS_Subset
  <1>5. Cardinality(A) \in Nat /\ Cardinality(B) \in Nat
    BY <1>2, FS_CardinalityType
  <1>6. Cardinality(B) < Limit
    BY DEF FirstOf
  <1>7. QED
    BY <1>4, <1>5, <1>6, RunEventsAssumption DEF FirstOf

\* A fetched page is in flight behind the cursor (Fetch).
LEMMA FetchViewInv ==
    ASSUME EventInv, NEW c \in Clients, NEW m \in Ids, Fetch(c, m)
    PROVE  ViewInv'
  <1> USE DEF EventInv
  <1> DEFINE S == Beyond(cursor[c])
             rows == FirstOf(S)
  <1>1. /\ c \in open /\ m \in rows /\ \A i \in rows : i <= m
        /\ flight' = [flight EXCEPT ![c] = @ \cup rows]
        /\ cursor' = [cursor EXCEPT ![c] = m]
        /\ UNCHANGED <<log, open, last, seen>>
    BY DEF Fetch, logVars
  <1>2. S \in SUBSET Ids /\ rows \subseteq S
    BY DEF Beyond, FirstOf
  <1>3. \A i \in S : Committed(i) /\ cursor[c] < i
    BY DEF Beyond, Committed
  <1>4. \A e \in log : e.id \in Ids
    BY DEF TypeOK, Event
  <1>5. /\ cursor[c] \in Nat /\ last[c] \in Nat /\ m \in Nat
        /\ \A i \in Ids : i \in Nat
    BY RunEventsAssumption DEF TypeOK
  <1>6. /\ flight'[c] = flight[c] \cup rows /\ cursor'[c] = m
        /\ \A d \in Clients \ {c} : flight'[d] = flight[d] /\ cursor'[d] = cursor[d]
    BY <1>1 DEF TypeOK
  <1>7. \A e \in log : cursor[c] < e.id /\ e.id <= m => e.id \in rows
    <2> SUFFICES ASSUME NEW e \in log, cursor[c] < e.id, e.id <= m
                 PROVE  e.id \in rows
      OBVIOUS
    <2>1. e.id \in S
      BY <1>4 DEF Beyond
    <2>2. CASE e.id = m
      BY <1>1, <2>2
    <2>3. CASE e.id < m
      BY <1>1, <1>2, <2>1, <2>3, FirstIsPrefix
    <2>4. QED
      BY <1>4, <1>5, <2>2, <2>3
  <1>8. \A i \in rows : Committed(i) /\ last[c] < i /\ i <= m
    BY <1>1, <1>2, <1>3, <1>5 DEF ViewInv
  <1>9. Committed(m) /\ cursor[c] < m
    BY <1>1, <1>2, <1>3
  <1>10. \A i \in flight[c] : Committed(i) /\ last[c] < i /\ i <= m
    <2>1. \A i \in flight[c] : i \in Ids /\ Committed(i) /\ last[c] < i /\ i <= cursor[c]
      BY DEF ViewInv, TypeOK
    <2>2. QED
      BY <1>5, <1>9, <2>1
  <1>11. \A i : Committed(i)' <=> Committed(i)
    BY <1>1 DEF Committed
  <1>12. last[c] <= m
    BY <1>1, <1>5, <1>9 DEF ViewInv
  <1>13. \A e \in log : last[c] < e.id /\ e.id <= m => e.id \in flight[c] \cup rows
    <2> SUFFICES ASSUME NEW e \in log, last[c] < e.id, e.id <= m
                 PROVE  e.id \in flight[c] \cup rows
      OBVIOUS
    <2>1. CASE e.id <= cursor[c]
      BY <1>1, <2>1 DEF ViewInv
    <2>2. CASE cursor[c] < e.id
      BY <1>7, <2>2
    <2>3. QED
      BY <1>4, <1>5, <2>1, <2>2
  <1>14. SUFFICES ASSUME NEW d \in Clients
                  PROVE  (/\ cursor[d] = 0 \/ Committed(cursor[d])
                          /\ last[d] = 0 \/ Committed(last[d])
                          /\ \A i \in seen[d] : i <= last[d]
                          /\ \A e \in log : e.id <= last[d] => e.id \in seen[d]
                          /\ \A i \in flight[d] : Committed(i) /\ last[d] < i /\ i <= cursor[d]
                          /\ d \notin open => flight[d] = {}
                          /\ d \in open => last[d] <= cursor[d]
                          /\ d \in open =>
                               \A e \in log : last[d] < e.id /\ e.id <= cursor[d]
                                                => e.id \in flight[d])'
    BY DEF ViewInv
  <1>15. CASE d = c
    <2>1. Committed(cursor[c])'
      BY <1>1, <1>6, <1>9 DEF Committed
    <2>2. \A i \in flight'[c] : Committed(i)' /\ last'[c] < i /\ i <= cursor'[c]
      BY <1>1, <1>6, <1>8, <1>10, <1>11
    <2>3. \A e \in log' : last'[c] < e.id /\ e.id <= cursor'[c] => e.id \in flight'[c]
      BY <1>1, <1>6, <1>13
    <2>4. (last[c] = 0 \/ Committed(last[c]))'
      BY <1>1, <1>11 DEF ViewInv, Committed
    <2>5. c \in open' /\ last'[c] <= cursor'[c]
      BY <1>1, <1>6, <1>12
    <2>6. /\ \A i \in seen'[c] : i <= last'[c]
          /\ \A e \in log' : e.id <= last'[c] => e.id \in seen'[c]
      BY <1>1 DEF ViewInv
    <2>7. QED
      BY <1>15, <2>1, <2>2, <2>3, <2>4, <2>5, <2>6
  <1>16. CASE d # c
    BY <1>1, <1>6, <1>11, <1>16 DEF ViewInv
  <1>17. QED
    BY <1>15, <1>16

\* A connection starts at what its client has received (Connect).
LEMMA ConnectViewInv ==
    ASSUME EventInv, NEW c \in Clients, Connect(c)
    PROVE  ViewInv'
  <1> USE DEF EventInv
  <1>1. /\ c \notin open /\ open' = open \cup {c}
        /\ cursor' = [cursor EXCEPT ![c] = last[c]]
        /\ UNCHANGED <<log, flight, last, seen>>
    BY DEF Connect, logVars
  <1>2. \A d \in Clients : cursor'[d] = IF d = c THEN last[c] ELSE cursor[d]
    BY <1>1 DEF TypeOK
  <1>3. flight[c] = {}
    BY <1>1 DEF ViewInv
  <1>4. \A i : Committed(i)' <=> Committed(i)
    BY <1>1 DEF Committed
  <1>5. last[c] \in Nat /\ \A e \in log : e.id \in Nat
    BY RunEventsAssumption DEF TypeOK, Event
  <1>6. QED
    BY <1>1, <1>2, <1>3, <1>4, <1>5 DEF ViewInv

\* A lost connection leaves the client with what it has received (Drop).
LEMMA DropViewInv ==
    ASSUME EventInv, NEW c \in Clients, Drop(c)
    PROVE  ViewInv'
  <1> USE DEF EventInv
  <1>1. /\ open' = open \ {c}
        /\ flight' = [flight EXCEPT ![c] = {}]
        /\ UNCHANGED <<log, cursor, last, seen>>
    BY DEF Drop, logVars
  <1>2. \A d \in Clients : flight'[d] = IF d = c THEN {} ELSE flight[d]
    BY <1>1 DEF TypeOK
  <1>3. \A i : Committed(i)' <=> Committed(i)
    BY <1>1 DEF Committed
  <1>4. QED
    BY <1>1, <1>2, <1>3 DEF ViewInv

\* The frame received first is the first committed event after the last one received.
LEMMA ReceiveViewInv ==
    ASSUME EventInv, NEW c \in Clients, NEW i \in Ids, Receive(c, i)
    PROVE  ViewInv'
  <1> USE DEF EventInv
  <1>1. /\ c \in open /\ i \in flight[c] /\ \A j \in flight[c] : i <= j
        /\ flight' = [flight EXCEPT ![c] = @ \ {i}]
        /\ last' = [last EXCEPT ![c] = i]
        /\ seen' = [seen EXCEPT ![c] = @ \cup {i}]
        /\ UNCHANGED <<log, open, cursor>>
    BY DEF Receive, logVars
  <1>2. /\ flight'[c] = flight[c] \ {i} /\ last'[c] = i /\ seen'[c] = seen[c] \cup {i}
        /\ \A d \in Clients \ {c} :
              flight'[d] = flight[d] /\ last'[d] = last[d] /\ seen'[d] = seen[d]
    BY <1>1 DEF TypeOK
  <1>3. \A j : Committed(j)' <=> Committed(j)
    BY <1>1 DEF Committed
  <1>4. /\ i \in Nat /\ last[c] \in Nat /\ cursor[c] \in Nat
        /\ \A j \in flight[c] : j \in Nat
        /\ \A j \in seen[c] : j \in Nat
        /\ \A e \in log : e.id \in Nat
    BY RunEventsAssumption DEF TypeOK, Event
  <1>5. Committed(i) /\ last[c] < i /\ i <= cursor[c]
    BY <1>1 DEF ViewInv
  <1>6. \A e \in log : e.id <= i => e.id \in seen[c] \cup {i}
    <2> SUFFICES ASSUME NEW e \in log, e.id <= i, e.id # i
                 PROVE  e.id \in seen[c]
      OBVIOUS
    <2>1. CASE e.id <= last[c]
      BY <2>1 DEF ViewInv
    <2>2. CASE last[c] < e.id
      <3>1. e.id \in flight[c]
        BY <1>1, <1>4, <1>5, <2>2 DEF ViewInv
      <3>2. QED
        BY <1>1, <1>4, <3>1
    <2>3. QED
      BY <1>4, <2>1, <2>2
  <1>7. \A j \in seen[c] \cup {i} : j <= i
    BY <1>4, <1>5 DEF ViewInv
  <1>8. \A j \in flight[c] \ {i} : Committed(j) /\ i < j /\ j <= cursor[c]
    BY <1>1, <1>4 DEF ViewInv
  <1>9. \A e \in log : i < e.id /\ e.id <= cursor[c] => e.id \in flight[c] \ {i}
    BY <1>1, <1>4, <1>5 DEF ViewInv
  <1>10. SUFFICES ASSUME NEW d \in Clients
                  PROVE  (/\ cursor[d] = 0 \/ Committed(cursor[d])
                          /\ last[d] = 0 \/ Committed(last[d])
                          /\ \A j \in seen[d] : j <= last[d]
                          /\ \A e \in log : e.id <= last[d] => e.id \in seen[d]
                          /\ \A j \in flight[d] : Committed(j) /\ last[d] < j /\ j <= cursor[d]
                          /\ d \notin open => flight[d] = {}
                          /\ d \in open => last[d] <= cursor[d]
                          /\ d \in open =>
                               \A e \in log : last[d] < e.id /\ e.id <= cursor[d]
                                                => e.id \in flight[d])'
    BY DEF ViewInv
  <1>11. CASE d = c
    BY <1>1, <1>2, <1>3, <1>5, <1>6, <1>7, <1>8, <1>9, <1>11 DEF ViewInv
  <1>12. CASE d # c
    BY <1>1, <1>2, <1>3, <1>12 DEF ViewInv
  <1>13. QED
    BY <1>11, <1>12

-----------------------------------------------------------------------------

\* Every step keeps the invariant.
LEMMA NextEventInv == EventInv /\ [Next]_vars => EventInv'
  <1> SUFFICES ASSUME EventInv, [Next]_vars
               PROVE  EventInv'
    OBVIOUS
  <1>1. ASSUME NEW t \in Writers, Write(t)
        PROVE  EventInv'
    BY <1>1, WriteTypeOK, WriteLogInv, WriteViewInv DEF EventInv
  <1>2. ASSUME NEW c \in Clients, View(c)
        PROVE  EventInv'
    <2>1. UNCHANGED logVars
      BY <1>2 DEF View, Connect, Drop, Fetch, Receive
    <2>2. LogInv'
      BY <2>1 DEF EventInv, LogInv, Dense, logVars
    <2>3. ViewInv'
      BY <1>2, ConnectViewInv, DropViewInv, FetchViewInv, ReceiveViewInv DEF View
    <2>4. QED
      BY <1>2, <2>2, <2>3, ViewTypeOK DEF EventInv
  <1>3. CASE UNCHANGED vars
    BY <1>3 DEF vars, logVars, sseVars, EventInv, TypeOK, LogInv, ViewInv, Dense, Committed
  <1>4. QED
    BY <1>1, <1>2, <1>3 DEF Next

\* The inductive invariant holds in every reachable state.
THEOREM EventInvariance == Spec => []EventInv
  <1>1. QED
    BY InitEventInv, NextEventInv, PTL DEF Spec

\* Every column, lock and client variable keeps its type: in particular a cursor is
\* an id the identity column has drawn, or 0.
THEOREM EventsTypeCorrect == Spec => []TypeOK
  <1>1. EventInv => TypeOK
    BY DEF EventInv
  <1>2. QED
    BY <1>1, EventInvariance, PTL

\* Whatever the number of clients and writers, and however connections break, a live
\* view has received every committed event up to its Last-Event-ID (events_stream
\* with append_run_event_in_session).
THEOREM NothingSkippedCorrect == Spec => []NothingSkipped
  <1>1. EventInv => NothingSkipped
    BY DEF EventInv, ViewInv, NothingSkipped
  <1>2. QED
    BY <1>1, EventInvariance, PTL

\* Whatever transactions interleave or roll back, the events of a run are numbered
\* from 0 without a gap, in the order of global_seq (append_run_event_in_session).
THEOREM SeqIsDenseCorrect == Spec => []SeqIsDense
  <1>1. EventInv => SeqIsDense
    BY DEF EventInv, LogInv, Dense, SeqIsDense
  <1>2. QED
    BY <1>1, EventInvariance, PTL

\* No live view receives an event twice, across any number of reconnections
\* (openSSE and events_stream).
THEOREM ShownOnceCorrect == Spec => ShownOnce
  <1>1. ASSUME EventInv
        PROVE  \A c \in Clients, i \in Ids : Receive(c, i) => i \notin seen[c]
    <2> SUFFICES ASSUME NEW c \in Clients, NEW i \in Ids, Receive(c, i)
                 PROVE  i \notin seen[c]
      OBVIOUS
    <2>1. last[c] \in Nat /\ i \in Nat
      BY <1>1, RunEventsAssumption DEF EventInv, TypeOK
    <2>2. last[c] < i /\ \A j \in seen[c] : j <= last[c]
      BY <1>1 DEF Receive, EventInv, ViewInv
    <2>3. QED
      BY <2>1, <2>2
  <1>2. QED
    BY <1>1, EventInvariance, PTL DEF ShownOnce
=============================================================================
