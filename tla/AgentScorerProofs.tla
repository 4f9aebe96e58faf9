------------------------- MODULE AgentScorerProofs -------------------------
(***************************************************************************)
(* Theorems about AgentScorer for any rooms, messages, answers of a model, *)
(* failures and restarts.                                                  *)
(***************************************************************************)
EXTENDS AgentScorer, WellFoundedInduction, TLAPS

Evaluation == Scored \X Nat \X VALID_TIERS

\* Every number the poller keeps is the number of a message of its room, or 0.
NumbersInv ==
    /\ \A r \in Rooms : Len(log[r]) <= posts
    /\ \A r \in Rooms : cursor[r] <= txCursor[r] /\ txCursor[r] <= Len(log[r])
    /\ since <= Len(log[room]) /\ lastSeq <= Len(log[room]) /\ maxSeq <= Len(log[room])
    /\ batch \subseteq 1..Len(log[room])

\* Where the poller is: which room it may have in hand at which step, and that it reads
\* the room from no later than the session's cursor.
PlaceInv ==
    /\ pc \in {"sleep", "discover"} => room = Events
    /\ pc = "score" => room \in Scored
    /\ pc = "read" => since <= txCursor[room]

\* What the session holds beyond the committed evaluations belongs to the room that is being
\* scored, and a session that refuses statements holds nothing.
SessionInv ==
    /\ evals \subseteq txEvals
    /\ \A e \in txEvals \ evals : ~Has(evals, e[1], e[2])
    /\ pc # "score" \/ broken => txEvals = evals

\* Message s of room r has its evaluation in a table, or needs or gets none.
Covered(table, r, s) ==
    Scorable(r, s) => Has(table, r, s) \/ <<r, s>> \in dropped \/ <<r, s>> \in missed

\* Message t of the room in hand has a number, so that the cursor may pass it.
Numbered(t) == log[room][t] # "unnumbered"

\* The committed cursor covers committed evaluations, the session's cursor those of the
\* session; of the room in hand, what is left of the batch is still to come.
CoverInv ==
    /\ CursorCoversEvaluations
    /\ \A r \in Scored : \A s \in 1..txCursor[r] :
          ~(pc = "score" /\ r = room) => Covered(txEvals, r, s)
    /\ pc = "score" =>
          \A s \in Nat :
             (\/ s <= txCursor[room] \/ s <= lastSeq \/ s <= maxSeq
              \/ \E t \in batch : s <= t /\ Numbered(t)) =>
                s \in batch \/ Covered(txEvals, room, s)

ScorerInv == TypeOK /\ NumbersInv /\ PlaceInv /\ SessionInv /\ CoverInv /\ AlertsAreEarned

USE DEF db, session, local

-----------------------------------------------------------------------------
(***************************************************************************)
(* Operators                                                               *)
(***************************************************************************)
\* A set of natural numbers that is not empty has a least element.
LEMMA Least ==
    ASSUME NEW S \in SUBSET Nat, S # {}
    PROVE  \E m \in S : \A n \in S : m <= n
  <1> DEFINE R == OpToRel(<, Nat)
  <1>1. IsWellFoundedOn(R, Nat)
    BY NatLessThanWellFounded
  <1>2. R = {pair \in Nat \X Nat : pair[1] < pair[2]}
    BY DEF OpToRel
  <1> HIDE DEF R
  <1>3. PICK m \in S : \A n \in S : <<n, m>> \notin R
    BY <1>1, WFMin
  <1>4. ASSUME NEW n \in S, n < m
        PROVE  FALSE
    <2> DEFINE pair == <<n, m>>
    <2>1. pair \in Nat \X Nat /\ pair[1] = n /\ pair[2] = m
      OBVIOUS
    <2>2. pair \notin R
      BY <1>3
    <2> HIDE DEF pair
    <2>3. QED
      BY <1>2, <1>4, <2>1, <2>2
  <1>5. QED
    BY <1>4

\* The message in hand is one of the batch.
LEMMA InHandInBatch ==
    ASSUME batch \in SUBSET Nat, batch # {}
    PROVE  InHand \in batch
  <1>1. \E s \in batch : \A t \in batch : s <= t
    BY Least
  <1>2. QED
    BY <1>1 DEF InHand

\* Whatever a model answers, the tier is one of the four.
LEMMA TiersAreValid ==
    ASSUME NEW kind
    PROVE  PossibleTiers(kind) \subseteq VALID_TIERS
  <1>1. \A n \in Int : TierFromScore(n) \in VALID_TIERS
    BY DEF TierFromScore, VALID_TIERS
  <1>2. TierFromScore(HeuristicScore(kind)) \in VALID_TIERS
    BY <1>1 DEF HeuristicScore
  <1>3. \A a \in Answers : NormalizedTier(a) \in VALID_TIERS
    BY <1>1, ScorerAssumption DEF NormalizedTier, MaxOf, MinOf
  <1>4. QED
    BY <1>2, <1>3 DEF PossibleTiers

\* A cursor is only ever moved forward, and no other with it (set_cursor).
LEMMA SetCursorMoves ==
    ASSUME NEW cursors \in [Rooms -> Nat], NEW r \in Rooms, NEW seq \in Nat
    PROVE  /\ SetCursor(cursors, r, seq) \in [Rooms -> Nat]
           /\ \A q \in Rooms : SetCursor(cursors, r, seq)[q] >= cursors[q]
           /\ \A q \in Rooms \ {r} : SetCursor(cursors, r, seq)[q] = cursors[q]
           /\ SetCursor(cursors, r, seq)[r] \in {cursors[r], seq}
  BY DEF SetCursor, MaxOf

\* A larger table has what a smaller one has.
LEMMA HasGrows ==
    ASSUME NEW small, NEW large, small \subseteq large, NEW r, NEW s, Has(small, r, s)
    PROVE  Has(large, r, s)
  BY DEF Has

\* Which rooms there are.
LEMMA RoomFacts ==
    /\ Events \in Rooms /\ Scored \subseteq Rooms /\ Configured \subseteq Scored
    /\ Announced \subseteq Scored /\ Events \notin Scored
  BY ScorerAssumption DEF Rooms, Scored

-----------------------------------------------------------------------------
(***************************************************************************)
(* The session                                                             *)
(***************************************************************************)
\* A rollback outside a batch leaves the session with what is committed.
LEMMA RollbackSession ==
    ASSUME ScorerInv, Rollback, UNCHANGED <<log, db, dropped, missed>>, pc' # "score"
    PROVE  SessionInv' /\ CoverInv'
  <1> USE DEF Rollback
  <1>1. SessionInv'
    BY DEF SessionInv, Has
  <1>2. CoverInv'
    BY DEF ScorerInv, CoverInv, CursorCoversEvaluations, Covered, Scorable, Has
  <1>3. QED
    BY <1>1, <1>2

\* What a rollback takes back has to be paid for.
LEMMA RollbackAlerts ==
    ASSUME ScorerInv, Rollback, UNCHANGED <<evals, alerts>>,
           faults' \in Nat, restarts' \in Nat, faults' >= faults, restarts' >= restarts,
           txEvals = evals \/ faults' + restarts' > faults + restarts
    PROVE  AlertsAreEarned'
  <1>1. txEvals' = evals /\ evals \subseteq txEvals
    BY DEF Rollback, ScorerInv, SessionInv
  <1>2. ASSUME NEW m \in Messages
        PROVE  alerts'[m] <= faults' + restarts' + (IF Risky(txEvals', m) THEN 1 ELSE 0)
    <2>1. alerts[m] \in Nat /\ faults \in Nat /\ restarts \in Nat
      BY ScorerAssumption DEF ScorerInv, TypeOK
    <2>2. alerts[m] <= faults + restarts + (IF Risky(txEvals, m) THEN 1 ELSE 0)
      BY DEF ScorerInv, AlertsAreEarned
    <2>3. CASE txEvals = evals
      BY <1>1, <2>1, <2>2, <2>3
    <2>4. CASE faults' + restarts' > faults + restarts
      <3>1. alerts[m] <= faults + restarts + 1
        BY <2>1, <2>2
      <3>2. alerts[m] <= faults' + restarts'
        <4>1. \A a, f, g, f1, g1 \in Nat : a <= f + g + 1 /\ f1 + g1 > f + g => a <= f1 + g1
          OBVIOUS
        <4>2. QED
          BY <2>1, <2>4, <3>1, <4>1
      <3>3. QED
        BY <2>1, <3>2
    <2>5. QED
      BY <2>3, <2>4
  <1>3. QED
    BY <1>2 DEF AlertsAreEarned

\* The end of a room: what Store leaves behind if its cursors cover the session.
LEMMA StoreStep ==
    ASSUME ScorerInv, NEW cursors \in [Rooms -> Nat], Store(cursors),
           \A r \in Rooms : txCursor[r] <= cursors[r] /\ cursors[r] <= Len(log[r]),
           \A r \in Scored : \A s \in 1..cursors[r] : Covered(txEvals, r, s),
           UNCHANGED <<log, dropped, missed, alerts, posts, restarts>>, pc' # "score"
    PROVE  /\ cursor' \in [Rooms -> Nat] /\ txCursor' \in [Rooms -> Nat]
           /\ evals' \subseteq Evaluation /\ txEvals' \subseteq Evaluation
           /\ broken' \in BOOLEAN /\ faults' \in 0..MaxTroubles
           /\ \A r \in Rooms : cursor'[r] <= txCursor'[r] /\ txCursor'[r] <= Len(log'[r])
           /\ SessionInv' /\ CoverInv' /\ AlertsAreEarned'
           /\ \A r \in Rooms : cursor'[r] >= cursor[r]
           /\ evals' \in {evals, txEvals}
  <1>1. CASE ~broken /\ Commit(cursors) /\ UNCHANGED faults
    <2>1. /\ cursor' = cursors /\ txCursor' = cursors /\ evals' = txEvals
          /\ txEvals' = txEvals /\ broken' = broken
      BY <1>1 DEF Commit
    <2>2. SessionInv'
      BY <2>1 DEF SessionInv
    <2>3. CoverInv'
      BY <2>1 DEF ScorerInv, CoverInv, CursorCoversEvaluations, Covered, Scorable
    <2>4. AlertsAreEarned'
      BY <1>1, <2>1 DEF ScorerInv, AlertsAreEarned
    <2>5. \A r \in Rooms : /\ cursor[r] \in Nat /\ txCursor[r] \in Nat /\ cursors[r] \in Nat
                           /\ cursor[r] <= txCursor[r]
      BY DEF ScorerInv, TypeOK, NumbersInv
    <2>6. QED
      BY <1>1, <2>1, <2>2, <2>3, <2>4, <2>5 DEF ScorerInv, TypeOK, Evaluation
  <1>2. CASE Rollback /\ UNCHANGED db /\ ((UNCHANGED faults /\ broken) \/ Fault)
    <2>1. faults' \in 0..MaxTroubles /\ faults' >= faults
      BY <1>2, ScorerAssumption DEF Fault, Trouble, ScorerInv, TypeOK
    <2>2. txEvals = evals \/ faults' + restarts' > faults + restarts
      BY <1>2, ScorerAssumption DEF Fault, Trouble, ScorerInv, TypeOK, SessionInv
    <2>3. AlertsAreEarned'
      <3>1. /\ faults' \in Nat /\ restarts' \in Nat /\ restarts' >= restarts
            /\ UNCHANGED <<evals, alerts>> /\ Rollback
        BY <1>2, <2>1, ScorerAssumption DEF ScorerInv, TypeOK
      <3>2. QED
        BY <2>1, <2>2, <3>1, RollbackAlerts
    <2>4. SessionInv' /\ CoverInv'
      BY <1>2, RollbackSession
    <2>5. \A r \in Rooms : /\ cursor'[r] = cursor[r] /\ txCursor'[r] = cursor[r]
                           /\ cursor[r] \in Nat /\ txCursor[r] \in Nat /\ Len(log[r]) \in Nat
                           /\ cursor[r] <= txCursor[r] /\ txCursor[r] <= Len(log[r])
      BY <1>2 DEF Rollback, ScorerInv, TypeOK, NumbersInv
    <2>6. QED
      <3>1. /\ cursor' = cursor /\ evals' = evals /\ txCursor' = cursor /\ txEvals' = evals
            /\ broken' = FALSE /\ log' = log
        BY <1>2 DEF Rollback
      <3>2. cursor \in [Rooms -> Nat] /\ evals \subseteq Evaluation
        BY DEF ScorerInv, TypeOK, Evaluation
      <3>3. \A r \in Rooms : cursor'[r] <= txCursor'[r] /\ txCursor'[r] <= Len(log'[r])
                             /\ cursor'[r] >= cursor[r]
        BY <2>5, <3>1
      <3>4. QED
        BY <2>1, <2>3, <2>4, <3>1, <3>2, <3>3
  <1>3. QED
    BY <1>1, <1>2 DEF Store

-----------------------------------------------------------------------------
(***************************************************************************)
(* The steps of a turn                                                     *)
(***************************************************************************)
LEMMA WakeInv ==
    ASSUME ScorerInv, Wake
    PROVE  ScorerInv'
  <1> USE DEF Wake, Rollback
  <1>1. TypeOK'
    BY RoomFacts DEF ScorerInv, TypeOK
  <1>2. NumbersInv'
    BY RoomFacts DEF ScorerInv, TypeOK, NumbersInv, PlaceInv
  <1>3. PlaceInv'
    BY DEF PlaceInv
  <1>4. SessionInv' /\ CoverInv'
    BY RollbackSession
  <1>5. AlertsAreEarned'
    <2>1. /\ txEvals = evals /\ faults' = faults /\ restarts' = restarts
          /\ faults' \in Nat /\ restarts' \in Nat /\ faults' >= faults /\ restarts' >= restarts
      BY DEF ScorerInv, SessionInv, TypeOK
    <2>2. QED
      BY <2>1, RollbackAlerts
  <1>6. QED
    BY <1>1, <1>2, <1>3, <1>4, <1>5 DEF ScorerInv

\* A step that leaves the alerts and the session's evaluations alone needs no payment.
LEMMA AlertsStay ==
    ASSUME ScorerInv, UNCHANGED <<txEvals, alerts>>, faults' \in Nat, restarts' \in Nat,
           faults' >= faults, restarts' >= restarts
    PROVE  AlertsAreEarned'
  <1>1. ASSUME NEW m \in Messages
        PROVE  alerts'[m] <= faults' + restarts' + (IF Risky(txEvals', m) THEN 1 ELSE 0)
    <2>1. alerts[m] \in Nat /\ faults \in Nat /\ restarts \in Nat
      BY ScorerAssumption DEF ScorerInv, TypeOK
    <2>2. alerts[m] <= faults + restarts + (IF Risky(txEvals, m) THEN 1 ELSE 0)
      BY DEF ScorerInv, AlertsAreEarned
    <2>3. QED
      BY <2>1, <2>2
  <1>2. QED
    BY <1>1 DEF AlertsAreEarned

\* A failure is counted.
LEMMA FaultCounts ==
    ASSUME TypeOK, Fault \/ UNCHANGED faults
    PROVE  faults' \in 0..MaxTroubles /\ faults' \in Nat /\ faults' >= faults
  BY ScorerAssumption DEF TypeOK, Fault, Trouble

\* Reading a cursor keeps the invariant (GetCursor).
LEMMA GetCursorInv ==
    ASSUME ScorerInv, GetCursor
    PROVE  ScorerInv'
  <1> USE DEF GetCursor
  <1>1. faults' \in 0..MaxTroubles /\ faults' \in Nat /\ faults' >= faults
    BY FaultCounts DEF ScorerInv
  <1>2. since' \in {0, txCursor[room]} /\ broken' \in BOOLEAN
    BY DEF ScorerInv, TypeOK
  <1>3. /\ room \in Rooms /\ txCursor[room] \in Nat /\ Len(log[room]) \in Nat
        /\ txCursor[room] <= Len(log[room])
    BY DEF ScorerInv, TypeOK, NumbersInv
  <1>4. TypeOK'
    <2>1. since' \in Nat /\ pc' = "read"
      BY <1>2, <1>3
    <2>2. TypeOK
      BY DEF ScorerInv
    <2>3. QED
      BY <1>1, <1>2, <2>1, <2>2 DEF TypeOK
  <1>5. NumbersInv'
    BY <1>2, <1>3 DEF ScorerInv, NumbersInv
  <1>6. PlaceInv'
    BY <1>2, <1>3 DEF PlaceInv
  <1>7. SessionInv'
    BY DEF ScorerInv, SessionInv
  <1>8. CoverInv'
    BY DEF ScorerInv, CoverInv, CursorCoversEvaluations, Covered, Scorable
  <1>9. AlertsAreEarned'
    <2>1. restarts' = restarts /\ restarts \in Nat
      BY DEF ScorerInv, TypeOK
    <2>2. QED
      BY <1>1, <2>1, AlertsStay
  <1>10. QED
    BY <1>4, <1>5, <1>6, <1>7, <1>8, <1>9 DEF ScorerInv

\* What a response may say: it moves the session's cursor, and the last number it states,
\* only past messages that it brings along or that were covered before.
LEMMA ResponseInv ==
    ASSUME ScorerInv, pc = "read",
           txCursor' \in [Rooms -> Nat],
           \A q \in Rooms \ {room} : txCursor'[q] = txCursor[q],
           txCursor'[room] >= txCursor[room], txCursor'[room] <= Len(log[room]),
           lastSeq' \in Nat, lastSeq' <= Len(log[room]), maxSeq' = since,
           batch' \subseteq 1..Len(log[room]),
           missed \subseteq missed', missed' \subseteq Rooms \X Nat,
           \A s \in 1..Len(log[room]) :
              (\/ s <= txCursor'[room] \/ s <= lastSeq'
               \/ \E t \in batch' : s <= t /\ Numbered(t)) =>
                 s <= txCursor[room] \/ s \in batch' \/ Covered(txEvals, room, s)',
           broken' \in BOOLEAN, Fault \/ UNCHANGED faults,
           pc' = IF room = Events THEN "discover" ELSE "score",
           UNCHANGED <<log, posts, db, txEvals, discovered, todo, room, since, alerts, dropped, restarts>>
    PROVE  ScorerInv'
  <1>1. faults' \in 0..MaxTroubles /\ faults' \in Nat /\ faults' >= faults
    BY FaultCounts DEF ScorerInv
  <1>2. /\ room \in Rooms /\ Len(log[room]) \in Nat /\ since \in Nat /\ txCursor[room] \in Nat
        /\ since <= txCursor[room] /\ txCursor[room] <= Len(log[room])
        /\ txCursor'[room] \in Nat
    BY DEF ScorerInv, TypeOK, NumbersInv, PlaceInv
  <1>3. TypeOK'
    <2>1. TypeOK
      BY DEF ScorerInv
    <2>2. batch' \subseteq Nat
      BY <1>2
    <2>3. QED
      BY <1>1, <1>2, <2>1, <2>2 DEF TypeOK
  <1>4. NumbersInv'
    <2>1. ASSUME NEW r \in Rooms
          PROVE  cursor'[r] <= txCursor'[r] /\ txCursor'[r] <= Len(log'[r])
      <3>1. /\ cursor[r] \in Nat /\ txCursor[r] \in Nat /\ txCursor'[r] \in Nat
            /\ cursor[r] <= txCursor[r] /\ txCursor[r] <= Len(log[r])
        BY DEF ScorerInv, TypeOK, NumbersInv
      <3>2. CASE r = room
        BY <1>2, <3>1, <3>2
      <3>3. CASE r # room
        BY <3>1, <3>3
      <3>4. QED
        BY <3>2, <3>3
    <2>2. QED
      BY <1>2, <2>1 DEF ScorerInv, NumbersInv
  <1>5. PlaceInv'
    BY <1>2 DEF PlaceInv, Rooms, Scored
  <1>6. txEvals = evals
    BY DEF ScorerInv, SessionInv
  <1>7. SessionInv'
    BY <1>6 DEF SessionInv
  <1>8. CoverInv'
    <2>1. CursorCoversEvaluations'
      BY DEF ScorerInv, CoverInv, CursorCoversEvaluations, Scorable
    <2>2. \A r \in Scored : \A s \in 1..txCursor[r] : Covered(txEvals, r, s)
      BY DEF ScorerInv, CoverInv
    <2>3. \A r, s : Covered(txEvals, r, s) => Covered(txEvals, r, s)'
      BY DEF Covered, Scorable
    <2>4. ASSUME NEW r \in Scored, NEW s \in 1..txCursor'[r], ~(pc' = "score" /\ r = room')
          PROVE  Covered(txEvals, r, s)'
      <3>1. r # room /\ r \in Rooms
        BY <2>4, RoomFacts
      <3>2. QED
        BY <2>2, <2>3, <3>1
    <2>5. ASSUME pc' = "score", NEW s \in Nat,
                 \/ s <= txCursor'[room'] \/ s <= lastSeq' \/ s <= maxSeq'
                 \/ \E t \in batch' : s <= t /\ Numbered(t)',
                 s \notin batch'
          PROVE  Covered(txEvals, room, s)'
      <3>1. room \in Scored
        BY <1>2, <2>5 DEF Rooms, Scored
      <3>2. CASE s = 0
        BY <3>2 DEF Covered, Scorable
      <3>3. CASE s > 0
        <4>1. s \in 1..Len(log[room])
          BY <1>2, <2>5, <3>3
        <4>2. \/ s <= txCursor'[room] \/ s <= lastSeq' \/ s <= txCursor[room]
              \/ \E t \in batch' : s <= t /\ Numbered(t)
          BY <1>2, <2>5 DEF Numbered
        <4>3. s <= txCursor[room] \/ Covered(txEvals, room, s)'
          BY <2>5, <4>1, <4>2
        <4>4. CASE s <= txCursor[room]
          <5>1. s \in 1..txCursor[room]
            BY <1>2, <3>3, <4>4
          <5>2. QED
            BY <2>2, <2>3, <3>1, <5>1
        <4>5. QED
          BY <4>3, <4>4
      <3>4. QED
        BY <3>2, <3>3
    <2>6. QED
      BY <2>1, <2>4, <2>5 DEF CoverInv
  <1>9. AlertsAreEarned'
    <2>1. restarts' = restarts /\ restarts \in Nat
      BY DEF ScorerInv, TypeOK
    <2>2. QED
      BY <1>1, <2>1, AlertsStay
  <1>10. QED
    BY <1>3, <1>4, <1>5, <1>7, <1>8, <1>9 DEF ScorerInv

\* What a response brings is to be scored, and what it passes over is missed.
LEMMA ReceiveInv ==
    ASSUME ScorerInv, pc = "read", NEW got \in SUBSET New, NEW last \in since..Len(log[room]),
           Receive(got, last), txCursor' \in {txCursor, SetCursor(txCursor, room, last)},
           broken' \in BOOLEAN, Fault \/ UNCHANGED faults,
           UNCHANGED <<log, posts, db, txEvals, discovered, todo, room, since, alerts, dropped, restarts>>
    PROVE  ScorerInv'
  <1>1. PICK n : n = Len(log[room])
    OBVIOUS
  <1>2. /\ room \in Rooms /\ n \in Nat /\ since \in Nat /\ txCursor[room] \in Nat
        /\ since <= txCursor[room] /\ txCursor[room] <= n /\ txCursor \in [Rooms -> Nat]
        /\ missed \subseteq Rooms \X Nat
    BY <1>1 DEF ScorerInv, TypeOK, NumbersInv, PlaceInv
  <1>3. last \in Nat /\ since <= last /\ last <= n
    BY <1>1, <1>2
  <1>4. got \subseteq 1..n /\ New \subseteq 1..n /\ \A s \in 1..n : s \in New \/ s <= since
    BY <1>1, <1>2 DEF New
  <1>5. /\ batch' = got /\ lastSeq' = last /\ maxSeq' = since
        /\ pc' = IF room = Events THEN "discover" ELSE "score"
        /\ missed \subseteq missed'
    BY DEF Receive
  <1>6. \A s \in New \ got : (\/ s <= last
                             \/ \E u \in got : s < u /\ Numbered(u)) => <<room, s>> \in missed'
    BY DEF Receive, Numbered
  <1>7. missed' \subseteq Rooms \X Nat
    <2>1. \A s \in New : s \in Nat
      BY <1>2, <1>4
    <2>2. QED
      BY <1>2, <2>1 DEF Receive
  <1>8. /\ txCursor' \in [Rooms -> Nat]
        /\ \A q \in Rooms \ {room} : txCursor'[q] = txCursor[q]
        /\ txCursor'[room] >= txCursor[room] /\ txCursor'[room] <= n
        /\ txCursor'[room] \in {txCursor[room], last}
    <2>1. CASE txCursor' = txCursor
      BY <1>2, <2>1
    <2>2. CASE txCursor' = SetCursor(txCursor, room, last)
      <3>1. /\ txCursor' \in [Rooms -> Nat]
            /\ \A q \in Rooms : txCursor'[q] >= txCursor[q]
            /\ \A q \in Rooms \ {room} : txCursor'[q] = txCursor[q]
            /\ txCursor'[room] \in {txCursor[room], last}
        BY <1>2, <1>3, <2>2 DEF SetCursor, MaxOf
      <3>2. /\ txCursor'[room] >= txCursor[room]
            /\ txCursor'[room] <= n
        BY <1>2, <1>3, <3>1
      <3>3. QED
        BY <3>1, <3>2
    <2>3. QED
      BY <2>1, <2>2
  <1>9. ASSUME NEW s \in 1..n,
               \/ s <= txCursor'[room] \/ s <= lastSeq'
               \/ \E t \in batch' : s <= t /\ Numbered(t)
        PROVE  s <= txCursor[room] \/ s \in batch' \/ Covered(txEvals, room, s)'
    <2> SUFFICES ASSUME ~(s <= txCursor[room]), s \notin got
                 PROVE  Covered(txEvals, room, s)'
      BY <1>5
    <2>1. s \in New \ got
      BY <1>2, <1>4
    <2>2. s <= last \/ \E u \in got : s < u /\ Numbered(u)
      <3>1. CASE s <= txCursor'[room] \/ s <= lastSeq'
        BY <1>5, <1>8, <3>1
      <3>2. CASE \E t \in batch' : s <= t /\ Numbered(t)
        <4>1. PICK t \in got : s <= t /\ Numbered(t)
          BY <1>5, <3>2
        <4>2. t \in 1..n /\ t # s
          BY <1>4, <2>1
        <4>3. s < t
          BY <1>2, <4>1, <4>2
        <4>4. QED
          BY <4>1, <4>3
      <3>3. QED
        BY <1>9, <3>1, <3>2
    <2>3. <<room, s>> \in missed'
      BY <1>6, <2>1, <2>2
    <2>4. QED
      BY <2>3 DEF Covered
  <1>10. QED
    BY <1>1, <1>2, <1>3, <1>4, <1>5, <1>7, <1>8, <1>9, ResponseInv

\* A batch that is read, and the cursor that read_room moves, keep the invariant (ReadRoom).
LEMMA ReadRoomInv ==
    ASSUME ScorerInv, ReadRoom
    PROVE  ScorerInv'
  <1>1. PICK got \in SUBSET New, last \in since..Len(log[room]) :
          /\ Receive(got, last)
          /\ \/ ~broken /\ txCursor' = SetCursor(txCursor, room, last) /\ UNCHANGED <<broken, faults>>
             \/ ~broken /\ broken' = TRUE /\ Fault /\ UNCHANGED txCursor
             \/ broken /\ UNCHANGED <<txCursor, broken, faults>>
    BY DEF ReadRoom
  <1>2. /\ txCursor' \in {txCursor, SetCursor(txCursor, room, last)}
        /\ broken' \in BOOLEAN
        /\ Fault \/ UNCHANGED faults
    BY <1>1 DEF ScorerInv, TypeOK
  <1>3. /\ pc = "read"
        /\ UNCHANGED <<log, posts, db, txEvals, discovered, todo, room, since, alerts, dropped, restarts>>
    BY DEF ReadRoom
  <1>4. QED
    BY <1>1, <1>2, <1>3, ReceiveInv

\* An answer that leaves out messages, or has none, keeps the invariant (ReadPartly).
LEMMA ReadPartlyInv ==
    ASSUME ScorerInv, ReadPartly
    PROVE  ScorerInv'
  <1>1. PICK got \in SUBSET New : Receive(got, since)
    BY DEF ReadPartly
  <1>2. /\ pc = "read" /\ Fault /\ broken' = broken
        /\ txCursor' \in {txCursor, SetCursor(txCursor, room, since)}
        /\ UNCHANGED <<log, posts, db, txEvals, discovered, todo, room, since, alerts, dropped, restarts>>
    BY DEF ReadPartly
  <1>3. since \in since..Len(log[room]) /\ broken' \in BOOLEAN
    BY <1>2 DEF ScorerInv, TypeOK, NumbersInv
  <1>4. QED
    BY <1>1, <1>2, <1>3, ReceiveInv

\* The next room is one that is to be read, and the locals are reset.
LEMMA NextRoomPlace ==
    ASSUME ScorerInv, NEW rooms \in SUBSET Scored, NextRoom(rooms)
    PROVE  /\ pc' \in {"sleep", "cursor"} /\ room' \in Rooms /\ todo' \subseteq Scored
           /\ since' = 0 /\ batch' = {} /\ lastSeq' = 0 /\ maxSeq' = 0
           /\ PlaceInv'
  <1>1. /\ pc' \in {"sleep", "cursor"} /\ room' \in Rooms /\ todo' \subseteq Scored
        /\ pc' = "sleep" => room' = Events
    BY RoomFacts DEF NextRoom
  <1>2. PlaceInv'
    BY <1>1 DEF PlaceInv
  <1>3. QED
    BY <1>1, <1>2 DEF NextRoom

\* A read without a response keeps the invariant (ReadFails, ReadTooLarge).
LEMMA NoResponseInv ==
    ASSUME ScorerInv, ReadFails \/ ReadTooLarge
    PROVE  ScorerInv'
  <1>1. RoomsAfter \in SUBSET Scored
    BY RoomFacts DEF RoomsAfter, ScorerInv, TypeOK
  <1>2. /\ \E rooms \in SUBSET Scored : NextRoom(rooms)
        /\ Fault \/ UNCHANGED faults
        /\ pc = "read"
        /\ UNCHANGED <<log, posts, db, session, discovered, alerts, dropped, missed, restarts>>
    BY <1>1 DEF ReadFails, ReadTooLarge
  <1>3. /\ pc' \in {"sleep", "cursor"} /\ room' \in Rooms /\ todo' \subseteq Scored
        /\ since' = 0 /\ batch' = {} /\ lastSeq' = 0 /\ maxSeq' = 0
        /\ PlaceInv'
    BY <1>1, <1>2, NextRoomPlace
  <1>4. faults' \in 0..MaxTroubles /\ faults' \in Nat /\ faults' >= faults
    BY <1>2, FaultCounts DEF ScorerInv
  <1>5. TypeOK'
    BY <1>2, <1>3, <1>4 DEF ScorerInv, TypeOK
  <1>6. NumbersInv'
    BY <1>2, <1>3 DEF ScorerInv, TypeOK, NumbersInv
  <1>7. SessionInv'
    BY <1>2 DEF ScorerInv, SessionInv
  <1>8. CoverInv'
    BY <1>2, <1>3 DEF ScorerInv, CoverInv, CursorCoversEvaluations, Covered, Scorable
  <1>9. AlertsAreEarned'
    <2>1. restarts' = restarts /\ restarts' \in Nat /\ restarts' >= restarts
      BY <1>2 DEF ScorerInv, TypeOK
    <2>2. QED
      BY <1>2, <1>4, <2>1, AlertsStay
  <1>10. QED
    BY <1>3, <1>5, <1>6, <1>7, <1>8, <1>9 DEF ScorerInv

\* A store at the end of a room.
LEMMA RoomEnds ==
    ASSUME ScorerInv, NEW cursors \in [Rooms -> Nat], Store(cursors),
           NEW rooms \in SUBSET Scored, NextRoom(rooms),
           \A r \in Rooms : txCursor[r] <= cursors[r] /\ cursors[r] <= Len(log[r]),
           \A r \in Scored : \A s \in 1..cursors[r] : Covered(txEvals, r, s),
           discovered' \subseteq Announced,
           UNCHANGED <<log, dropped, missed, alerts, posts, restarts>>
    PROVE  /\ ScorerInv'
           /\ \A r \in Rooms : cursor'[r] >= cursor[r]
           /\ evals' \in {evals, txEvals}
  <1>1. /\ pc' \in {"sleep", "cursor"} /\ room' \in Rooms /\ todo' \subseteq Scored
        /\ since' = 0 /\ batch' = {} /\ lastSeq' = 0 /\ maxSeq' = 0
        /\ PlaceInv'
    BY NextRoomPlace
  <1>2. pc' # "score"
    BY <1>1
  <1>3. /\ cursor' \in [Rooms -> Nat] /\ txCursor' \in [Rooms -> Nat]
        /\ evals' \subseteq Evaluation /\ txEvals' \subseteq Evaluation
        /\ broken' \in BOOLEAN /\ faults' \in 0..MaxTroubles
        /\ \A r \in Rooms : cursor'[r] <= txCursor'[r] /\ txCursor'[r] <= Len(log'[r])
        /\ SessionInv' /\ CoverInv' /\ AlertsAreEarned'
        /\ \A r \in Rooms : cursor'[r] >= cursor[r]
        /\ evals' \in {evals, txEvals}
    BY <1>2, StoreStep
  <1>4. TypeOK'
    BY <1>1, <1>3 DEF ScorerInv, TypeOK, Evaluation
  <1>5. NumbersInv'
    BY <1>1, <1>3 DEF ScorerInv, TypeOK, NumbersInv
  <1>6. QED
    BY <1>1, <1>3, <1>4, <1>5 DEF ScorerInv

\* Taking up announced rooms keeps the invariant (Discover).
LEMMA DiscoverInv ==
    ASSUME ScorerInv, Discover
    PROVE  /\ ScorerInv'
           /\ \A r \in Rooms : cursor'[r] >= cursor[r]
           /\ evals' \in {evals, txEvals}
  <1> DEFINE cursors == SetCursor(txCursor, Events, lastSeq)
  <1> DEFINE rooms == Configured \cup discovered'
  <1>1. /\ pc = "discover" /\ room = Events /\ NextRoom(rooms)
        /\ UNCHANGED <<log, posts, alerts, dropped, restarts>>
    BY DEF Discover, ScorerInv, PlaceInv
  <1>2. discovered' \subseteq Announced /\ rooms \in SUBSET Scored
    BY RoomFacts DEF Discover, NamedRooms, ScorerInv, TypeOK
  <1>3. /\ txCursor \in [Rooms -> Nat] /\ cursor \in [Rooms -> Nat] /\ lastSeq \in Nat
        /\ lastSeq <= Len(log[Events])
        /\ \A r \in Rooms : Len(log[r]) \in Nat /\ txCursor[r] <= Len(log[r])
    BY <1>1 DEF ScorerInv, TypeOK, NumbersInv
  <1>4. \A r \in Scored : \A s \in 1..txCursor[r] : Covered(txEvals, r, s)
    BY <1>1 DEF ScorerInv, CoverInv
  <1>4a. missed \subseteq missed' /\ missed' \subseteq Rooms \X Nat
    <2>1. missed' = missed \cup {<<Events, i>> : i \in batch \ Legible}
      BY DEF Discover
    <2>2. missed \subseteq Rooms \X Nat /\ batch \subseteq Nat
      BY DEF ScorerInv, TypeOK
    <2>3. QED
      BY <2>1, <2>2, RoomFacts
  <1>5. CASE Store(cursors) /\ Legible = batch
    <2>0. missed' = missed
      BY <1>5 DEF Discover
    <2>1. cursors \in [Rooms -> Nat]
      BY <1>3, RoomFacts, SetCursorMoves
    <2>2. \A r \in Rooms : txCursor[r] <= cursors[r] /\ cursors[r] <= Len(log[r])
      BY <1>3, RoomFacts DEF SetCursor, MaxOf
    <2>3. \A r \in Scored : cursors[r] = txCursor[r]
      BY <1>3, RoomFacts DEF SetCursor
    <2>4. \A r \in Scored : \A s \in 1..cursors[r] : Covered(txEvals, r, s)
      BY <1>4, <2>3
    <2> HIDE DEF cursors, rooms
    <2>5. QED
      BY <1>1, <1>2, <1>5, <2>0, <2>1, <2>2, <2>4, RoomEnds
  <1>6. CASE UNCHANGED <<db, session, faults>>
    <2> HIDE DEF rooms
    <2>1. /\ pc' \in {"sleep", "cursor"} /\ room' \in Rooms /\ todo' \subseteq Scored
          /\ since' = 0 /\ batch' = {} /\ lastSeq' = 0 /\ maxSeq' = 0
          /\ PlaceInv'
      BY <1>1, <1>2, NextRoomPlace
    <2>2. TypeOK'
      BY <1>1, <1>2, <1>4a, <1>6, <2>1 DEF ScorerInv, TypeOK
    <2>3. NumbersInv'
      BY <1>1, <1>6, <2>1 DEF ScorerInv, TypeOK, NumbersInv
    <2>4. SessionInv'
      BY <1>1, <1>6, <2>1 DEF ScorerInv, SessionInv
    <2>5. CoverInv'
      BY <1>1, <1>4a, <1>6, <2>1 DEF ScorerInv, CoverInv, CursorCoversEvaluations, Covered, Scorable
    <2>6. AlertsAreEarned'
      BY <1>1, <1>6 DEF ScorerInv, AlertsAreEarned
    <2>7. QED
      BY <1>3, <1>6, <2>1, <2>2, <2>3, <2>4, <2>5, <2>6 DEF ScorerInv
  <1>7. QED
    BY <1>5, <1>6 DEF Discover

\* The commit after a room makes the session's cursor and evaluations the stored ones (Save).
LEMMA SaveInv ==
    ASSUME ScorerInv, Save
    PROVE  /\ ScorerInv'
           /\ \A r \in Rooms : cursor'[r] >= cursor[r]
           /\ evals' \in {evals, txEvals}
  <1> DEFINE new == MaxOf(lastSeq, maxSeq)
  <1> DEFINE cursors == IF new > since THEN SetCursor(txCursor, room, new) ELSE txCursor
  <1>1. /\ pc = "score" /\ batch = {} /\ room \in Scored /\ NextRoom(todo) /\ Store(cursors)
        /\ UNCHANGED <<log, posts, discovered, alerts, dropped, missed, restarts>>
    BY DEF Save, ScorerInv, PlaceInv
  <1>2. todo \in SUBSET Scored /\ discovered' \subseteq Announced
    BY <1>1 DEF ScorerInv, TypeOK
  <1>3. /\ txCursor \in [Rooms -> Nat] /\ room \in Rooms
        /\ lastSeq \in Nat /\ lastSeq <= Len(log[room])
        /\ maxSeq \in Nat /\ maxSeq <= Len(log[room])
        /\ \A r \in Rooms : Len(log[r]) \in Nat /\ txCursor[r] <= Len(log[r])
    BY DEF ScorerInv, TypeOK, NumbersInv
  <1>4. new \in {lastSeq, maxSeq}
    BY DEF MaxOf
  <1> HIDE DEF new
  <1>5. cursors \in [Rooms -> Nat]
    BY <1>3, <1>4, SetCursorMoves
  <1>6. /\ \A r \in Rooms \ {room} : cursors[r] = txCursor[r]
        /\ cursors[room] \in {txCursor[room], lastSeq, maxSeq}
        /\ cursors[room] >= txCursor[room]
    BY <1>3, <1>4 DEF SetCursor, MaxOf
  <1> HIDE DEF cursors
  <1>7. \A r \in Rooms : txCursor[r] <= cursors[r] /\ cursors[r] <= Len(log[r])
    BY <1>3, <1>6
  <1>8. ASSUME NEW r \in Scored, NEW s \in 1..cursors[r]
        PROVE  Covered(txEvals, r, s)
    <2>1. r \in Rooms /\ s \in Nat /\ s <= cursors[r]
      BY <1>5, RoomFacts
    <2>2. CASE r = room
      <3>1. s <= txCursor[room] \/ s <= lastSeq \/ s <= maxSeq
        BY <1>6, <2>1, <2>2
      <3>2. QED
        BY <1>1, <2>1, <2>2, <3>1 DEF ScorerInv, CoverInv
    <2>3. CASE r # room
      BY <1>6, <2>1, <2>3 DEF ScorerInv, CoverInv
    <2>4. QED
      BY <2>2, <2>3
  <1>9. QED
    BY <1>1, <1>2, <1>5, <1>7, <1>8, RoomEnds

-----------------------------------------------------------------------------
(***************************************************************************)
(* Scoring                                                                 *)
(***************************************************************************)
\* The message in hand is one of the server's, of a room that is scored.
LEMMA HandFacts ==
    ASSUME ScorerInv, pc = "score", batch # {}
    PROVE  /\ InHand \in batch /\ InHand \in Nat /\ InHand \in 1..Len(log[room])
           /\ room \in Scored /\ room \in Rooms /\ <<room, InHand>> \in Messages
  <1>1. InHand \in batch
    BY InHandInBatch DEF ScorerInv, TypeOK
  <1>2. room \in Scored /\ room \in Rooms
    BY DEF ScorerInv, PlaceInv, TypeOK
  <1>3. /\ Len(log[room]) \in Nat /\ Len(log[room]) <= posts /\ posts \in Nat /\ posts <= MaxPosts
        /\ batch \subseteq 1..Len(log[room])
    BY <1>2, ScorerAssumption DEF ScorerInv, TypeOK, NumbersInv
  <1>4. InHand \in 1..MaxPosts
    BY <1>1, <1>3, ScorerAssumption
  <1>5. QED
    BY <1>1, <1>2, <1>3, <1>4 DEF Messages

\* A message is done: it has its evaluation or needs none, and no message lost its own.
LEMMA MessageDone ==
    ASSUME ScorerInv, NEW hand, hand = InHand,
           pc = "score", batch # {}, Passes(hand), batch' = batch \ {hand},
           UNCHANGED <<pc, room, log, posts, since, lastSeq, cursor, evals, missed>>,
           txCursor' \in {cursor, txCursor}, dropped \subseteq dropped',
           \A r \in Scored : \A s \in Nat : Covered(txEvals, r, s) => Covered(txEvals, r, s)',
           Covered(txEvals, room, hand)'
    PROVE  maxSeq' \in Nat /\ NumbersInv' /\ PlaceInv' /\ CoverInv'
  <1>1. /\ hand \in batch /\ hand \in Nat /\ hand <= Len(log[room])
        /\ room \in Scored /\ room \in Rooms
    BY HandFacts
  <1>2. maxSeq' = maxSeq \/ (maxSeq' = hand /\ Numbered(hand))
    BY DEF Passes, MaxOf, Numbered
  <1>3. batch' = batch \ {hand} /\ Covered(txEvals, room, hand)' /\ room' = room
    OBVIOUS
  <1>4. maxSeq \in Nat /\ maxSeq <= Len(log[room])
    BY DEF ScorerInv, TypeOK, NumbersInv
  <1>5. \A r \in Rooms :
          /\ cursor[r] \in Nat /\ txCursor[r] \in Nat /\ Len(log[r]) \in Nat
          /\ cursor[r] <= txCursor[r] /\ txCursor[r] <= Len(log[r])
    BY DEF ScorerInv, TypeOK, NumbersInv
  <1>6. \A r \in Rooms : /\ cursor[r] <= txCursor'[r] /\ txCursor'[r] <= txCursor[r]
                         /\ txCursor'[r] <= Len(log[r]) /\ txCursor'[r] \in Nat
    BY <1>5
  <1>7. maxSeq' \in Nat /\ maxSeq' <= Len(log[room])
    BY <1>1, <1>2, <1>4
  <1>8. NumbersInv'
    BY <1>3, <1>6, <1>7 DEF ScorerInv, NumbersInv
  <1>9. PlaceInv'
    BY DEF ScorerInv, PlaceInv
  <1>10. CursorCoversEvaluations'
    BY DEF ScorerInv, CoverInv, CursorCoversEvaluations, Scorable
  <1>11. ASSUME NEW r \in Scored, NEW s \in 1..txCursor'[r], r # room
         PROVE  Covered(txEvals, r, s)'
    <2>1. s \in 1..txCursor[r] /\ s \in Nat
      BY <1>6, <1>5, RoomFacts
    <2>2. Covered(txEvals, r, s)
      BY <1>11, <2>1 DEF ScorerInv, CoverInv
    <2>3. QED
      BY <2>1, <2>2
  <1>12. ASSUME NEW s \in Nat,
                \/ s <= txCursor'[room] \/ s <= lastSeq \/ s <= maxSeq'
                \/ \E t \in batch' : s <= t /\ Numbered(t),
                s \notin batch'
         PROVE  Covered(txEvals, room, s)'
    <2>1. CASE s = hand
      BY <1>3, <2>1
    <2>2. CASE s # hand
      <3>1. s \notin batch
        BY <1>3, <1>12, <2>2
      <3>2. \/ s <= txCursor[room] \/ s <= lastSeq \/ s <= maxSeq
            \/ \E t \in batch : s <= t /\ Numbered(t)
        BY <1>1, <1>2, <1>3, <1>5, <1>6, <1>12
      <3>3. Covered(txEvals, room, s)
        BY <3>1, <3>2 DEF ScorerInv, CoverInv
      <3>4. QED
        BY <1>1, <3>3
    <2>3. QED
      BY <2>1, <2>2
  <1>13. CoverInv'
    BY <1>10, <1>11, <1>12 DEF CoverInv, Numbered
  <1>14. QED
    BY <1>7, <1>8, <1>9, <1>13

\* A message that needs no evaluation leaves the batch (SkipMessage).
LEMMA SkipMessageInv ==
    ASSUME ScorerInv, SkipMessage
    PROVE  ScorerInv'
  <1>0. PICK hand : hand = InHand
    OBVIOUS
  <1>1. /\ pc = "score" /\ batch # {} /\ Passes(hand) /\ batch' = batch \ {hand}
        /\ log[room][hand] \in {"unnumbered", "malformed"} \/ Has(txEvals, room, hand)
        /\ UNCHANGED <<log, posts, db, session, discovered, pc, todo, room, since, lastSeq, alerts,
                       dropped, missed, faults, restarts>>
    BY <1>0 DEF SkipMessage
  <1>2. \A r, s : Covered(txEvals, r, s) => Covered(txEvals, r, s)'
    BY <1>1 DEF Covered, Scorable
  <1>3. Covered(txEvals, room, hand)'
    BY <1>1 DEF Covered, Scorable
  <1>4. maxSeq' \in Nat /\ NumbersInv' /\ PlaceInv' /\ CoverInv'
    BY <1>0, <1>1, <1>2, <1>3, MessageDone
  <1>5. TypeOK'
    BY <1>1, <1>4 DEF ScorerInv, TypeOK
  <1>6. SessionInv'
    BY <1>1 DEF ScorerInv, SessionInv
  <1>7. AlertsAreEarned'
    BY <1>1 DEF ScorerInv, AlertsAreEarned
  <1>8. QED
    BY <1>4, <1>5, <1>6, <1>7 DEF ScorerInv

\* The alert that leaves is the one that the evaluation in the session accounts for.
LEMMA ScoreMessageInv ==
    ASSUME ScorerInv, ScoreMessage
    PROVE  ScorerInv'
  <1>0. PICK hand : hand = InHand
    OBVIOUS
  <1>1. /\ pc = "score" /\ batch # {} /\ Passes(hand) /\ batch' = batch \ {hand}
        /\ ~broken /\ ~Has(txEvals, room, hand)
        /\ UNCHANGED <<log, posts, db, txCursor, broken, discovered, pc, todo, room, since, lastSeq,
                       dropped, missed, faults, restarts>>
    BY <1>0 DEF ScoreMessage
  <1>2. PICK tier \in PossibleTiers(log[room][hand]) :
          /\ txEvals' = txEvals \cup {<<room, hand, tier>>}
          /\ \/ alerts' = alerts
             \/ tier \in ALERT_TIERS /\ alerts' = [alerts EXCEPT ![<<room, hand>>] = @ + 1]
    BY <1>0 DEF ScoreMessage
  <1>3. tier \in VALID_TIERS
    BY <1>2, TiersAreValid
  <1>4. hand \in Nat /\ room \in Scored /\ <<room, hand>> \in Messages
    BY <1>0, <1>1, HandFacts
  <1>5. \A r, s : Has(txEvals, r, s) => Has(txEvals', r, s)
    BY <1>2 DEF Has
  <1>6. \A r, s : Covered(txEvals, r, s) => Covered(txEvals, r, s)'
    BY <1>1, <1>5 DEF Covered, Scorable
  <1>7. Has(txEvals', room, hand)
    <2> DEFINE e == <<room, hand, tier>>
    <2>1. e \in txEvals' /\ e[1] = room /\ e[2] = hand
      BY <1>2
    <2>2. QED
      BY <2>1 DEF Has
  <1>8. Covered(txEvals, room, hand)'
    BY <1>1, <1>7 DEF Covered
  <1>9. maxSeq' \in Nat /\ NumbersInv' /\ PlaceInv' /\ CoverInv'
    BY <1>0, <1>1, <1>6, <1>8, MessageDone
  <1>10. alerts' \in [Messages -> Nat]
    <2>1. alerts \in [Messages -> Nat]
      BY DEF ScorerInv, TypeOK
    <2>2. QED
      BY <1>2, <1>4, <2>1
  <1>11. TypeOK'
    <2>1. TypeOK
      BY DEF ScorerInv
    <2>2. txEvals' \subseteq Scored \X Nat \X VALID_TIERS
      BY <1>2, <1>3, <1>4, <2>1 DEF TypeOK
    <2>3. QED
      BY <1>1, <1>9, <1>10, <2>1, <2>2 DEF TypeOK
  <1>12. SessionInv'
    <2>1. evals \subseteq txEvals /\ \A e \in txEvals \ evals : ~Has(evals, e[1], e[2])
      BY DEF ScorerInv, SessionInv
    <2>2. ~Has(evals, room, hand)
      BY <1>1, <2>1, HasGrows
    <2>3. \A e \in txEvals' \ evals : ~Has(evals, e[1], e[2])
      BY <1>2, <2>1, <2>2
    <2>4. QED
      BY <1>1, <1>2, <2>1, <2>3 DEF SessionInv
  <1>13. \A m \in Messages : alerts[m] \in Nat /\ alerts'[m] \in Nat /\ alerts'[m] >= alerts[m]
    <2>1. alerts \in [Messages -> Nat]
      BY DEF ScorerInv, TypeOK
    <2>2. QED
      BY <1>2, <1>4, <2>1
  <1>14. \A m : Risky(txEvals, m) => Risky(txEvals', m)
    BY <1>2 DEF Risky
  <1>15. ASSUME NEW m \in Messages
         PROVE  alerts'[m] <= faults' + restarts' + (IF Risky(txEvals', m) THEN 1 ELSE 0)
    <2>1. /\ alerts[m] \in Nat /\ faults \in Nat /\ restarts \in Nat
          /\ faults' = faults /\ restarts' = restarts
      BY <1>1 DEF ScorerInv, TypeOK
    <2>2. alerts[m] <= faults + restarts + (IF Risky(txEvals, m) THEN 1 ELSE 0)
      BY DEF ScorerInv, AlertsAreEarned
    <2>3. CASE alerts'[m] = alerts[m]
      <3>1. CASE Risky(txEvals, m)
        BY <1>14, <2>1, <2>2, <2>3, <3>1
      <3>2. CASE ~Risky(txEvals, m)
        BY <2>1, <2>2, <2>3, <3>2
      <3>3. QED
        BY <3>1, <3>2
    <2>4. CASE alerts'[m] # alerts[m]
      <3>1. /\ tier \in ALERT_TIERS /\ m = <<room, hand>>
            /\ alerts'[m] = alerts[m] + 1
        BY <1>2, <1>4, <2>4 DEF ScorerInv, TypeOK
      <3>2. ~Risky(txEvals, m)
        BY <1>1, <3>1 DEF Risky, Has
      <3>3. Risky(txEvals', m)
        <4> DEFINE e == <<room, hand, tier>>
        <4>1. e \in txEvals' /\ e[1] = m[1] /\ e[2] = m[2] /\ e[3] = tier
          BY <1>2, <3>1
        <4>2. QED
          BY <3>1, <4>1 DEF Risky
      <3>4. QED
        BY <2>1, <2>2, <3>1, <3>2, <3>3
    <2>5. QED
      BY <2>3, <2>4
  <1>16. AlertsAreEarned'
    BY <1>15 DEF AlertsAreEarned
  <1>17. QED
    BY <1>9, <1>11, <1>12, <1>16 DEF ScorerInv

\* The rollback takes back the evaluations of the batch, which all become dropped.
LEMMA StatementFailsInv ==
    ASSUME ScorerInv, StatementFails
    PROVE  ScorerInv'
  <1>0. PICK hand : hand = InHand
    OBVIOUS
  <1>1. /\ pc = "score" /\ batch # {} /\ Passes(hand) /\ batch' = batch \ {hand}
        /\ Rollback /\ ((broken /\ UNCHANGED faults) \/ Fault)
        /\ dropped' = dropped \cup {<<room, hand>>} \cup {<<e[1], e[2]>> : e \in txEvals \ evals}
        /\ UNCHANGED <<log, posts, db, discovered, pc, todo, room, since, lastSeq, alerts, missed, restarts>>
    BY <1>0 DEF StatementFails
  <1>2. hand \in Nat /\ room \in Scored
    BY <1>0, <1>1, HandFacts
  <1>3. txCursor' = cursor /\ txEvals' = evals /\ broken' = FALSE
    BY <1>1 DEF Rollback
  <1>4. ASSUME NEW r \in Scored, NEW s \in Nat, Covered(txEvals, r, s)
        PROVE  Covered(txEvals, r, s)'
    <2>1. CASE Has(txEvals, r, s)
      <3>1. PICK e \in txEvals : e[1] = r /\ e[2] = s
        BY <2>1 DEF Has
      <3>2. CASE e \in evals
        BY <1>3, <3>1, <3>2 DEF Covered, Has
      <3>3. CASE e \notin evals
        <4>1. <<r, s>> \in dropped'
          BY <1>1, <3>1, <3>3
        <4>2. QED
          BY <4>1 DEF Covered
      <3>4. QED
        BY <3>2, <3>3
    <2>2. CASE ~Has(txEvals, r, s)
      BY <1>1, <1>4, <2>2 DEF Covered, Scorable
    <2>3. QED
      BY <2>1, <2>2
  <1>5. Covered(txEvals, room, hand)'
    <2>1. <<room, hand>> \in dropped' /\ room' = room
      BY <1>1
    <2>2. QED
      BY <2>1 DEF Covered
  <1>6. maxSeq' \in Nat /\ NumbersInv' /\ PlaceInv' /\ CoverInv'
    <2>1. txCursor' \in {cursor, txCursor} /\ dropped \subseteq dropped'
      BY <1>1, <1>3
    <2>2. QED
      BY <1>0, <1>1, <1>4, <1>5, <2>1, MessageDone
  <1>7. faults' \in 0..MaxTroubles /\ faults' \in Nat /\ faults' >= faults
    BY <1>1, FaultCounts DEF ScorerInv
  <1>8. TypeOK'
    <2>1. TypeOK
      BY DEF ScorerInv
    <2>2. {<<e[1], e[2]>> : e \in txEvals \ evals} \subseteq Scored \X Nat
      BY <2>1 DEF TypeOK
    <2>3. dropped' \subseteq Scored \X Nat
      BY <1>1, <1>2, <2>1, <2>2 DEF TypeOK
    <2>4. QED
      BY <1>1, <1>3, <1>6, <1>7, <2>1, <2>3 DEF TypeOK
  <1>9. SessionInv'
    BY <1>1, <1>3 DEF SessionInv, Has
  <1>10. AlertsAreEarned'
    <2>1. restarts' = restarts /\ restarts' \in Nat /\ restarts' >= restarts
      BY <1>1 DEF ScorerInv, TypeOK
    <2>2. txEvals = evals \/ faults' + restarts' > faults + restarts
      BY <1>1, ScorerAssumption DEF Fault, Trouble, ScorerInv, TypeOK, SessionInv
    <2>3. QED
      BY <1>1, <1>7, <2>1, <2>2, RollbackAlerts
  <1>11. QED
    BY <1>6, <1>8, <1>9, <1>10 DEF ScorerInv

-----------------------------------------------------------------------------
(***************************************************************************)
(* Environment                                                             *)
(***************************************************************************)
\* A new message is later than every number the poller keeps.
LEMMA PostInv ==
    ASSUME ScorerInv, NEW r \in Rooms, NEW kind \in Kinds \cup Announced \cup {"garbled"}, Post(r, kind)
    PROVE  ScorerInv'
  <1>1. /\ posts' = posts + 1 /\ posts < MaxPosts /\ log' = [log EXCEPT ![r] = Append(@, kind)]
        /\ UNCHANGED <<db, session, discovered, pc, local, alerts, dropped, missed, faults, restarts>>
    BY DEF Post
  <1>2. /\ log \in [Rooms -> Seq(Kinds \cup Announced \cup {"garbled"})] /\ posts \in Nat /\ posts' \in 0..MaxPosts
    BY <1>1, ScorerAssumption DEF ScorerInv, TypeOK
  <1>3. log' \in [Rooms -> Seq(Kinds \cup Announced \cup {"garbled"})]
    BY <1>1, <1>2
  <1>4. ASSUME NEW q \in Rooms
        PROVE  /\ Len(log[q]) \in Nat /\ Len(log'[q]) \in Nat
               /\ Len(log'[q]) >= Len(log[q]) /\ Len(log'[q]) <= Len(log[q]) + 1
               /\ \A s \in 1..Len(log[q]) : log'[q][s] = log[q][s]
    <2>1. log[q] \in Seq(Kinds \cup Announced \cup {"garbled"})
      BY <1>2
    <2>2. CASE q = r
      <3>1. log'[q] = Append(log[q], kind)
        BY <1>1, <1>2, <2>2
      <3>2. QED
        BY <2>1, <3>1
    <2>3. CASE q # r
      BY <1>1, <1>2, <2>1, <2>3
    <2>4. QED
      BY <2>2, <2>3
  <1>5. TypeOK'
    BY <1>1, <1>2, <1>3 DEF ScorerInv, TypeOK
  <1>6. NumbersInv'
    <2>1. \A q \in Rooms : Len(log'[q]) <= posts'
      BY <1>1, <1>2, <1>4 DEF ScorerInv, NumbersInv
    <2>2. \A q \in Rooms : cursor[q] <= txCursor[q] /\ txCursor[q] <= Len(log'[q])
      <3> SUFFICES ASSUME NEW q \in Rooms
                   PROVE  cursor[q] <= txCursor[q] /\ txCursor[q] <= Len(log'[q])
        OBVIOUS
      <3>1. /\ txCursor[q] \in Nat /\ cursor[q] <= txCursor[q] /\ txCursor[q] <= Len(log[q])
        BY DEF ScorerInv, TypeOK, NumbersInv
      <3>2. QED
        BY <1>4, <3>1
    <2>3. /\ since <= Len(log'[room]) /\ lastSeq <= Len(log'[room]) /\ maxSeq <= Len(log'[room])
          /\ batch \subseteq 1..Len(log'[room])
      <3>1. /\ room \in Rooms /\ since \in Nat /\ lastSeq \in Nat /\ maxSeq \in Nat
            /\ since <= Len(log[room]) /\ lastSeq <= Len(log[room]) /\ maxSeq <= Len(log[room])
            /\ batch \subseteq 1..Len(log[room])
        BY DEF ScorerInv, TypeOK, NumbersInv
      <3>2. QED
        BY <1>4, <3>1
    <2>4. QED
      BY <1>1, <2>1, <2>2, <2>3 DEF NumbersInv
  <1>7. PlaceInv'
    BY <1>1 DEF ScorerInv, PlaceInv
  <1>8. SessionInv'
    BY <1>1 DEF ScorerInv, SessionInv
  <1>9. \A q \in Rooms : \A s \in Nat :
          s <= Len(log[q]) => (Scorable(q, s)' <=> Scorable(q, s))
    BY <1>4 DEF Scorable
  <1>10. CursorCoversEvaluations'
    <2> SUFFICES ASSUME NEW q \in Scored, NEW s \in 1..cursor[q], Scorable(q, s)'
                 PROVE  Has(evals, q, s) \/ <<q, s>> \in dropped \/ <<q, s>> \in missed
      BY <1>1 DEF CursorCoversEvaluations
    <2>1. /\ q \in Rooms /\ cursor[q] \in Nat /\ txCursor[q] \in Nat /\ Len(log[q]) \in Nat
          /\ cursor[q] <= txCursor[q] /\ txCursor[q] <= Len(log[q])
      BY <1>4, RoomFacts DEF ScorerInv, TypeOK, NumbersInv
    <2>2. s \in Nat /\ s <= Len(log[q])
      BY <2>1
    <2>3. Scorable(q, s)
      BY <1>9, <2>1, <2>2
    <2>4. QED
      BY <2>3 DEF ScorerInv, CoverInv, CursorCoversEvaluations
  <1>11. ASSUME NEW q \in Rooms, NEW s \in Nat, s <= Len(log[q]), Covered(txEvals, q, s)
         PROVE  Covered(txEvals, q, s)'
    BY <1>1, <1>9, <1>11 DEF Covered
  <1>12. ASSUME NEW q \in Scored, NEW s \in 1..txCursor[q], ~(pc = "score" /\ q = room)
         PROVE  Covered(txEvals, q, s)'
    <2>1. /\ q \in Rooms /\ txCursor[q] \in Nat /\ Len(log[q]) \in Nat /\ txCursor[q] <= Len(log[q])
      BY <1>4, RoomFacts DEF ScorerInv, TypeOK, NumbersInv
    <2>2. s \in Nat /\ s <= Len(log[q])
      BY <2>1
    <2>3. Covered(txEvals, q, s)
      BY <1>12 DEF ScorerInv, CoverInv
    <2>4. QED
      BY <1>11, <2>1, <2>2, <2>3
  <1>13. ASSUME pc = "score", NEW s \in Nat,
                \/ s <= txCursor[room] \/ s <= lastSeq \/ s <= maxSeq
                \/ \E t \in batch : s <= t /\ Numbered(t),
                s \notin batch
         PROVE  Covered(txEvals, room, s)'
    <2>1. /\ room \in Rooms /\ txCursor[room] \in Nat /\ lastSeq \in Nat /\ maxSeq \in Nat
          /\ Len(log[room]) \in Nat /\ txCursor[room] <= Len(log[room])
          /\ lastSeq <= Len(log[room]) /\ maxSeq <= Len(log[room])
          /\ batch \subseteq 1..Len(log[room])
      BY <1>4 DEF ScorerInv, TypeOK, NumbersInv
    <2>2. s <= Len(log[room])
      BY <1>13, <2>1
    <2>3. Covered(txEvals, room, s)
      BY <1>13 DEF ScorerInv, CoverInv
    <2>4. room' = room
      BY <1>1
    <2>5. QED
      BY <1>11, <2>1, <2>2, <2>3, <2>4
  <1>14. CoverInv'
    <2>1. \A t \in batch : Numbered(t)' <=> Numbered(t)
      <3>1. room' = room /\ room \in Rooms /\ batch \subseteq 1..Len(log[room])
        BY <1>1 DEF ScorerInv, TypeOK, NumbersInv
      <3>2. QED
        BY <1>4, <3>1 DEF Numbered
    <2>2. QED
      BY <1>1, <1>10, <1>12, <1>13, <2>1 DEF CoverInv
  <1>15. AlertsAreEarned'
    BY <1>1 DEF ScorerInv, AlertsAreEarned
  <1>16. QED
    BY <1>5, <1>6, <1>7, <1>8, <1>14, <1>15 DEF ScorerInv

\* A restart loses the session and the announced rooms only (Restart).
LEMMA RestartInv ==
    ASSUME ScorerInv, Restart
    PROVE  ScorerInv'
  <1>1. /\ restarts' = restarts + 1 /\ restarts' \in 0..MaxTroubles /\ restarts \in Nat
        /\ faults' = faults /\ faults \in Nat
    BY ScorerAssumption DEF Restart, Trouble, ScorerInv, TypeOK
  <1>2. TypeOK'
    BY <1>1, RoomFacts DEF Restart, Rollback, ScorerInv, TypeOK
  <1>3. NumbersInv'
    BY RoomFacts DEF Restart, Rollback, ScorerInv, TypeOK, NumbersInv
  <1>4. PlaceInv'
    BY DEF Restart, PlaceInv
  <1>5. SessionInv' /\ CoverInv'
    BY RollbackSession DEF Restart
  <1>6. AlertsAreEarned'
    <2>1. /\ faults' \in Nat /\ restarts' \in Nat /\ faults' >= faults /\ restarts' >= restarts
          /\ faults' + restarts' > faults + restarts
      BY <1>1
    <2>2. Rollback /\ UNCHANGED <<evals, alerts>>
      BY DEF Restart
    <2>3. QED
      BY <2>1, <2>2, RollbackAlerts
  <1>7. QED
    BY <1>2, <1>3, <1>4, <1>5, <1>6 DEF ScorerInv

-----------------------------------------------------------------------------
(***************************************************************************)
(* Theorems                                                                *)
(***************************************************************************)
LEMMA InitInv ==
    ASSUME Init
    PROVE  ScorerInv
  <1> USE DEF Init
  <1>1. TypeOK
    <2>1. log \in [Rooms -> Seq(Kinds \cup Announced \cup {"garbled"})]
      OBVIOUS
    <2>2. alerts \in [Messages -> Nat]
      OBVIOUS
    <2>3. cursor \in [Rooms -> Nat] /\ txCursor \in [Rooms -> Nat] /\ room \in Rooms
      BY RoomFacts
    <2>4. posts \in 0..MaxPosts /\ faults \in 0..MaxTroubles /\ restarts \in 0..MaxTroubles
      BY ScorerAssumption
    <2>5. QED
      BY <2>1, <2>2, <2>3, <2>4 DEF TypeOK
  <1>2. NumbersInv
    BY RoomFacts DEF NumbersInv
  <1>3. PlaceInv /\ SessionInv
    BY DEF PlaceInv, SessionInv
  <1>4. CoverInv
    BY RoomFacts DEF CoverInv, CursorCoversEvaluations
  <1>5. AlertsAreEarned
    BY DEF AlertsAreEarned, Has
  <1>6. QED
    BY <1>1, <1>2, <1>3, <1>4, <1>5 DEF ScorerInv

\* Every step keeps the invariant, and what it changes in the two tables it adds.
LEMMA NextInv ==
    ASSUME ScorerInv, [Next]_vars
    PROVE  /\ ScorerInv'
           /\ UNCHANGED db \/ (/\ \A r \in Rooms : cursor'[r] >= cursor[r]
                             /\ evals' \in {evals, txEvals})
  <1>1. CASE Wake
    BY <1>1, WakeInv DEF Wake
  <1>2. CASE GetCursor
    BY <1>2, GetCursorInv DEF GetCursor
  <1>3. CASE ReadRoom
    BY <1>3, ReadRoomInv DEF ReadRoom
  <1>4. CASE Discover
    BY <1>4, DiscoverInv
  <1>5. CASE SkipMessage
    BY <1>5, SkipMessageInv DEF SkipMessage
  <1>6. CASE ScoreMessage
    BY <1>6, ScoreMessageInv DEF ScoreMessage
  <1>7. CASE Save
    BY <1>7, SaveInv
  <1>8. CASE ReadPartly
    BY <1>8, ReadPartlyInv DEF ReadPartly
  <1>9. CASE ReadFails \/ ReadTooLarge
    BY <1>9, NoResponseInv DEF ReadFails, ReadTooLarge
  <1>10. CASE StatementFails
    BY <1>10, StatementFailsInv DEF StatementFails
  <1>11. ASSUME NEW r \in Scored, NEW k \in Kinds, Post(r, k)
         PROVE  ScorerInv' /\ UNCHANGED db
    BY <1>11, PostInv, RoomFacts DEF Post
  <1>12. ASSUME NEW r \in Announced \cup {"garbled"}, Post(Events, r)
         PROVE  ScorerInv' /\ UNCHANGED db
    BY <1>12, PostInv, RoomFacts DEF Post
  <1>13. CASE Restart
    BY <1>13, RestartInv DEF Restart
  <1>14. CASE UNCHANGED vars
    BY <1>14 DEF vars, ScorerInv, TypeOK, NumbersInv, PlaceInv, SessionInv, CoverInv,
                 CursorCoversEvaluations, Covered, Scorable, Numbered, AlertsAreEarned
  <1>15. QED
    BY <1>1, <1>2, <1>3, <1>4, <1>5, <1>6, <1>7, <1>8, <1>9, <1>10, <1>11, <1>12, <1>13, <1>14
       DEF Next, Poll

\* The invariant holds in every reachable state.
LEMMA Invariance == Spec => []ScorerInv
  <1>1. Init => ScorerInv
    BY InitInv
  <1>2. ScorerInv /\ [Next]_vars => ScorerInv'
    BY NextInv
  <1>3. QED
    BY <1>1, <1>2, PTL DEF Spec

\* The poller and its two tables keep their shape, and the alerts of every message stay
\* within the messages of the rooms (poll_once, whatever answers, fails or restarts).
THEOREM ScorerTypeCorrect == Spec => []TypeOK
  <1>1. ScorerInv => TypeOK
    BY DEF ScorerInv
  <1>2. QED
    BY <1>1, Invariance, PTL

\* Of the messages that responses bring, no restart, failing read, failing commit or reread
\* lets the stored cursor pass one that is not stored with it; only a failing statement of
\* the message's own batch does, and a gap in a response (set_cursor, the commit of
\* poll_once, advance_cursor_from_response).
THEOREM CursorCorrect == Spec => []CursorCoversEvaluations
  <1>1. ScorerInv => CursorCoversEvaluations
    BY DEF ScorerInv, CoverInv
  <1>2. QED
    BY <1>1, Invariance, PTL

\* Whether or not alerts get through: an alert that reached somebody and is not the one of
\* its message's risky evaluation is paid for by a failing statement or a restart, which
\* took back an evaluation after its alert had left (send_risk_alert before the commit).
THEOREM AlertsCorrect == Spec => []AlertsAreEarned
  <1>1. ScorerInv => AlertsAreEarned
    BY DEF ScorerInv
  <1>2. QED
    BY <1>1, Invariance, PTL

\* Cursors never go back and a stored evaluation is never replaced or doubled, although a
\* room may be read from the start (set_cursor, the duplicate guard of poll_once).
THEOREM StoredIsKeptCorrect == Spec => StoredIsKept
  <1> DEFINE Kept == /\ \A r \in Rooms : cursor'[r] >= cursor[r]
                     /\ evals \subseteq evals'
                     /\ \A e \in evals' \ evals : ~Has(evals, e[1], e[2])
  <1>1. ScorerInv /\ [Next]_vars => [Kept]_vars
    <2> SUFFICES ASSUME ScorerInv, [Next]_vars
                 PROVE  Kept
      OBVIOUS
    <2>1. \A r \in Rooms : cursor[r] \in Nat
      BY DEF ScorerInv, TypeOK
    <2>2. evals \subseteq txEvals /\ \A e \in txEvals \ evals : ~Has(evals, e[1], e[2])
      BY DEF ScorerInv, SessionInv
    <2>3. CASE UNCHANGED db
      BY <2>1, <2>3
    <2>4. CASE (\A r \in Rooms : cursor'[r] >= cursor[r]) /\ evals' \in {evals, txEvals}
      BY <2>2, <2>4
    <2>5. QED
      BY <2>3, <2>4, NextInv
  <1>2. QED
    BY <1>1, Invariance, PTL DEF Spec, StoredIsKept
=============================================================================
