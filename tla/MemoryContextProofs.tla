------------------------ MODULE MemoryContextProofs ------------------------
(***************************************************************************)
(* Theorems about MemoryContext, for any items, sessions, segments and     *)
(* budgets: what may be retrieved, and what the assembler makes of it.     *)
(***************************************************************************)
EXTENDS MemoryContext, FiniteSetTheorems, WellFoundedInduction, TLAPS

Buried == {"REJECTED", "EXPIRED", "SUPERSEDED"}
Burying == {"reject", "expire", "supersede"}

\* Whatever is in a status that retrieval allows, or about to be activated, was endorsed.
EndorsedInv ==
    /\ \A i \in Items : status[i] \in RETRIEVAL_ALLOWED_STATUSES => i \in endorsed
    /\ \A s \in Sessions : op[s] = "activate" => loaded[s] \subseteq endorsed

\* A buried item is in a status that no operation revives, and the sessions that have it in
\* hand keep it there.
BuriedInv ==
    \A i \in buried :
        /\ status[i] \in Buried
        /\ \A s \in Sessions : i \in loaded[s] => op[s] \in Burying

IInv == MemTypeOK /\ EndorsedInv /\ BuriedInv

-----------------------------------------------------------------------------
\* An outcome is a status, for every operation.
LEMMA OutcomeType ==
    ASSUME NEW o \in DOMAIN Outcome
    PROVE  Outcome[o] \in MemoryStatus
BY DEF Outcome, MemoryStatus

\* Every initial state satisfies the invariant (MemInit).
LEMMA MemInitInv == MemInit => IInv
BY MemoryAssumption
   DEF MemInit, IInv, MemTypeOK, EndorsedInv, BuriedInv, RETRIEVAL_ALLOWED_STATUSES, Outcome

\* Loading changes no row; it keeps the invariant if the items suit the operation.
LEMMA LoadInv ==
    ASSUME IInv, NEW s \in Sessions, NEW name \in DOMAIN Outcome, NEW items \in SUBSET Items,
           Load(s, name, items),
           name = "activate" => items \subseteq endorsed,
           \A i \in items : i \in buried => name \in Burying
    PROVE  IInv'
<1> USE DEF Load, rows, history
<1>1. MemTypeOK'
    BY DEF IInv, MemTypeOK
<1>2. EndorsedInv'
    BY DEF IInv, MemTypeOK, EndorsedInv
<1>3. BuriedInv'
    BY DEF IInv, MemTypeOK, BuriedInv
<1> QED BY <1>1, <1>2, <1>3 DEF IInv

\* The flush and commit of a session keep the invariant, whatever was written since it
\* loaded its rows (Write).
LEMMA WriteInv ==
    ASSUME IInv, NEW s \in Sessions, Write(s)
    PROVE  IInv'
<1> USE DEF Write
<1>1. op[s] \in DOMAIN Outcome
    BY DEF IInv, MemTypeOK
<1>2. MemTypeOK'
    <2>1. status' \in [Items -> MemoryStatus \cup {"none"}]
        BY <1>1, OutcomeType DEF IInv, MemTypeOK
    <2> QED BY <2>1 DEF IInv, MemTypeOK
<1>3. EndorsedInv'
    <2>1. ASSUME NEW i \in Items, status'[i] \in RETRIEVAL_ALLOWED_STATUSES
          PROVE  i \in endorsed'
        <3>1. CASE i \notin loaded[s]
            BY <2>1, <3>1 DEF IInv, MemTypeOK, EndorsedInv
        <3>2. CASE i \in loaded[s]
            <4>1. Outcome[op[s]] \in RETRIEVAL_ALLOWED_STATUSES
                BY <2>1, <3>2 DEF IInv, MemTypeOK
            <4>2. op[s] \in {"activate", "approve", "promote"}
                BY <1>1, <4>1 DEF Outcome, RETRIEVAL_ALLOWED_STATUSES
            <4> QED BY <3>2, <4>2 DEF IInv, MemTypeOK, EndorsedInv
        <3> QED BY <3>1, <3>2
    <2>2. ASSUME NEW t \in Sessions, op'[t] = "activate"
          PROVE  loaded'[t] \subseteq endorsed'
        BY <2>2 DEF IInv, MemTypeOK, EndorsedInv
    <2> QED BY <2>1, <2>2 DEF EndorsedInv
<1>4. BuriedInv'
    <2> SUFFICES ASSUME NEW i \in buried'
                 PROVE  /\ status'[i] \in Buried
                        /\ \A t \in Sessions : i \in loaded'[t] => op'[t] \in Burying
        BY DEF BuriedInv
    <2>0. i \in Items
        BY DEF IInv, MemTypeOK
    <2>1. CASE i \in buried
        <3>1. status'[i] \in Buried
            <4>1. CASE i \notin loaded[s]
                BY <2>0, <2>1, <4>1 DEF IInv, MemTypeOK, BuriedInv
            <4>2. CASE i \in loaded[s]
                <5>1. op[s] \in Burying
                    BY <2>1, <4>2 DEF IInv, BuriedInv
                <5>2. status'[i] = Outcome[op[s]]
                    BY <2>0, <4>2
                <5> QED BY <5>1, <5>2 DEF Burying, Buried, Outcome
            <4> QED BY <4>1, <4>2
        <3>2. ASSUME NEW t \in Sessions, i \in loaded'[t]
              PROVE  op'[t] \in Burying
            BY <2>1, <3>2 DEF IInv, MemTypeOK, BuriedInv
        <3> QED BY <3>1, <3>2
    <2>2. CASE i \notin buried
        <3>1. op[s] = "reject" /\ i \in loaded[s] /\ \A t \in Sessions \ {s} : i \notin loaded[t]
            BY <2>2
        <3>2. status'[i] = "REJECTED"
            BY <2>0, <3>1 DEF Outcome
        <3>3. \A t \in Sessions : i \notin loaded'[t]
            BY <3>1 DEF IInv, MemTypeOK
        <3> QED BY <3>2, <3>3 DEF Buried
    <2> QED BY <2>1, <2>2
<1> QED BY <1>2, <1>3, <1>4 DEF IInv

\* Every step keeps the invariant (MemNext).
LEMMA MemNextInv == IInv /\ [MemNext]_memVars => IInv'
<1> SUFFICES ASSUME IInv, [MemNext]_memVars PROVE IInv'
    OBVIOUS
<1>1. ASSUME NEW i \in Items, create_candidate(i)
      PROVE  IInv'
    <2>1. MemTypeOK'
        BY <1>1 DEF create_candidate, IInv, MemTypeOK, MemoryStatus, history
    <2>2. EndorsedInv'
        BY <1>1 DEF create_candidate, IInv, MemTypeOK, EndorsedInv, history,
                    RETRIEVAL_ALLOWED_STATUSES
    <2>3. BuriedInv'
        BY <1>1 DEF create_candidate, IInv, MemTypeOK, BuriedInv, Buried, history, Exists
    <2> QED BY <2>1, <2>2, <2>3 DEF IInv
<1>2. ASSUME NEW s \in Sessions, NEW i \in Items, mark_active(s, i)
      PROVE  IInv'
    <2> DEFINE items == {i} \cap {j \in Items : status[j] \in {"APPROVED", "AUTO_APPROVED"}}
    <2>1. items \subseteq endorsed /\ \A j \in items : j \notin buried
        BY DEF IInv, EndorsedInv, BuriedInv, Buried, RETRIEVAL_ALLOWED_STATUSES
    <2>2. Load(s, "activate", items) /\ items \in SUBSET Items
        BY <1>2 DEF mark_active
    <2>3. "activate" \in DOMAIN Outcome
        BY DEF Outcome
    <2> HIDE DEF items
    <2> QED BY <2>1, <2>2, <2>3, LoadInv
<1>3. ASSUME NEW s \in Sessions, NEW i \in Items, reject(s, i)
      PROVE  IInv'
    <2> DEFINE items == {i} \cap {j \in Items : status[j] # "REJECTED"}
    <2>1. Load(s, "reject", items) /\ items \in SUBSET Items
        BY <1>3 DEF reject
    <2>2. "reject" \in DOMAIN Outcome /\ "reject" \in Burying
        BY DEF Outcome, Burying
    <2> HIDE DEF items
    <2> QED BY <2>1, <2>2, LoadInv
<1>4. ASSUME NEW s \in Sessions, NEW i \in Items, approve(s, i)
      PROVE  IInv'
    <2>1. Load(s, "approve", {i}) /\ i \notin buried
        BY <1>4 DEF approve, IInv, BuriedInv, Buried
    <2>2. "approve" \in DOMAIN Outcome
        BY DEF Outcome
    <2> QED BY <2>1, <2>2, LoadInv
<1>5. ASSUME NEW s \in Sessions, NEW i \in Items, NEW j \in Items, supersede(s, i, j)
      PROVE  IInv'
    <2>1. Load(s, "supersede", {i})
        BY <1>5 DEF supersede
    <2>2. "supersede" \in DOMAIN Outcome /\ "supersede" \in Burying
        BY DEF Outcome, Burying
    <2> QED BY <2>1, <2>2, LoadInv
<1>6. ASSUME NEW s \in Sessions, auto_promote_candidates(s)
      PROVE  IInv'
    <2>1. Load(s, "promote", Promotable)
        BY <1>6 DEF auto_promote_candidates
    <2>2. Promotable \in SUBSET Items /\ \A i \in Promotable : i \notin buried
        BY MemoryAssumption DEF Promotable, IInv, BuriedInv, Buried
    <2>3. "promote" \in DOMAIN Outcome
        BY DEF Outcome
    <2> QED BY <2>1, <2>2, <2>3, LoadInv
<1>7. ASSUME NEW s \in Sessions, expire_sweep(s)
      PROVE  IInv'
    <2> DEFINE items == {i \in aged : Exists(i) /\ status[i] \notin {"EXPIRED", "SUPERSEDED"}}
    <2>1. Load(s, "expire", items)
        BY <1>7 DEF expire_sweep
    <2>2. items \in SUBSET Items
        BY MemoryAssumption DEF IInv, MemTypeOK
    <2>3. "expire" \in DOMAIN Outcome /\ "expire" \in Burying
        BY DEF Outcome, Burying
    <2> HIDE DEF items
    <2> QED BY <2>1, <2>2, <2>3, LoadInv
<1>8. ASSUME NEW i \in Items, Age(i)
      PROVE  IInv'
    <2>1. MemTypeOK'
        BY <1>8 DEF Age, IInv, MemTypeOK, rows, history
    <2>2. EndorsedInv' /\ BuriedInv'
        BY <1>8 DEF Age, IInv, EndorsedInv, BuriedInv, rows, history
    <2> QED BY <2>1, <2>2 DEF IInv
<1>9. CASE RunCompletes
    <2>1. MemTypeOK'
        BY <1>9, MemoryAssumption DEF RunCompletes, IInv, MemTypeOK, rows, history
    <2>2. EndorsedInv' /\ BuriedInv'
        BY <1>9 DEF RunCompletes, IInv, EndorsedInv, BuriedInv, rows, history
    <2> QED BY <2>1, <2>2 DEF IInv
<1>10. CASE UNCHANGED memVars
    <2> USE <1>10 DEF memVars, rows, history
    <2>1. MemTypeOK'
        BY DEF IInv, MemTypeOK
    <2>2. EndorsedInv' /\ BuriedInv'
        BY DEF IInv, EndorsedInv, BuriedInv
    <2> QED BY <2>1, <2>2 DEF IInv
<1> QED
    BY <1>1, <1>2, <1>3, <1>4, <1>5, <1>6, <1>7, <1>8, <1>9, <1>10, WriteInv DEF MemNext

\* The invariant holds in every reachable state.
LEMMA MemAlways == MemSpec => []IInv
BY MemInitInv, MemNextInv, PTL DEF MemSpec

-----------------------------------------------------------------------------
\* Items, sessions and histories keep their shape through every operation (MemoryService).
THEOREM MemTypeCorrect == MemSpec => []MemTypeOK
<1>1. IInv => MemTypeOK
    BY DEF IInv
<1> QED BY <1>1, MemAlways, PTL

\* Whatever sessions overlap, only what was promoted or approved as a candidate is ever
\* retrieved for a run (mark_active, auto_promote_candidates, search).
THEOREM MemoryIsEndorsed == MemSpec => []OnlyEndorsed
<1>1. IInv => OnlyEndorsed
    BY DEF IInv, EndorsedInv, OnlyEndorsed, Retrievable
<1> QED BY <1>1, MemAlways, PTL

\* What was rejected while nobody else had it in hand is never retrieved again, by any
\* sequence of promotions, activations and sweeps (reject).
THEOREM RejectionIsFinal == MemSpec => []RejectionSticks
<1>1. IInv => RejectionSticks
    BY DEF IInv, BuriedInv, Buried, RejectionSticks, Retrievable, RETRIEVAL_ALLOWED_STATUSES
<1> QED BY <1>1, MemAlways, PTL

-----------------------------------------------------------------------------
(***************************************************************************)
(* Numbers                                                                 *)
(***************************************************************************)
\* A set of natural numbers that is not empty has a least element.
LEMMA Least ==
    ASSUME NEW S \in SUBSET Nat, S # {}
    PROVE  \E m \in S : \A n \in S : m <= n
<1> DEFINE R == OpToRel(<, Nat)
<1>1. IsWellFoundedOn(R, Nat)
    BY NatLessThanWellFounded
<1>2. R = {pair \in Nat \X Nat : pair[1] < pair[2]}
    BY DEF OpToRel
<1> HIDE DEF R
<1>3. PICK m \in S : \A n \in S : <<n, m>> \notin R
    BY <1>1, WFMin
<1>4. ASSUME NEW n \in S, n < m
      PROVE  FALSE
    <2> DEFINE pair == <<n, m>>
    <2>1. pair \in Nat \X Nat /\ pair[1] = n /\ pair[2] = m
        OBVIOUS
    <2>2. pair \notin R
        BY <1>3
    <2> HIDE DEF pair
    <2> QED BY <1>2, <1>4, <2>1, <2>2
<1> QED BY <1>4

\* Induction: a set that has 0 and with each number the next one has them all.
LEMMA Induction ==
    ASSUME NEW S, 0 \in S, \A n \in Nat : n \in S => n + 1 \in S
    PROVE  \A n \in Nat : n \in S
<1> SUFFICES ASSUME Nat \ S # {}
             PROVE  FALSE
    OBVIOUS
<1>1. PICK m \in Nat \ S : \A n \in Nat \ S : m <= n
    BY Least
<1>2. m # 0 /\ m - 1 \in Nat /\ m - 1 \in S
    BY <1>1
<1> QED BY <1>1, <1>2

\* Min picks the least element.
LEMMA MinIsLeast ==
    ASSUME NEW S \in SUBSET Nat, S # {}
    PROVE  Min(S) \in S /\ Min(S) \in Nat /\ \A n \in S : Min(S) <= n
BY Least DEF Min

\* Max picks the greater of two numbers.
LEMMA MaxOfTwo ==
    ASSUME NEW m \in Nat, NEW n \in Nat
    PROVE  Max({m, n}) \in {m, n} /\ Max({m, n}) >= m /\ Max({m, n}) >= n
<1>1. \E x \in {m, n} : \A y \in {m, n} : x >= y
    OBVIOUS
<1> QED BY <1>1 DEF Max

-----------------------------------------------------------------------------
(***************************************************************************)
(* The order                                                               *)
(***************************************************************************)
Types == {"task_goal", "memory"} \cup {x.type : x \in Extras}

Segments == [type : Types, tokens : Nat, relevance : Int, untrusted : BOOLEAN]

\* Policy and goal are the first two layers, and nothing else is in them.
LEMMA LayerOf ==
    ASSUME NEW type
    PROVE  /\ Layer(type) \in Nat
           /\ Layer(type) <= 2 <=> type \in Critical
<1> DEFINE S == {n \in DOMAIN SEQUENCE : SEQUENCE[n] = type} \cup {Len(SEQUENCE) + 1}
<1>1. DOMAIN SEQUENCE = 1..9 /\ Len(SEQUENCE) = 9
    BY DEF SEQUENCE
<1>2. S \in SUBSET Nat /\ S # {}
    BY <1>1
<1>3. \A n \in 1..9 : n <= 2 <=> SEQUENCE[n] \in Critical
    BY DEF SEQUENCE, Critical
<1>4. SEQUENCE[1] = "system_policy" /\ SEQUENCE[2] = "task_goal"
    BY DEF SEQUENCE
<1>5. Layer(type) = Min(S)
    BY DEF Layer
<1>6. Min(S) \in S /\ Min(S) \in Nat /\ \A n \in S : Min(S) <= n
    BY <1>2, MinIsLeast
<1>7. ASSUME Min(S) <= 2
      PROVE  type \in Critical
    BY <1>1, <1>3, <1>6, <1>7
<1>8. ASSUME type \in Critical
      PROVE  Min(S) <= 2
    <2>1. PICK n \in 1..2 : SEQUENCE[n] = type
        BY <1>4, <1>8 DEF Critical
    <2> QED BY <1>1, <1>6, <2>1
<1> QED BY <1>5, <1>6, <1>7, <1>8

\* Segments of a type are told apart by the first of them.
LEMMA FirstIsNat ==
    ASSUME NEW segs \in Seq(Segments), NEW i \in DOMAIN segs
    PROVE  FirstOfType(segs, i) \in Nat
<1> DEFINE S == {j \in DOMAIN segs : segs[j].type = segs[i].type}
<1>1. S \in SUBSET Nat /\ S # {}
    OBVIOUS
<1> HIDE DEF S
<1>2. Min(S) \in Nat
    BY <1>1, MinIsLeast
<1> QED BY <1>2 DEF FirstOfType, S

\* Before is a strict total order of the positions.
LEMMA BeforeIsOrder ==
    ASSUME NEW segs \in Seq(Segments)
    PROVE  /\ \A i, j \in DOMAIN segs : i # j => Before(segs, i, j) \/ Before(segs, j, i)
           /\ \A i, j \in DOMAIN segs : ~(Before(segs, i, j) /\ Before(segs, j, i))
           /\ \A i, j, k \in DOMAIN segs :
                 Before(segs, i, j) /\ Before(segs, j, k) => Before(segs, i, k)
<1> DEFINE l(i) == Layer(segs[i].type)
           r(i) == segs[i].relevance
           f(i) == FirstOfType(segs, i)
<1>1. \A i \in DOMAIN segs : i \in Nat /\ l(i) \in Nat /\ r(i) \in Int /\ f(i) \in Nat
    <2> SUFFICES ASSUME NEW i \in DOMAIN segs
                 PROVE  i \in Nat /\ l(i) \in Nat /\ r(i) \in Int /\ f(i) \in Nat
        OBVIOUS
    <2>1. segs[i] \in Segments /\ i \in Nat
        OBVIOUS
    <2>2. l(i) \in Nat
        BY LayerOf
    <2>3. f(i) \in Nat
        BY FirstIsNat
    <2> QED BY <2>1, <2>2, <2>3 DEF Segments
<1>2. Len(SEQUENCE) = 9
    BY DEF SEQUENCE
<1> DEFINE Ranked(i, j) == r(i) > r(j) \/ (r(i) = r(j) /\ (f(i) < f(j) \/ (f(i) = f(j) /\ i < j)))
           Precedes(i, j) == \/ l(i) < l(j)
                             \/ l(i) = l(j) /\ l(i) <= 9 /\ i < j
                             \/ l(i) = l(j) /\ l(i) > 9 /\ Ranked(i, j)
<1>3. \A i, j \in DOMAIN segs : Before(segs, i, j) <=> Precedes(i, j)
    BY <1>1, <1>2 DEF Before
<1> HIDE DEF l, r, f
<1>4. \A i, j \in DOMAIN segs : i # j => Before(segs, i, j) \/ Before(segs, j, i)
    BY <1>1, <1>3
<1>5. \A i, j \in DOMAIN segs : ~(Before(segs, i, j) /\ Before(segs, j, i))
    BY <1>1, <1>3
<1>6. \A i, j, k \in DOMAIN segs :
        Before(segs, i, j) /\ Before(segs, j, k) => Before(segs, i, k)
    <2> SUFFICES ASSUME NEW i \in DOMAIN segs, NEW j \in DOMAIN segs, NEW k \in DOMAIN segs,
                        Before(segs, i, j), Before(segs, j, k)
                 PROVE  Before(segs, i, k)
        OBVIOUS
    <2>1. /\ i \in Nat /\ l(i) \in Nat /\ r(i) \in Int /\ f(i) \in Nat
          /\ j \in Nat /\ l(j) \in Nat /\ r(j) \in Int /\ f(j) \in Nat
          /\ k \in Nat /\ l(k) \in Nat /\ r(k) \in Int /\ f(k) \in Nat
        BY <1>1
    <2>2. Precedes(i, j) /\ Precedes(j, k)
        <3> HIDE DEF Precedes
        <3> QED BY <1>3
    <2>3. Precedes(i, k)
        <3>1. l(i) <= l(j) /\ l(j) <= l(k)
            BY <2>1, <2>2
        <3>2. CASE l(i) < l(k)
            BY <3>2
        <3>3. CASE l(i) = l(k) /\ l(i) <= 9
            BY <2>1, <2>2, <3>1, <3>3
        <3>4. CASE l(i) = l(k) /\ l(i) > 9
            <4>1. l(i) = l(j) /\ l(j) = l(k)
                BY <2>1, <3>1, <3>4
            <4>2. Ranked(i, j) /\ Ranked(j, k)
                BY <2>1, <2>2, <3>4, <4>1
            <4>3. Ranked(i, k)
                BY <2>1, <4>2
            <4> QED BY <3>4, <4>3
        <3> QED BY <2>1, <3>1, <3>2, <3>3, <3>4
    <2> HIDE DEF Precedes
    <2> QED BY <1>3, <2>3
<1> QED BY <1>4, <1>5, <1>6

\* Of the positions that are left one is the first in the order.
LEMMA ForemostIsFirst ==
    ASSUME NEW segs \in Seq(Segments), NEW rest \in SUBSET DOMAIN segs, rest # {}
    PROVE  /\ Foremost(segs, rest) \in rest
           /\ \A j \in rest \ {Foremost(segs, rest)} : Before(segs, Foremost(segs, rest), j)
<1> DEFINE First(i, some) == \A j \in some \ {i} : Before(segs, i, j)
           S == {n \in Nat : \A some \in SUBSET DOMAIN segs :
                    some \subseteq 1..n /\ some # {} => \E i \in some : First(i, some)}
<1>1. 0 \in S
    OBVIOUS
<1>2. ASSUME NEW n \in Nat, n \in S
      PROVE  n + 1 \in S
    <2> SUFFICES ASSUME NEW some \in SUBSET DOMAIN segs, some \subseteq 1..(n + 1), some # {}
                 PROVE  \E i \in some : First(i, some)
        OBVIOUS
    <2>1. CASE n + 1 \notin some
        <3>1. some \subseteq 1..n
            BY <2>1
        <3> QED BY <1>2, <3>1
    <2>2. CASE some = {n + 1}
        BY <2>2
    <2>3. CASE n + 1 \in some /\ some # {n + 1}
        <3> DEFINE less == some \ {n + 1}
        <3>1. less \in SUBSET DOMAIN segs /\ less \subseteq 1..n /\ less # {}
            BY <2>3
        <3>2. PICK i \in less : First(i, less)
            BY <1>2, <3>1
        <3>3. CASE Before(segs, i, n + 1)
            <4>1. First(i, some)
                BY <3>2, <3>3
            <4> QED BY <3>2, <4>1
        <3>4. CASE Before(segs, n + 1, i)
            <4>1. First(n + 1, some)
                BY <2>3, <3>2, <3>4, BeforeIsOrder
            <4> QED BY <2>3, <4>1
        <3> QED BY <2>3, <3>2, <3>3, <3>4, BeforeIsOrder
    <2> QED BY <2>1, <2>2, <2>3
<1>3. Len(segs) \in S
    <2> HIDE DEF S
    <2>1. Len(segs) \in Nat
        OBVIOUS
    <2> QED BY <1>1, <1>2, <2>1, Induction
<1>4. rest \subseteq 1..Len(segs)
    OBVIOUS
<1>5. \E i \in rest : First(i, rest)
    BY <1>3, <1>4
<1> QED BY <1>5 DEF Foremost

-----------------------------------------------------------------------------
(***************************************************************************)
(* Sums of tokens                                                          *)
(***************************************************************************)
\* What the assembler reads of its segments.
LEMMA SegmentsAre ==
    ASSUME NEW segs \in Seq(Segments)
    PROVE  /\ Len(segs) \in Nat /\ DOMAIN segs = 1..Len(segs)
           /\ \A i \in DOMAIN segs : /\ i \in Nat /\ segs[i].tokens \in Nat
                                   /\ segs[i].relevance \in Int /\ segs[i].untrusted \in BOOLEAN
<1>1. Len(segs) \in Nat /\ DOMAIN segs = 1..Len(segs) /\ \A i \in DOMAIN segs : segs[i] \in Segments
    OBVIOUS
<1>2. \A seg \in Segments : seg.tokens \in Nat /\ seg.relevance \in Int /\ seg.untrusted \in BOOLEAN
    BY DEF Segments
<1> QED BY <1>1, <1>2

\* A running sum exists for any costs.
LEMMA SumExists ==
    ASSUME NEW w, NEW N \in Nat
    PROVE  \E f : f = [n \in 0..N |-> IF n = 0 THEN 0 ELSE f[n - 1] + w[n]]
<1> DEFINE S == {m \in Nat : \E f : f = [n \in 0..m |-> IF n = 0 THEN 0 ELSE f[n - 1] + w[n]]}
<1>1. 0 \in S
    <2> DEFINE f == [n \in 0..0 |-> 0]
    <2>1. f = [n \in 0..0 |-> IF n = 0 THEN 0 ELSE f[n - 1] + w[n]]
        OBVIOUS
    <2> HIDE DEF f
    <2> QED BY <2>1
<1>2. ASSUME NEW m \in Nat, m \in S
      PROVE  m + 1 \in S
    <2>1. PICK f : f = [n \in 0..m |-> IF n = 0 THEN 0 ELSE f[n - 1] + w[n]]
        BY <1>2
    <2> DEFINE g == [n \in 0..(m + 1) |-> IF n = m + 1 THEN f[m] + w[m + 1] ELSE f[n]]
    <2>2. ASSUME NEW n \in 0..(m + 1)
          PROVE  g[n] = IF n = 0 THEN 0 ELSE g[n - 1] + w[n]
        <3>1. CASE n = m + 1
            BY <3>1
        <3>2. CASE n \in 1..m
            BY <2>1, <3>2
        <3>3. CASE n = 0
            BY <2>1, <3>3
        <3> QED BY <3>1, <3>2, <3>3
    <2>3. g = [n \in 0..(m + 1) |-> IF n = 0 THEN 0 ELSE g[n - 1] + w[n]]
        BY <2>2
    <2> HIDE DEF g
    <2> QED BY <2>3
<1> HIDE DEF S
<1>3. N \in S
    BY <1>1, <1>2, Induction
<1> QED BY <1>3 DEF S

\* TokensOf is the last of the running sums of the tokens at the positions.
LEMMA TokensAreSummed ==
    ASSUME NEW segs \in Seq(Segments), NEW P
    PROVE  \E f : /\ f \in [0..Len(segs) -> Nat]
                  /\ f[0] = 0
                  /\ \A n \in 1..Len(segs) :
                        f[n] = f[n - 1] + (IF n \in P THEN segs[n].tokens ELSE 0)
                  /\ TokensOf(segs, P) = f[Len(segs)]
<1> DEFINE w == [n \in 1..Len(segs) |-> IF n \in P THEN segs[n].tokens ELSE 0]
           IsSum(f) == f = [n \in 0..Len(segs) |->
                                IF n = 0 THEN 0
                                ELSE f[n - 1] + (IF n \in P THEN segs[n].tokens ELSE 0)]
           f == CHOOSE g : IsSum(g)
<1>0. Len(segs) \in Nat /\ \A n \in 1..Len(segs) : segs[n].tokens \in Nat
    BY SegmentsAre
<1>1. \E g : IsSum(g)
    <2>1. PICK g : g = [n \in 0..Len(segs) |-> IF n = 0 THEN 0 ELSE g[n - 1] + w[n]]
        <3> HIDE DEF w
        <3> QED BY <1>0, SumExists
    <2>2. IsSum(g)
        BY <1>0, <2>1
    <2> QED BY <2>2
<1>2. IsSum(f)
    <2> HIDE DEF IsSum
    <2> QED BY <1>1
<1>3. TokensOf(segs, P) = f[Len(segs)]
    BY DEF TokensOf
<1> HIDE DEF f
<1>4. f[0] = 0 /\ \A n \in 1..Len(segs) :
                        f[n] = f[n - 1] + (IF n \in P THEN segs[n].tokens ELSE 0)
    BY <1>0, <1>2
<1>5. \A n \in 0..Len(segs) : f[n] \in Nat
    <2> DEFINE S == {n \in Nat : n <= Len(segs) => f[n] \in Nat}
    <2>1. 0 \in S
        BY <1>4
    <2>2. ASSUME NEW n \in Nat, n \in S
          PROVE  n + 1 \in S
        BY <1>0, <1>4, <2>2
    <2>3. \A n \in Nat : n \in S
        <3> HIDE DEF S
        <3> QED BY <2>1, <2>2, Induction
    <2> QED BY <1>0, <2>3
<1>6. f \in [0..Len(segs) -> Nat]
    BY <1>0, <1>2, <1>5
<1> QED BY <1>3, <1>4, <1>6

\* A sum of tokens is a number.
LEMMA TokensAreNat ==
    ASSUME NEW segs \in Seq(Segments), NEW P
    PROVE  TokensOf(segs, P) \in Nat
BY TokensAreSummed

\* Nothing costs nothing.
LEMMA TokensOfNone ==
    ASSUME NEW segs \in Seq(Segments)
    PROVE  TokensOf(segs, {}) = 0
<1> PICK f : /\ f[0] = 0
             /\ \A n \in 1..Len(segs) : f[n] = f[n - 1] + 0
             /\ TokensOf(segs, {}) = f[Len(segs)]
    BY TokensAreSummed
<1> DEFINE S == {n \in Nat : n <= Len(segs) => f[n] = 0}
<1>1. 0 \in S
    OBVIOUS
<1>2. ASSUME NEW n \in Nat, n \in S
      PROVE  n + 1 \in S
    BY <1>2
<1>3. \A n \in Nat : n \in S
    <2> HIDE DEF S
    <2> QED BY <1>1, <1>2, Induction
<1> QED BY <1>3

\* One more position adds its tokens.
LEMMA TokensOfMore ==
    ASSUME NEW segs \in Seq(Segments), NEW P, NEW i \in DOMAIN segs, i \notin P
    PROVE  /\ TokensOf(segs, P) \in Nat
           /\ TokensOf(segs, P \cup {i}) = TokensOf(segs, P) + segs[i].tokens
<1>0. Len(segs) \in Nat /\ i \in 1..Len(segs) /\ segs[i].tokens \in Nat
    BY SegmentsAre
<1>1. PICK f : /\ f \in [0..Len(segs) -> Nat]
               /\ f[0] = 0
               /\ \A n \in 1..Len(segs) : f[n] = f[n - 1] + (IF n \in P THEN segs[n].tokens ELSE 0)
               /\ TokensOf(segs, P) = f[Len(segs)]
    BY TokensAreSummed
<1>2. PICK g : /\ g \in [0..Len(segs) -> Nat]
               /\ g[0] = 0
               /\ \A n \in 1..Len(segs) :
                    g[n] = g[n - 1] + (IF n \in P \cup {i} THEN segs[n].tokens ELSE 0)
               /\ TokensOf(segs, P \cup {i}) = g[Len(segs)]
    BY TokensAreSummed
<1> DEFINE S == {n \in Nat : n <= Len(segs) =>
                    g[n] = f[n] + (IF i <= n THEN segs[i].tokens ELSE 0)}
<1>3. 0 \in S
    BY <1>0, <1>1, <1>2
<1>4. ASSUME NEW n \in Nat, n \in S
      PROVE  n + 1 \in S
    <2> SUFFICES ASSUME n + 1 <= Len(segs)
                 PROVE  g[n + 1] = f[n + 1] + (IF i <= n + 1 THEN segs[i].tokens ELSE 0)
        OBVIOUS
    <2>a. n \in 0..Len(segs) /\ n + 1 \in 1..Len(segs)
        BY <1>0
    <2>0. /\ n \in 0..Len(segs) /\ n + 1 \in 1..Len(segs) /\ f[n] \in Nat /\ g[n] \in Nat
          /\ segs[n + 1].tokens \in Nat
        BY <1>1, <1>2, <2>a, SegmentsAre
    <2>1. g[n] = f[n] + (IF i <= n THEN segs[i].tokens ELSE 0)
        BY <1>0, <1>4
    <2>2. f[n + 1] = f[n] + (IF n + 1 \in P THEN segs[n + 1].tokens ELSE 0)
        BY <1>1, <2>0
    <2>3. g[n + 1] = g[n] + (IF n + 1 \in P \cup {i} THEN segs[n + 1].tokens ELSE 0)
        BY <1>2, <2>0
    <2>4. CASE n + 1 = i
        BY <1>0, <2>0, <2>1, <2>2, <2>3, <2>4
    <2>5. CASE n + 1 # i
        BY <1>0, <2>0, <2>1, <2>2, <2>3, <2>5
    <2> QED BY <2>4, <2>5
<1>5. \A n \in Nat : n \in S
    <2> HIDE DEF S
    <2> QED BY <1>3, <1>4, Induction
<1>6. g[Len(segs)] = f[Len(segs)] + segs[i].tokens
    BY <1>0, <1>5
<1> QED BY <1>0, <1>1, <1>2, <1>6

-----------------------------------------------------------------------------
(***************************************************************************)
(* The pass                                                                *)
(***************************************************************************)
\* The states of the pass through N segments.
IsPass(f, segs, budget, N) ==
    f = [n \in 0..N |-> IF n = 0 THEN Start(segs) ELSE Take(segs, f[n - 1], budget)]

\* The pass can go any number of segments.
LEMMA PassExists ==
    ASSUME NEW segs, NEW budget, NEW N \in Nat
    PROVE  \E f : IsPass(f, segs, budget, N)
<1> DEFINE S == {m \in Nat : \E f : IsPass(f, segs, budget, m)}
<1>1. 0 \in S
    <2> DEFINE f == [n \in 0..0 |-> Start(segs)]
    <2>1. f = [n \in 0..0 |-> IF n = 0 THEN Start(segs) ELSE Take(segs, f[n - 1], budget)]
        OBVIOUS
    <2> HIDE DEF f
    <2>2. IsPass(f, segs, budget, 0)
        BY <2>1 DEF IsPass
    <2> QED BY <2>2
<1>2. ASSUME NEW m \in Nat, m \in S
      PROVE  m + 1 \in S
    <2>0. PICK f : IsPass(f, segs, budget, m)
        BY <1>2
    <2>1. f = [n \in 0..m |-> IF n = 0 THEN Start(segs) ELSE Take(segs, f[n - 1], budget)]
        BY <2>0 DEF IsPass
    <2> DEFINE g == [n \in 0..(m + 1) |-> IF n = m + 1 THEN Take(segs, f[m], budget) ELSE f[n]]
    <2>2. ASSUME NEW n \in 0..(m + 1)
          PROVE  g[n] = IF n = 0 THEN Start(segs) ELSE Take(segs, g[n - 1], budget)
        <3>1. CASE n = m + 1
            BY <3>1
        <3>2. CASE n \in 1..m
            BY <2>1, <3>2
        <3>3. CASE n = 0
            BY <2>1, <3>3
        <3> QED BY <3>1, <3>2, <3>3
    <2>3. g = [n \in 0..(m + 1) |-> IF n = 0 THEN Start(segs) ELSE Take(segs, g[n - 1], budget)]
        BY <2>2
    <2> HIDE DEF g
    <2>4. IsPass(g, segs, budget, m + 1)
        BY <2>3 DEF IsPass
    <2> QED BY <2>4
<1> HIDE DEF S
<1>3. N \in S
    BY <1>1, <1>2, Induction
<1> QED BY <1>3 DEF S

\* The pass starts with nothing kept, and Take leads from each of its states to the next.
LEMMA PassSteps ==
    ASSUME NEW segs \in Seq(Segments), NEW budget
    PROVE  /\ Pass(segs, budget)[0] = Start(segs)
           /\ \A n \in 1..Len(segs) :
                Pass(segs, budget)[n] = Take(segs, Pass(segs, budget)[n - 1], budget)
<1> DEFINE f == CHOOSE g : IsPass(g, segs, budget, Len(segs))
<1>0. Len(segs) \in Nat
    OBVIOUS
<1>1. IsPass(f, segs, budget, Len(segs))
    BY <1>0, PassExists
<1>2. f = [n \in 0..Len(segs) |-> IF n = 0 THEN Start(segs) ELSE Take(segs, f[n - 1], budget)]
    BY <1>1 DEF IsPass
<1>3. Pass(segs, budget) = f
    BY DEF Pass, IsPass
<1> HIDE DEF f
<1> QED BY <1>0, <1>2, <1>3

\* A segment is added to what is kept.
LEMMA RangeOfAppend ==
    ASSUME NEW S, NEW s \in Seq(S), NEW i \in S
    PROVE  Append(s, i) \in Seq(S) /\ Range(Append(s, i)) = Range(s) \cup {i}
<1>1. Append(s, i) \in Seq(S) /\ Len(Append(s, i)) = Len(s) + 1 /\ Len(s) \in Nat
    OBVIOUS
<1>2. \A k \in 1..Len(s) : Append(s, i)[k] = s[k]
    OBVIOUS
<1>3. Append(s, i)[Len(s) + 1] = i
    OBVIOUS
<1>4. DOMAIN s = 1..Len(s) /\ DOMAIN Append(s, i) = 1..(Len(s) + 1)
    BY <1>1
<1> QED BY <1>1, <1>2, <1>3, <1>4 DEF Range

\* Why a segment is not among those kept.
LeftOut(seg, used, untrusted, budget) ==
    \/ seg.untrusted /\ untrusted + seg.tokens > UntrustedBudget(budget)
    \/ seg.type \notin Critical /\ used + seg.tokens > budget

\* One segment has priority over another that is no more trusted.
Prior(p, q) ==
    /\ \/ Layer(p.type) < Layer(q.type)
       \/ /\ Layer(p.type) = Layer(q.type)
          /\ Layer(p.type) > Len(SEQUENCE)
          /\ p.relevance > q.relevance
    /\ p.untrusted => q.untrusted

\* What holds after every segment of the pass: the counts are those of what is kept, what
\* was looked at comes before what is left, and what was left out did not fit.
PassType(segs, acc) ==
    acc \in [rest : SUBSET DOMAIN segs, kept : Seq(DOMAIN segs), used : Nat, untrusted : Nat]

PassCounts(segs, acc, n) ==
    /\ IsFiniteSet(acc.rest) /\ Cardinality(acc.rest) = Len(segs) - n

PassOrder(segs, acc) ==
    /\ Range(acc.kept) \subseteq DOMAIN segs \ acc.rest
    /\ \A i \in DOMAIN segs \ acc.rest, j \in acc.rest : Before(segs, i, j)

PassSums(segs, acc, budget) ==
    LET taken == Range(acc.kept)
    IN  /\ acc.used = TokensOf(segs, taken)
        /\ acc.untrusted = TokensOf(segs, {i \in taken : segs[i].untrusted})
        /\ acc.untrusted <= UntrustedBudget(budget)
        /\ \/ acc.used <= budget
           \/ acc.used <= TokensOf(segs, {i \in taken : segs[i].type \in Critical})

PassOmits(segs, acc, budget) ==
    \A i \in (DOMAIN segs \ acc.rest) \ Range(acc.kept) :
        /\ LeftOut(segs[i], acc.used, acc.untrusted, budget)
        /\ \A j \in Range(acc.kept) :
            Prior(segs[i], segs[j]) => segs[j].tokens < segs[i].tokens

PassInv(segs, acc, budget, n) ==
    /\ PassType(segs, acc) /\ PassCounts(segs, acc, n) /\ PassOrder(segs, acc)
    /\ PassSums(segs, acc, budget) /\ PassOmits(segs, acc, budget)

\* Untrusted content has a share of every budget.
LEMMA QuarterIsNat ==
    ASSUME NEW budget \in Nat
    PROVE  UntrustedBudget(budget) \in Nat
BY DEF UntrustedBudget

\* Before the first segment there is nothing to answer for (Start).
LEMMA StartInv ==
    ASSUME NEW segs \in Seq(Segments), NEW budget \in Nat
    PROVE  PassInv(segs, Start(segs), budget, 0)
<1> DEFINE acc == Start(segs)
<1>1. acc = [rest |-> DOMAIN segs, kept |-> <<>>, used |-> 0, untrusted |-> 0]
    BY DEF Start
<1> HIDE DEF acc
<1>2. acc.rest = DOMAIN segs /\ acc.kept = <<>> /\ acc.used = 0 /\ acc.untrusted = 0
    BY <1>1
<1>3. Range(acc.kept) = {}
    BY <1>2 DEF Range
<1>4. PassType(segs, acc)
    BY <1>1, <1>2 DEF PassType
<1>5. PassCounts(segs, acc, 0)
    <2>1. DOMAIN segs = 1..Len(segs) /\ Len(segs) \in Nat
        OBVIOUS
    <2>2. IsFiniteSet(1..Len(segs)) /\ Cardinality(1..Len(segs)) = Len(segs)
        BY <2>1, FS_Interval
    <2> QED BY <1>2, <2>1, <2>2 DEF PassCounts
<1>6. PassOrder(segs, acc)
    BY <1>2, <1>3 DEF PassOrder
<1>7. PassSums(segs, acc, budget)
    <2>1. {i \in Range(acc.kept) : segs[i].untrusted} = {}
        BY <1>3
    <2>2. UntrustedBudget(budget) >= 0
        BY QuarterIsNat
    <2>3. /\ TokensOf(segs, Range(acc.kept)) = 0
          /\ TokensOf(segs, {i \in Range(acc.kept) : segs[i].untrusted}) = 0
        BY <1>3, <2>1, TokensOfNone
    <2>4. acc.used = 0 /\ acc.untrusted = 0 /\ acc.used <= budget
        BY <1>2
    <2> QED BY <2>2, <2>3, <2>4 DEF PassSums
<1>8. PassOmits(segs, acc, budget)
    BY <1>2 DEF PassOmits
<1> QED BY <1>4, <1>5, <1>6, <1>7, <1>8 DEF PassInv, acc

\* What has priority comes first in the order.
LEMMA PriorIsBefore ==
    ASSUME NEW segs \in Seq(Segments), NEW i \in DOMAIN segs, NEW j \in DOMAIN segs,
           Prior(segs[i], segs[j])
    PROVE  Before(segs, i, j)
<1>1. Len(SEQUENCE) = 9
    BY DEF SEQUENCE
<1>2. Layer(segs[i].type) \in Nat /\ Layer(segs[j].type) \in Nat
    BY LayerOf
<1> QED BY <1>1, <1>2 DEF Prior, Before

\* The order never takes a segment of another type before policy and goal.
LEMMA CriticalFirst ==
    ASSUME NEW segs \in Seq(Segments), NEW i \in DOMAIN segs, NEW j \in DOMAIN segs,
           Before(segs, i, j), segs[j].type \in Critical
    PROVE  segs[i].type \in Critical
<1>1. /\ Layer(segs[i].type) \in Nat /\ Layer(segs[j].type) \in Nat
      /\ Layer(segs[i].type) <= 2 <=> segs[i].type \in Critical
      /\ Layer(segs[j].type) <= 2 <=> segs[j].type \in Critical
    BY LayerOf
<1>2. Layer(segs[i].type) <= Layer(segs[j].type)
    BY <1>1 DEF Before
<1> QED BY <1>1, <1>2

\* What is looked at next, and that it comes before the rest and after what was seen.
LEMMA NextInOrder ==
    ASSUME NEW segs \in Seq(Segments), NEW acc, NEW n \in Nat, n < Len(segs),
           PassType(segs, acc), PassCounts(segs, acc, n), PassOrder(segs, acc),
           NEW i, i = Foremost(segs, acc.rest)
    PROVE  /\ i \in acc.rest /\ i \in DOMAIN segs /\ i \notin Range(acc.kept)
           /\ IsFiniteSet(acc.rest \ {i}) /\ Cardinality(acc.rest \ {i}) = Len(segs) - (n + 1)
           /\ \A k \in DOMAIN segs \ acc.rest : Before(segs, k, i)
           /\ \A k \in DOMAIN segs \ (acc.rest \ {i}), j \in acc.rest \ {i} : Before(segs, k, j)
<1>0. Len(segs) \in Nat
    OBVIOUS
<1>1. acc.rest # {}
    BY <1>0, FS_EmptySet DEF PassCounts
<1>2. i \in acc.rest /\ \A j \in acc.rest \ {i} : Before(segs, i, j)
    BY <1>1, ForemostIsFirst DEF PassType
<1>3. IsFiniteSet(acc.rest \ {i}) /\ Cardinality(acc.rest \ {i}) = Len(segs) - (n + 1)
    <2>1. IsFiniteSet(acc.rest) /\ Cardinality(acc.rest) = Len(segs) - n
        BY DEF PassCounts
    <2>2. IsFiniteSet(acc.rest \ {i}) /\ Cardinality(acc.rest \ {i}) = Cardinality(acc.rest) - 1
        BY <1>2, <2>1, FS_RemoveElement
    <2> QED BY <1>0, <2>1, <2>2
<1>4. i \in DOMAIN segs /\ i \notin Range(acc.kept)
    BY <1>2 DEF PassType, PassOrder
<1>5. \A k \in DOMAIN segs \ acc.rest, j \in acc.rest : Before(segs, k, j)
    BY DEF PassOrder
<1> QED BY <1>2, <1>3, <1>4, <1>5

\* What was too much stays too much when more is kept.
LEMMA StillOver ==
    ASSUME NEW less \in Nat, NEW more \in Nat, less <= more, NEW size \in Nat,
           NEW limit \in Nat, less + size > limit
    PROVE  more + size > limit
OBVIOUS

\* A segment that fits is kept.
LEMMA KeepInv ==
    ASSUME NEW segs \in Seq(Segments), NEW budget \in Nat, NEW acc, NEW n \in Nat,
           n < Len(segs), PassInv(segs, acc, budget, n),
           NEW i, i = Foremost(segs, acc.rest),
           Fits(segs[i], acc.used, acc.untrusted, budget)
    PROVE  PassInv(segs, Add(acc, segs[i], i), budget, n + 1)
<1> DEFINE new == Add(acc, segs[i], i)
           T == Range(acc.kept)
<1>0. /\ PassType(segs, acc) /\ PassCounts(segs, acc, n) /\ PassOrder(segs, acc)
      /\ PassSums(segs, acc, budget) /\ PassOmits(segs, acc, budget)
    BY DEF PassInv
<1>1. /\ i \in acc.rest /\ i \in DOMAIN segs /\ i \notin T
      /\ IsFiniteSet(acc.rest \ {i}) /\ Cardinality(acc.rest \ {i}) = Len(segs) - (n + 1)
      /\ \A k \in DOMAIN segs \ acc.rest : Before(segs, k, i)
      /\ \A k \in DOMAIN segs \ (acc.rest \ {i}), j \in acc.rest \ {i} : Before(segs, k, j)
    BY <1>0, NextInOrder
<1>2. /\ segs[i].tokens \in Nat /\ segs[i].untrusted \in BOOLEAN /\ UntrustedBudget(budget) \in Nat
      /\ acc.used \in Nat /\ acc.untrusted \in Nat
    BY <1>0, <1>1, SegmentsAre, QuarterIsNat DEF PassType
<1>3. /\ new = [rest |-> new.rest, kept |-> new.kept, used |-> new.used,
                untrusted |-> new.untrusted]
      /\ new.rest = acc.rest \ {i}
      /\ new.kept = Append(acc.kept, i)
      /\ new.used = acc.used + segs[i].tokens
      /\ new.untrusted = acc.untrusted + (IF segs[i].untrusted THEN segs[i].tokens ELSE 0)
    BY DEF Add
<1>4. new.kept \in Seq(DOMAIN segs) /\ Range(new.kept) = T \cup {i}
    BY <1>0, <1>1, <1>3, RangeOfAppend DEF PassType
<1> HIDE DEF new, T
<1>5. PassType(segs, new)
    <2>1. new.used \in Nat /\ new.untrusted \in Nat
        BY <1>2, <1>3
    <2>2. new.rest \in SUBSET DOMAIN segs
        BY <1>0, <1>3 DEF PassType
    <2> QED BY <1>3, <1>4, <2>1, <2>2 DEF PassType
<1>6. PassCounts(segs, new, n + 1)
    BY <1>1, <1>3 DEF PassCounts
<1>7. PassOrder(segs, new)
    <2>1. T \subseteq DOMAIN segs \ acc.rest
        BY <1>0 DEF PassOrder, T
    <2> QED BY <1>1, <1>3, <1>4, <2>1 DEF PassOrder
<1>8. PassSums(segs, new, budget)
    <2> DEFINE U == {j \in T : segs[j].untrusted}
               C == {j \in T : segs[j].type \in Critical}
    <2>0. /\ acc.used = TokensOf(segs, T) /\ acc.untrusted = TokensOf(segs, U)
          /\ acc.untrusted <= UntrustedBudget(budget)
        BY <1>0 DEF PassSums, T
    <2>1. new.used = TokensOf(segs, Range(new.kept))
        <3>1. TokensOf(segs, T \cup {i}) = TokensOf(segs, T) + segs[i].tokens
            BY <1>1, TokensOfMore
        <3> QED BY <1>3, <1>4, <2>0, <3>1
    <2>2. /\ new.untrusted = TokensOf(segs, {j \in Range(new.kept) : segs[j].untrusted})
          /\ new.untrusted <= UntrustedBudget(budget)
        <3>1. CASE segs[i].untrusted
            <4>1. {j \in Range(new.kept) : segs[j].untrusted} = U \cup {i}
                BY <1>4, <3>1
            <4>2. TokensOf(segs, U \cup {i}) = TokensOf(segs, U) + segs[i].tokens
                BY <1>1, TokensOfMore
            <4>3. acc.untrusted + segs[i].tokens <= UntrustedBudget(budget)
                BY <3>1 DEF Fits
            <4> HIDE DEF U
            <4> QED BY <1>3, <2>0, <3>1, <4>1, <4>2, <4>3
        <3>2. CASE ~segs[i].untrusted
            <4>1. {j \in Range(new.kept) : segs[j].untrusted} = U
                BY <1>4, <3>2
            <4>2. new.untrusted = acc.untrusted
                BY <1>2, <1>3, <3>2
            <4> HIDE DEF U
            <4> QED BY <2>0, <4>1, <4>2
        <3> QED BY <3>1, <3>2
    <2>3. \/ new.used <= budget
          \/ new.used <= TokensOf(segs, {j \in Range(new.kept) : segs[j].type \in Critical})
        <3>1. CASE acc.used + segs[i].tokens <= budget
            BY <1>3, <3>1
        <3>2. CASE segs[i].type \in Critical
            <4>1. \A j \in T : segs[j].type \in Critical
                BY <1>0, <1>1, <3>2, CriticalFirst DEF PassOrder, T
            <4>2. {j \in Range(new.kept) : segs[j].type \in Critical} = Range(new.kept)
                BY <1>4, <3>2, <4>1
            <4>3. new.used \in Nat
                BY <1>2, <1>3
            <4>4. new.used = TokensOf(segs, {j \in Range(new.kept) : segs[j].type \in Critical})
                BY <2>1, <4>2, Zenon
            <4> DEFINE sum == TokensOf(segs, {j \in Range(new.kept) : segs[j].type \in Critical})
            <4> HIDE DEF sum
            <4>5. new.used <= sum
                BY <4>3, <4>4 DEF sum
            <4> QED BY <4>5 DEF sum
        <3>3. acc.used + segs[i].tokens <= budget \/ segs[i].type \in Critical
            BY DEF Fits
        <3> QED BY <3>1, <3>2, <3>3
    <2> QED BY <2>1, <2>2, <2>3 DEF PassSums
<1>9. PassOmits(segs, new, budget)
    <2> SUFFICES ASSUME NEW k \in (DOMAIN segs \ new.rest) \ Range(new.kept)
                 PROVE  /\ LeftOut(segs[k], new.used, new.untrusted, budget)
                        /\ \A j \in Range(new.kept) :
                            Prior(segs[k], segs[j]) => segs[j].tokens < segs[k].tokens
        BY DEF PassOmits
    <2>1. k \in (DOMAIN segs \ acc.rest) \ T
        BY <1>1, <1>3, <1>4
    <2>2. /\ LeftOut(segs[k], acc.used, acc.untrusted, budget)
          /\ \A j \in T : Prior(segs[k], segs[j]) => segs[j].tokens < segs[k].tokens
        BY <1>0, <2>1 DEF PassOmits, T
    <2>3. segs[k].tokens \in Nat
        BY <2>1, SegmentsAre
    <2>4. LeftOut(segs[k], new.used, new.untrusted, budget)
        <3>1. /\ new.used \in Nat /\ new.used >= acc.used
              /\ new.untrusted \in Nat /\ new.untrusted >= acc.untrusted
            <4>1. new.used \in Nat /\ new.used >= acc.used
                BY <1>2, <1>3
            <4>2. new.untrusted \in Nat /\ new.untrusted >= acc.untrusted
                BY <1>2, <1>3
            <4> QED BY <4>1, <4>2
        <3> DEFINE share == UntrustedBudget(budget)
                   size == segs[k].tokens
        <3>2. share \in Nat /\ size \in Nat
            BY <1>2, <2>3
        <3>3. \/ segs[k].untrusted /\ acc.untrusted + size > share
              \/ segs[k].type \notin Critical /\ acc.used + size > budget
            BY <2>2 DEF LeftOut
        <3> HIDE DEF share, size
        <3>4. /\ acc.untrusted + size > share => new.untrusted + size > share
              /\ acc.used + size > budget => new.used + size > budget
            <4>1. /\ acc.untrusted \in Nat /\ new.untrusted \in Nat /\ acc.untrusted <= new.untrusted
                  /\ acc.used \in Nat /\ new.used \in Nat /\ acc.used <= new.used
                BY <1>2, <3>1
            <4> QED BY <3>2, <4>1, StillOver
        <3>5. \/ segs[k].untrusted /\ new.untrusted + size > share
              \/ segs[k].type \notin Critical /\ new.used + size > budget
            BY <3>3, <3>4
        <3> QED BY <3>5 DEF LeftOut, share, size
    <2>5. ASSUME Prior(segs[k], segs[i])
          PROVE  segs[i].tokens < segs[k].tokens
        <3>1. CASE segs[k].untrusted /\ acc.untrusted + segs[k].tokens > UntrustedBudget(budget)
            <4>1. acc.untrusted + segs[i].tokens <= UntrustedBudget(budget)
                BY <2>5, <3>1 DEF Prior, Fits
            <4> QED BY <1>2, <2>3, <3>1, <4>1
        <3>2. CASE segs[k].type \notin Critical /\ acc.used + segs[k].tokens > budget
            <4>1. segs[i].type \notin Critical
                BY <1>1, <2>1, <3>2, CriticalFirst
            <4>2. acc.used + segs[i].tokens <= budget
                BY <4>1 DEF Fits
            <4> QED BY <1>2, <2>3, <3>2, <4>2
        <3> QED BY <2>2, <3>1, <3>2 DEF LeftOut
    <2> QED BY <1>4, <2>2, <2>4, <2>5
<1> QED BY <1>5, <1>6, <1>7, <1>8, <1>9 DEF PassInv, new

\* A segment that does not fit is left out.
LEMMA SkipInv ==
    ASSUME NEW segs \in Seq(Segments), NEW budget \in Nat, NEW acc, NEW n \in Nat,
           n < Len(segs), PassInv(segs, acc, budget, n),
           NEW i, i = Foremost(segs, acc.rest),
           ~Fits(segs[i], acc.used, acc.untrusted, budget)
    PROVE  PassInv(segs, [acc EXCEPT !.rest = @ \ {i}], budget, n + 1)
<1> DEFINE new == [acc EXCEPT !.rest = @ \ {i}]
<1>0. /\ PassType(segs, acc) /\ PassCounts(segs, acc, n) /\ PassOrder(segs, acc)
      /\ PassSums(segs, acc, budget) /\ PassOmits(segs, acc, budget)
    BY DEF PassInv
<1>1. /\ i \in acc.rest /\ i \in DOMAIN segs /\ i \notin Range(acc.kept)
      /\ IsFiniteSet(acc.rest \ {i}) /\ Cardinality(acc.rest \ {i}) = Len(segs) - (n + 1)
      /\ \A k \in DOMAIN segs \ acc.rest : Before(segs, k, i)
      /\ \A k \in DOMAIN segs \ (acc.rest \ {i}), j \in acc.rest \ {i} : Before(segs, k, j)
    BY <1>0, NextInOrder
<1>2. /\ segs[i].tokens \in Nat /\ segs[i].untrusted \in BOOLEAN /\ UntrustedBudget(budget) \in Nat
      /\ acc.used \in Nat /\ acc.untrusted \in Nat
    BY <1>0, <1>1, SegmentsAre, QuarterIsNat DEF PassType
<1>3. /\ PassType(segs, new)
      /\ new.rest = acc.rest \ {i} /\ new.kept = acc.kept
      /\ new.used = acc.used /\ new.untrusted = acc.untrusted
    BY <1>0 DEF PassType
<1> HIDE DEF new
<1>5. PassCounts(segs, new, n + 1)
    BY <1>1, <1>3 DEF PassCounts
<1>6. PassOrder(segs, new)
    BY <1>0, <1>1, <1>3 DEF PassOrder
<1>7. PassSums(segs, new, budget)
    BY <1>0, <1>3 DEF PassSums
<1>8. PassOmits(segs, new, budget)
    <2>1. LeftOut(segs[i], acc.used, acc.untrusted, budget)
        BY <1>2 DEF Fits, LeftOut
    <2>2. ASSUME NEW j \in Range(acc.kept), Prior(segs[i], segs[j])
          PROVE  FALSE
        <3>1. j \in DOMAIN segs \ acc.rest
            BY <1>0 DEF PassOrder
        <3>2. Before(segs, j, i) /\ Before(segs, i, j)
            BY <1>1, <2>2, <3>1, PriorIsBefore
        <3> QED BY <1>1, <3>1, <3>2, BeforeIsOrder
    <2> QED BY <1>0, <1>3, <2>1, <2>2 DEF PassOmits
<1> QED BY <1>3, <1>5, <1>6, <1>7, <1>8 DEF PassInv, new

\* The invariant holds at the end of the pass.
LEMMA PassCorrect ==
    ASSUME NEW segs \in Seq(Segments), NEW budget \in Nat
    PROVE  PassInv(segs, Pass(segs, budget)[Len(segs)], budget, Len(segs))
<1> DEFINE S == {n \in Nat : n <= Len(segs) => PassInv(segs, Pass(segs, budget)[n], budget, n)}
<1>0. Len(segs) \in Nat
    OBVIOUS
<1>1. 0 \in S
    BY PassSteps, StartInv
<1>2. ASSUME NEW n \in Nat, n \in S
      PROVE  n + 1 \in S
    <2> SUFFICES ASSUME n + 1 <= Len(segs)
                 PROVE  PassInv(segs, Pass(segs, budget)[n + 1], budget, n + 1)
        OBVIOUS
    <2> DEFINE acc == Pass(segs, budget)[n]
               i == Foremost(segs, acc.rest)
    <2>1. n < Len(segs) /\ n + 1 \in 1..Len(segs) /\ (n + 1) - 1 = n
        BY <1>0
    <2>2. PassInv(segs, acc, budget, n)
        BY <1>0, <1>2, <2>1
    <2>3. Pass(segs, budget)[n + 1] = Take(segs, acc, budget)
        BY <2>1, PassSteps
    <2>4. Take(segs, acc, budget) =
            IF Fits(segs[i], acc.used, acc.untrusted, budget) THEN Add(acc, segs[i], i)
            ELSE [acc EXCEPT !.rest = @ \ {i}]
        BY DEF Take
    <2> HIDE DEF acc
    <2>5. CASE Fits(segs[i], acc.used, acc.untrusted, budget)
        BY <2>1, <2>2, <2>3, <2>4, <2>5, KeepInv
    <2>6. CASE ~Fits(segs[i], acc.used, acc.untrusted, budget)
        BY <2>1, <2>2, <2>3, <2>4, <2>6, SkipInv
    <2> QED BY <2>5, <2>6
<1>3. \A n \in Nat : n \in S
    <2> HIDE DEF S
    <2> QED BY <1>1, <1>2, Induction
<1> QED BY <1>0, <1>3

-----------------------------------------------------------------------------
(***************************************************************************)
(* The selection                                                           *)
(***************************************************************************)
\* Whatever budget the run has, the context has one.
LEMMA BudgetIsNat ==
    ASSUME NEW maxTokens \in Nat
    PROVE  ContextBudget(maxTokens) \in Nat
<1>1. Reserve + MinRoom \in Nat /\ Reserve \in Nat /\ MinRoom \in Nat
    BY AssemblerAssumption
<1> DEFINE max == Max({Reserve + MinRoom, maxTokens})
<1>2. max \in {Reserve + MinRoom, maxTokens} /\ max >= Reserve + MinRoom
    BY <1>1, MaxOfTwo
<1> HIDE DEF max
<1>3. max - Reserve \in Nat
    BY <1>1, <1>2
<1> QED BY <1>3 DEF ContextBudget, max

\* For any segments and any budget, assemble() keeps to the budget and to the share of
\* untrusted content, leaves out only what does not fit, and follows the priorities.
LEMMA AssembleCorrect ==
    ASSUME NEW segs \in Seq(Segments), NEW maxTokens \in Nat
    PROVE  /\ WithinBudget(segs, Assemble(segs, maxTokens), maxTokens)
           /\ NothingOmitted(segs, Assemble(segs, maxTokens), maxTokens)
           /\ PriorityHolds(segs, Assemble(segs, maxTokens))
<1> DEFINE budget == ContextBudget(maxTokens)
           acc == Pass(segs, budget)[Len(segs)]
           taken == Range(acc.kept)
           critical == {i \in taken : segs[i].type \in Critical}
<1>0. budget \in Nat /\ Len(segs) \in Nat
    BY BudgetIsNat
<1>1. PassInv(segs, acc, budget, Len(segs))
    <2> HIDE DEF budget
    <2> QED BY <1>0, PassCorrect
<1>2. Assemble(segs, maxTokens) = acc.kept
    BY DEF Assemble
<1> HIDE DEF acc
<1>3. acc.rest = {}
    <2>1. IsFiniteSet(acc.rest) /\ Cardinality(acc.rest) = Len(segs) - Len(segs)
        BY <1>1 DEF PassInv, PassCounts
    <2>2. Cardinality(acc.rest) = 0
        BY <1>0, <2>1
    <2> QED BY <2>1, <2>2, FS_EmptySet
<1> HIDE DEF budget
<1>4. WithinBudget(segs, acc.kept, maxTokens)
    <2>1. /\ acc.used = TokensOf(segs, taken)
          /\ acc.untrusted = TokensOf(segs, {i \in taken : segs[i].untrusted})
          /\ acc.untrusted <= UntrustedBudget(budget)
          /\ acc.used <= budget \/ acc.used <= TokensOf(segs, critical)
        BY <1>1 DEF PassInv, PassSums
    <2> DEFINE sum == TokensOf(segs, critical)
    <2>2. sum \in Nat /\ acc.used \in Nat
        BY <1>1, TokensAreNat DEF PassInv, PassType
    <2>3. acc.used <= budget \/ acc.used <= sum
        BY <2>1
    <2> HIDE DEF sum
    <2>4. acc.used <= Max({budget, sum})
        BY <1>0, <2>2, <2>3, MaxOfTwo
    <2> HIDE DEF taken
    <2> QED BY <2>1, <2>4 DEF WithinBudget, budget, sum, taken
<1>5. NothingOmitted(segs, acc.kept, maxTokens)
    <2>1. /\ acc.used = TokensOf(segs, taken)
          /\ acc.untrusted = TokensOf(segs, {i \in taken : segs[i].untrusted})
        BY <1>1 DEF PassInv, PassSums
    <2>2. \A i \in DOMAIN segs \ taken :
            LeftOut(segs[i], acc.used, acc.untrusted, budget)
        BY <1>1, <1>3 DEF PassInv, PassOmits
    <2> QED BY <2>1, <2>2 DEF NothingOmitted, LeftOut, budget
<1>6. PriorityHolds(segs, acc.kept)
    <2>1. \A i \in DOMAIN segs \ taken, j \in taken :
            Prior(segs[i], segs[j]) => segs[j].tokens < segs[i].tokens
        BY <1>1, <1>3 DEF PassInv, PassOmits
    <2> QED BY <2>1 DEF PriorityHolds, Prior
<1> QED BY <1>2, <1>4, <1>5, <1>6

\* Nothing is made of nothing.
LEMMA AssembleNone == <<>> \in Seq(Segments) /\ Assemble(<<>>, MaxTokens) = <<>>
<1>1. <<>> \in Seq(Segments) /\ Len(<<>>) = 0
    OBVIOUS
<1>2. Pass(<<>>, ContextBudget(MaxTokens))[0] = Start(<<>>)
    BY <1>1, PassSteps
<1> QED BY <1>1, <1>2 DEF Assemble, Start

-----------------------------------------------------------------------------
(***************************************************************************)
(* The contexts of runs                                                    *)
(***************************************************************************)
\* What is kept is what assemble() makes of the segments in hand.
ContextInv == segments \in Seq(Segments) /\ kept = Assemble(segments, MaxTokens)

\* What add() appends is a segment.
LEMMA SegmentType ==
    ASSUME NEW type \in Types, NEW size \in Nat, NEW relevance \in Int, NEW flagged \in BOOLEAN
    PROVE  Segment(type, size, relevance, flagged) \in Segments
<1> DEFINE untrusted == flagged \/ type \in {"untrusted", "tool_output", "external_data"}
<1>1. untrusted \in BOOLEAN
    OBVIOUS
<1>2. size + (IF untrusted THEN Boundary ELSE 0) \in Nat
    BY AssemblerAssumption
<1>3. Segment(type, size, relevance, flagged) =
        [type |-> type, tokens |-> size + (IF untrusted THEN Boundary ELSE 0),
         relevance |-> relevance, untrusted |-> untrusted]
    BY DEF Segment
<1> HIDE DEF untrusted
<1> QED BY <1>1, <1>2, <1>3 DEF Segments

\* Every initial state satisfies the invariant (Init).
LEMMA ContextInit == Init => ContextInv
BY AssembleNone DEF Init, ContextInv

\* Building and discarding a context keep it (BuildContext, Discard).
LEMMA ContextNext == ContextInv /\ [Next]_vars => ContextInv'
<1> SUFFICES ASSUME ContextInv, [Next]_vars
             PROVE  ContextInv'
    OBVIOUS
<1>1. ASSUME NEW goal \in Goals, NEW items \in Retrievals,
             NEW extras \in BoundedSeq(Extras, MaxExtras), BuildContext(goal, items, extras)
      PROVE  ContextInv'
    <2>0. goal \in Nat
        BY ContextAssumption
    <2>1. /\ "task_goal" \in Types /\ "memory" \in Types
          /\ \A x \in Extras : x.type \in Types
        BY DEF Types
    <2> DEFINE first == Segment("task_goal", goal, 2, FALSE)
    <2>2. first \in Segments
        <3>1. \A flagged \in BOOLEAN, size \in Nat, type \in Types :
                Segment(type, size, 2, flagged) \in Segments
            BY SegmentType
        <3> QED BY <2>0, <2>1, <3>1, Zenon
    <2> HIDE DEF first
    <2>3. MemorySegments(items) \in Seq(Segments)
        <3>1. PICK m \in Nat : items \in [1..m -> Retrievable]
            BY ContextAssumption DEF Retrievals, BoundedSeq, SeqOf
        <3>2. \A k \in 1..m : /\ Size[items[k]] \in Nat
                              /\ Confidence(items[k]) \in Int
            BY <3>1, ContextAssumption DEF Retrievable, Confidence
        <3>3. \A k \in 1..m :
                Segment("memory", Size[items[k]], Confidence(items[k]), FALSE) \in Segments
            BY <2>1, <3>2, SegmentType
        <3>4. MemorySegments(items) \in [1..m -> Segments]
            BY <3>1, <3>3 DEF MemorySegments
        <3> QED BY <3>4
    <2>4. ExtraSegments(extras) \in Seq(Segments)
        <3>1. PICK m \in Nat : extras \in [1..m -> Extras]
            BY ContextAssumption DEF BoundedSeq, SeqOf
        <3>2. \A k \in 1..m : /\ extras[k].type \in Types /\ extras[k].size \in Nat
                              /\ extras[k].relevance \in Int /\ extras[k].flagged \in BOOLEAN
            BY <2>1, <3>1, ContextAssumption
        <3>3. \A k \in 1..m :
                Segment(extras[k].type, extras[k].size, extras[k].relevance, extras[k].flagged)
                    \in Segments
            BY <3>2, SegmentType
        <3>4. ExtraSegments(extras) \in [1..m -> Segments]
            BY <3>1, <3>3 DEF ExtraSegments
        <3> QED BY <3>4
    <2>5. segments' \in Seq(Segments)
        <3>1. segments' = <<first>> \o MemorySegments(items) \o ExtraSegments(extras)
            BY <1>1 DEF BuildContext, first
        <3>2. <<first>> \in Seq(Segments)
            BY <2>2
        <3> QED BY <2>3, <2>4, <3>1, <3>2
    <2> QED BY <1>1, <2>5 DEF BuildContext, ContextInv
<1>2. CASE Discard
    BY <1>2, AssembleNone DEF Discard, ContextInv
<1>3. CASE UNCHANGED ctxVars
    BY <1>3 DEF ctxVars, ContextInv
<1> QED BY <1>1, <1>2, <1>3 DEF Next, vars

\* The invariant holds in every reachable state.
LEMMA ContextAlways == Spec => []ContextInv
BY ContextInit, ContextNext, PTL DEF Spec

\* And so do the three properties of a selection.
LEMMA ContextInvHolds == ContextInv => ContextFits /\ ContextIsFull /\ ContextIsRanked
BY AssembleCorrect, ContextAssumption
   DEF ContextInv, ContextFits, ContextIsFull, ContextIsRanked

\* Whatever a run is told keeps to its token budget, policy and goal apart, and untrusted
\* content to its quarter, for any memory, segments and budget (assemble).
THEOREM ContextFitsCorrect == Spec => []ContextFits
<1>1. ContextInv => ContextFits
    BY ContextInvHolds
<1> QED BY <1>1, ContextAlways, PTL

\* Nothing that would still fit is ever left out of a context (assemble).
THEOREM ContextIsFullCorrect == Spec => []ContextIsFull
<1>1. ContextInv => ContextIsFull
    BY ContextInvHolds
<1> QED BY <1>1, ContextAlways, PTL

\* No segment gives way to one of lower priority that costs as much (assemble, SEQUENCE).
THEOREM ContextIsRankedCorrect == Spec => []ContextIsRanked
<1>1. ContextInv => ContextIsRanked
    BY ContextInvHolds
<1> QED BY <1>1, ContextAlways, PTL

\* Building contexts beside it does nothing to the memory service: the composition
\* implements it, so what is proved of MemSpec holds of every run's context (BuildContext,
\* Discard).
THEOREM ContextIsMemory == Spec => MemSpec
<1>1. Init => MemInit
    BY DEF Init
<1>2. [Next]_vars => [MemNext]_memVars
    BY DEF Next, vars, BuildContext, Discard
<1> QED BY <1>1, <1>2, PTL DEF Spec, MemSpec
=============================================================================
