-------------------------- MODULE MemoryLifecycle --------------------------
(***************************************************************************)
(* Memory items: proposed over the API, promoted by the scheduler, decided *)
(* by administrators, retired, and retrieved for the context of a run.     *)
(* Every operation but creation and retrieval loads rows in one statement  *)
(* and writes what it made of them in a later one, without a lock, so that *)
(* operations of two sessions overlap.                                     *)
(***************************************************************************)
EXTENDS Naturals, FiniteSets

CONSTANTS
    Items,      \* bound: the rows there may be
    Sessions,   \* database sessions of the API, the scheduler and other callers
    Confident,  \* items proposed with a confidence above the threshold of promotion
    Mortal,     \* items proposed with a time to live
    MinRuns     \* completed runs that promotion asks for (2)

MemoryStatus == {"CANDIDATE", "APPROVED", "AUTO_APPROVED", "ACTIVE",
                 "SUPERSEDED", "EXPIRED", "REJECTED"}

ASSUME MemoryAssumption ==
    MinRuns \in Nat /\ Confident \subseteq Items /\ Mortal \subseteq Items

VARIABLES
    status,      \* status of each item, or "none" before it is created
    verified,    \* items whose verification_status is 'verified'
    aged,        \* items whose expires_at has passed
    completed,   \* completed runs, counted up to MinRuns
    op,          \* per session: the operation it is in, or "none"
    loaded,      \* per session: the items it will write
    endorsed,    \* history: items that were promoted or approved as candidates
    buried       \* history: items rejected while no other session was writing them

rows == <<status, verified>>
history == <<endorsed, buried>>
memVars == <<rows, aged, completed, op, loaded, history>>

MemInit ==
    /\ status = [i \in Items |-> "none"]
    /\ verified = {} /\ aged = {}
    /\ completed = 0
    /\ op = [s \in Sessions |-> "none"]
    /\ loaded = [s \in Sessions |-> {}]
    /\ endorsed = {} /\ buried = {}

Exists(i) == status[i] # "none"

-----------------------------------------------------------------------------
(***************************************************************************)
(* Loading: the guards are evaluated on what is read here                  *)
(***************************************************************************)
Load(s, name, items) ==
    /\ op[s] = "none"
    /\ op' = [op EXCEPT ![s] = name]
    /\ loaded' = [loaded EXCEPT ![s] = items]
    /\ UNCHANGED <<rows, aged, completed, history>>

\* Mutant: activation of whatever is not yet active.
mark_activeAny(s, i) == Exists(i) /\ Load(s, "activate", {i})

\* decide_memory with approve or activate: both end in mark_active, which changes
\* nothing for any other status.
mark_active(s, i) ==
    /\ Exists(i)
    /\ Load(s, "activate", {i} \cap {j \in Items : status[j] \in {"APPROVED", "AUTO_APPROVED"}})

\* decide_memory with reject, from any status; a row that has it is not written again.
reject(s, i) ==
    /\ Exists(i)
    /\ Load(s, "reject", {i} \cap {j \in Items : status[j] # "REJECTED"})

approve(s, i) ==
    /\ status[i] = "CANDIDATE"
    /\ Load(s, "approve", {i})

supersede(s, old, new) ==
    /\ status[new] = "ACTIVE" /\ Exists(old) /\ old # new
    /\ Load(s, "supersede", {old})

\* Mutant: rejected items are promoted as well.
PromotableAgain == {i \in Confident \ aged : status[i] \in {"CANDIDATE", "REJECTED"}}

Promotable == {i \in Confident \ aged : status[i] = "CANDIDATE"}

auto_promote_candidates(s) ==
    /\ completed >= MinRuns
    /\ Load(s, "promote", Promotable)

expire_sweep(s) ==
    Load(s, "expire", {i \in aged : Exists(i) /\ status[i] \notin {"EXPIRED", "SUPERSEDED"}})

-----------------------------------------------------------------------------
(***************************************************************************)
(* Creation, and writing: flush and commit                                 *)
(***************************************************************************)
create_candidate(i) ==
    /\ ~Exists(i)
    /\ status' = [status EXCEPT ![i] = "CANDIDATE"]
    /\ UNCHANGED <<verified, aged, completed, op, loaded, history>>

Outcome ==
    [activate |-> "ACTIVE", reject |-> "REJECTED", approve |-> "APPROVED",
     promote |-> "AUTO_APPROVED", supersede |-> "SUPERSEDED", expire |-> "EXPIRED"]

Write(s) ==
    /\ op[s] # "none"
    /\ status' = [i \in Items |-> IF i \in loaded[s] THEN Outcome[op[s]] ELSE status[i]]
    /\ verified' = IF op[s] \in {"activate", "approve", "promote"} THEN verified \cup loaded[s]
                   ELSE verified
    /\ endorsed' = IF op[s] \in {"approve", "promote"} THEN endorsed \cup loaded[s] ELSE endorsed
    /\ buried' = IF op[s] = "reject"
                 THEN buried \cup {i \in loaded[s] : \A t \in Sessions \ {s} : i \notin loaded[t]}
                 ELSE buried
    /\ op' = [op EXCEPT ![s] = "none"]
    /\ loaded' = [loaded EXCEPT ![s] = {}]
    /\ UNCHANGED <<aged, completed>>

-----------------------------------------------------------------------------
(***************************************************************************)
(* Retrieval and environment                                               *)
(***************************************************************************)
RETRIEVAL_ALLOWED_STATUSES == {"ACTIVE", "APPROVED", "AUTO_APPROVED"}

\* search() as retrieve_for_context calls it.
Retrievable ==
    {i \in Items : status[i] \in RETRIEVAL_ALLOWED_STATUSES /\ i \in verified /\ i \notin aged}

\* expires_at passes.
Age(i) ==
    /\ Exists(i) /\ i \in Mortal \ aged
    /\ aged' = aged \cup {i}
    /\ UNCHANGED <<rows, completed, op, loaded, history>>

\* A run completes.
RunCompletes ==
    /\ completed < MinRuns /\ completed' = completed + 1
    /\ UNCHANGED <<rows, aged, op, loaded, history>>

MemNext ==
    \/ \E s \in Sessions, i \in Items : mark_active(s, i) \/ reject(s, i) \/ approve(s, i)
    \/ \E s \in Sessions, i, j \in Items : supersede(s, i, j)
    \/ \E s \in Sessions : auto_promote_candidates(s) \/ expire_sweep(s) \/ Write(s)
    \/ \E i \in Items : create_candidate(i) \/ Age(i)
    \/ RunCompletes

MemSpec == MemInit /\ [][MemNext]_memVars

-----------------------------------------------------------------------------
(***************************************************************************)
(* Properties                                                              *)
(***************************************************************************)
\* Statuses, sets of items and the state of the sessions have their shape.
MemTypeOK ==
    /\ status \in [Items -> MemoryStatus \cup {"none"}]
    /\ verified \subseteq Items /\ aged \subseteq Mortal
    /\ completed \in 0..MinRuns
    /\ op \in [Sessions -> DOMAIN Outcome \cup {"none"}]
    /\ loaded \in [Sessions -> SUBSET Items]
    /\ endorsed \subseteq Items /\ buried \subseteq Items

\* Nothing that a run may be given as memory got there without having been promoted or
\* approved while it was a candidate, whatever sessions overlap: an administrator's
\* "activate" alone never does it (mark_active).
OnlyEndorsed == Retrievable \subseteq endorsed

\* An item that was rejected while no other session had it in hand is never retrieved
\* again, whatever is loaded and written afterwards (reject, auto_promote_candidates).
RejectionSticks == \A i \in buried : i \notin Retrievable
=============================================================================
