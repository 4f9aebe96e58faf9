------------------------ MODULE TelegramInboxProofs ------------------------
(***************************************************************************)
(* Proofs about TelegramInbox, for any updates, any number of deliveries   *)
(* at a time and any number of faults and crashes.                         *)
(***************************************************************************)
EXTENDS TelegramInbox, TLAPS

Handled(u) == applied[u] > 0 \/ u \in dropped

\* A request holds an update that was sent exactly when it is not idle.
RequestInv ==
    \A r \in Requests :
        /\ pc[r] = "idle" <=> update[r] = "none"
        /\ update[r] # "none" => update[r] \in sent

\* Whoever is about to mark an update PROCESSED has handled it.
HandledInv ==
    /\ \A r \in Requests : pc[r] = "done" => Handled(update[r])
    /\ \A u \in Updates : inbox[u] = "PROCESSED" => Handled(u)

\* An update without disturbance is held by one request at most; it was not applied when
\* that request gets to the handlers, and its row says so when it was.
QuietInv ==
    \A u \in Updates \ disturbed :
        /\ \A r, q \in Requests : update[r] = u /\ update[q] = u => r = q
        /\ applied[u] <= 1
        /\ applied[u] = 1 =>
                inbox[u] = "PROCESSED" \/ \E r \in Requests : update[r] = u /\ pc[r] = "done"
        /\ \A r \in Requests : update[r] = u =>
                /\ pc[r] \in {"insert", "handle", "failed"} => applied[u] = 0
                /\ pc[r] \in {"handle", "done", "failed"} => inbox[u] # "none"

\* Who inserted the row of an update that is not handled still holds it, unless a delivery
\* broke; an update that was answered without having been handled has a row.
OwnerInv ==
    \A u \in Updates :
        /\ inbox[u] # "none" /\ ~Handled(u) /\ u \notin broken =>
                \E r \in Requests : update[r] = u /\ pc[r] \in {"handle", "failed"}
        /\ u \in mistaken => inbox[u] # "none"
        /\ u \in sent => Handled(u) \/ u \in owed \/ u \in mistaken

IInv == TypeOK /\ RequestInv /\ HandledInv /\ QuietInv /\ OwnerInv

-----------------------------------------------------------------------------
\* Every initial state satisfies the invariant (Init).
LEMMA InboxInit == Init => IInv
<1> SUFFICES ASSUME Init PROVE IInv
    OBVIOUS
<1> USE InboxAssumption DEF Init, Handled
<1>1. TypeOK
    BY DEF TypeOK, Started
<1>2. RequestInv /\ HandledInv /\ OwnerInv
    BY DEF RequestInv, HandledInv, OwnerInv
<1>3. QuietInv
    BY DEF QuietInv
<1> QED BY <1>1, <1>2, <1>3 DEF IInv

\* A user's update is owed and held by nobody (Send).
LEMMA SendInv ==
    ASSUME IInv, NEW u \in Updates, Send(u)
    PROVE  IInv'
<1> USE InboxAssumption DEF Send, requests, history
<1>1. TypeOK'
    BY DEF IInv, TypeOK
<1>2. RequestInv' /\ HandledInv'
    BY DEF IInv, TypeOK, RequestInv, HandledInv, Handled
<1>3. QuietInv' /\ OwnerInv'
    BY DEF IInv, TypeOK, QuietInv, OwnerInv, Handled
<1> QED BY <1>1, <1>2, <1>3 DEF IInv

\* A delivery that overlaps another disturbs its update (Deliver).
LEMMA DeliverInv ==
    ASSUME IInv, NEW r \in Requests, NEW u \in Updates, Deliver(r, u)
    PROVE  IInv'
<1> USE InboxAssumption DEF Deliver
<1>1. TypeOK'
    BY DEF IInv, TypeOK
<1>2. RequestInv' /\ HandledInv'
    BY DEF IInv, TypeOK, RequestInv, HandledInv, Handled
<1>3. QuietInv'
    <2>1. update[r] = "none"
        BY DEF IInv, RequestInv
    <2>2. ASSUME NEW v \in Updates \ disturbed'
          PROVE  /\ \A p, q \in Requests : update'[p] = v /\ update'[q] = v => p = q
                 /\ \A q \in Requests : update[q] = v => update'[q] = v /\ pc'[q] = pc[q]
        BY <2>1 DEF IInv, TypeOK, QuietInv, InHand
    <2> QED BY <2>1, <2>2 DEF IInv, TypeOK, QuietInv
<1>4. OwnerInv'
    <2>1. pc[r] = "idle"
        OBVIOUS
    <2>2. \A q \in Requests : pc[q] \in {"handle", "failed"} => update'[q] = update[q] /\ pc'[q] = pc[q]
        BY <2>1 DEF IInv, TypeOK
    <2> QED BY <2>2 DEF IInv, TypeOK, OwnerInv, Handled
<1> QED BY <1>1, <1>2, <1>3, <1>4 DEF IInv

\* What the lookup found is still so when it matters (Lookup).
LEMMA LookupInv ==
    ASSUME IInv, NEW r \in Requests, Lookup(r)
    PROVE  IInv'
<1> DEFINE u == update[r]
<1>0. u \in Updates /\ u \in sent
    BY DEF Lookup, IInv, TypeOK, RequestInv
<1> USE <1>0, InboxAssumption
<1>1. CASE /\ inbox[u] = "PROCESSED" /\ Answer200(r)
           /\ UNCHANGED <<faults, disturbed, sent, inbox, bot, applied, crashes, dropped, mistaken, broken>>
    <2> USE <1>1 DEF Answer200, End
    <2>0. pc[r] = "lookup"
        BY DEF Lookup
    <2>1. TypeOK'
        BY DEF IInv, TypeOK
    <2>2. RequestInv' /\ HandledInv'
        BY DEF IInv, TypeOK, RequestInv, HandledInv, Handled
    <2>3. QuietInv'
        BY <2>0 DEF IInv, TypeOK, QuietInv
    <2>4. Handled(u)
        BY DEF IInv, HandledInv
    <2>5. OwnerInv'
        BY <2>0, <2>4 DEF IInv, TypeOK, OwnerInv, Handled
    <2> QED BY <2>1, <2>2, <2>3, <2>5 DEF IInv
<1>2. CASE /\ inbox[u] # "PROCESSED"
           /\ Goto(r, IF inbox[u] = "none" THEN "insert" ELSE "handle")
           /\ UNCHANGED <<owed, faults, disturbed, sent, inbox, bot, applied, crashes, dropped, mistaken, broken>>
    <2> USE <1>2 DEF Goto
    <2>0. pc[r] = "lookup"
        BY DEF Lookup
    <2>1. TypeOK'
        BY DEF IInv, TypeOK
    <2>2. RequestInv' /\ HandledInv'
        BY DEF IInv, TypeOK, RequestInv, HandledInv, Handled
    <2>3. QuietInv'
        <3>1. u \notin disturbed => applied[u] = 0
            BY <2>0 DEF IInv, TypeOK, QuietInv
        <3> QED BY <2>0, <3>1 DEF IInv, TypeOK, QuietInv
    <2>4. OwnerInv'
        BY <2>0 DEF IInv, TypeOK, OwnerInv, Handled
    <2> QED BY <2>1, <2>2, <2>3, <2>4 DEF IInv
<1>3. CASE /\ Fault(r) /\ Goto(r, "handle")
           /\ UNCHANGED <<owed, sent, inbox, bot, applied, crashes, dropped, mistaken, broken>>
    <2> USE <1>3 DEF Fault, Goto
    <2>0. pc[r] = "lookup"
        BY DEF Lookup
    <2>1. TypeOK'
        BY DEF IInv, TypeOK
    <2>2. RequestInv' /\ HandledInv'
        BY DEF IInv, TypeOK, RequestInv, HandledInv, Handled
    <2>3. QuietInv'
        BY <2>0 DEF IInv, TypeOK, QuietInv
    <2>4. OwnerInv'
        BY <2>0 DEF IInv, TypeOK, OwnerInv, Handled
    <2> QED BY <2>1, <2>2, <2>3, <2>4 DEF IInv
<1> QED BY <1>1, <1>2, <1>3 DEF Lookup

\* The winner of the row owns the update; the loser leaves it to the winner (Insert).
LEMMA InsertInv ==
    ASSUME IInv, NEW r \in Requests, Insert(r)
    PROVE  IInv'
<1> DEFINE u == update[r]
<1>0. u \in Updates /\ u \in sent /\ pc[r] = "insert"
    BY DEF Insert, IInv, TypeOK, RequestInv
<1> USE <1>0, InboxAssumption
<1>1. CASE /\ inbox[u] = "none"
           /\ inbox' = [inbox EXCEPT ![u] = "PENDING"]
           /\ Goto(r, "handle")
           /\ UNCHANGED <<owed, faults, disturbed, mistaken, sent, bot, applied, crashes, dropped, broken>>
    <2> USE <1>1 DEF Goto
    <2>1. TypeOK'
        BY DEF IInv, TypeOK
    <2>2. RequestInv' /\ HandledInv'
        BY DEF IInv, TypeOK, RequestInv, HandledInv, Handled
    <2>3. QuietInv'
        BY DEF IInv, TypeOK, QuietInv
    <2>4. OwnerInv'
        BY DEF IInv, TypeOK, OwnerInv, Handled
    <2> QED BY <2>1, <2>2, <2>3, <2>4 DEF IInv
<1>2. CASE /\ inbox[u] # "none"
           /\ Answer200(r) /\ mistaken' = mistaken \cup {u}
           /\ UNCHANGED <<inbox, faults, disturbed, sent, bot, applied, crashes, dropped, broken>>
    <2> USE <1>2 DEF Answer200, End
    <2>1. TypeOK'
        BY DEF IInv, TypeOK
    <2>2. RequestInv' /\ HandledInv'
        BY DEF IInv, TypeOK, RequestInv, HandledInv, Handled
    <2>3. QuietInv'
        BY DEF IInv, TypeOK, QuietInv
    <2>4. OwnerInv'
        BY DEF IInv, TypeOK, OwnerInv, Handled
    <2> QED BY <2>1, <2>2, <2>3, <2>4 DEF IInv
<1>3. CASE /\ Fault(r) /\ Goto(r, "handle")
           /\ UNCHANGED <<owed, inbox, mistaken, sent, bot, applied, crashes, dropped, broken>>
    <2> USE <1>3 DEF Fault, Goto
    <2>1. TypeOK'
        BY DEF IInv, TypeOK
    <2>2. RequestInv' /\ HandledInv'
        BY DEF IInv, TypeOK, RequestInv, HandledInv, Handled
    <2>3. QuietInv'
        BY DEF IInv, TypeOK, QuietInv
    <2>4. OwnerInv'
        BY DEF IInv, TypeOK, OwnerInv, Handled
    <2> QED BY <2>1, <2>2, <2>3, <2>4 DEF IInv
<1> QED BY <1>1, <1>2, <1>3 DEF Insert

\* A quiet update is applied once; whatever is swallowed is dropped; a build that fails keeps
\* its owner (Handle).
LEMMA HandleInv ==
    ASSUME IInv, NEW r \in Requests, Handle(r)
    PROVE  IInv'
<1> DEFINE u == update[r]
<1>0. u \in Updates /\ u \in sent /\ pc[r] = "handle"
    BY DEF Handle, IInv, TypeOK, RequestInv
<1> USE <1>0, InboxAssumption
<1>1. CASE /\ applied' = [applied EXCEPT ![u] = @ + 1] /\ Goto(r, "done")
           /\ UNCHANGED <<bot, faults, disturbed, dropped, sent, owed, inbox, crashes, mistaken, broken>>
    <2> USE <1>1 DEF Goto
    <2>1. TypeOK'
        BY DEF IInv, TypeOK
    <2>2. Handled(u)' /\ \A v \in Updates : Handled(v) => Handled(v)'
        BY DEF IInv, TypeOK, Handled
    <2>3. RequestInv' /\ HandledInv'
        BY <2>2 DEF IInv, TypeOK, RequestInv, HandledInv
    <2>4. QuietInv'
        BY DEF IInv, TypeOK, QuietInv
    <2>5. OwnerInv'
        BY <2>2 DEF IInv, TypeOK, OwnerInv
    <2> QED BY <2>1, <2>3, <2>4, <2>5 DEF IInv
<1>2. CASE /\ Swallow(r) /\ bot' \in Started
           /\ \/ Fault(r)
              \/ UNCHANGED <<faults, disturbed>>
           /\ UNCHANGED <<sent, owed, inbox, crashes, mistaken, broken>>
    <2> USE <1>2 DEF Swallow, Goto, Fault
    <2>1. TypeOK'
        BY DEF IInv, TypeOK
    <2>2. Handled(u)' /\ \A v \in Updates : Handled(v) => Handled(v)'
        BY DEF IInv, TypeOK, Handled
    <2>3. RequestInv' /\ HandledInv'
        BY <2>2 DEF IInv, TypeOK, RequestInv, HandledInv
    <2>4. QuietInv'
        BY DEF IInv, TypeOK, QuietInv
    <2>5. OwnerInv'
        BY <2>2 DEF IInv, TypeOK, OwnerInv
    <2> QED BY <2>1, <2>3, <2>4, <2>5 DEF IInv
<1>3. CASE /\ Fault(r) /\ Goto(r, "failed")
           /\ UNCHANGED <<bot, applied, dropped, sent, owed, inbox, crashes, mistaken, broken>>
    <2> USE <1>3 DEF Goto, Fault
    <2>1. TypeOK'
        BY DEF IInv, TypeOK
    <2>2. RequestInv' /\ HandledInv'
        BY DEF IInv, TypeOK, RequestInv, HandledInv, Handled
    <2>3. QuietInv'
        BY DEF IInv, TypeOK, QuietInv
    <2>4. OwnerInv'
        BY DEF IInv, TypeOK, OwnerInv, Handled
    <2> QED BY <2>1, <2>2, <2>3, <2>4 DEF IInv
<1> QED
    <2>1. bot \in Started /\ "built" \in Started
        BY DEF IInv, TypeOK, Started
    <2> QED BY <2>1, <1>1, <1>2, <1>3 DEF Handle

\* A failed delivery leaves a broken update to the next one (MarkFailed).
LEMMA MarkFailedInv ==
    ASSUME IInv, NEW r \in Requests, MarkFailed(r)
    PROVE  IInv'
<1> DEFINE u == update[r]
<1>0. u \in Updates /\ u \in sent /\ pc[r] = "failed"
    BY DEF MarkFailed, IInv, TypeOK, RequestInv
<1> USE <1>0, InboxAssumption DEF MarkFailed, Mark, End, Fault
<1>1. TypeOK'
    BY DEF IInv, TypeOK
<1>2. RequestInv' /\ HandledInv'
    BY DEF IInv, TypeOK, RequestInv, HandledInv, Handled
<1>3. QuietInv'
    BY DEF IInv, TypeOK, QuietInv
<1>4. OwnerInv'
    BY DEF IInv, TypeOK, OwnerInv, Handled
<1> QED BY <1>1, <1>2, <1>3, <1>4 DEF IInv

\* What is marked PROCESSED and answered was handled (MarkProcessed).
LEMMA MarkProcessedInv ==
    ASSUME IInv, NEW r \in Requests, MarkProcessed(r)
    PROVE  IInv'
<1> DEFINE u == update[r]
<1>0. u \in Updates /\ u \in sent /\ pc[r] = "done"
    BY DEF MarkProcessed, IInv, TypeOK, RequestInv
<1>1. Handled(u)
    BY <1>0 DEF IInv, HandledInv
<1> USE <1>0, InboxAssumption DEF MarkProcessed, Mark, Answer200, End, Fault
<1>2. TypeOK'
    BY DEF IInv, TypeOK
<1>3. RequestInv' /\ HandledInv'
    BY <1>1 DEF IInv, TypeOK, RequestInv, HandledInv, Handled
<1>4. QuietInv'
    BY DEF IInv, TypeOK, QuietInv
<1>5. OwnerInv'
    BY <1>1 DEF IInv, TypeOK, OwnerInv, Handled
<1> QED BY <1>2, <1>3, <1>4, <1>5 DEF IInv

\* A death disturbs and breaks what was in hand, and nothing else (Crash).
LEMMA CrashInv ==
    ASSUME IInv, Crash
    PROVE  IInv'
<1> USE InboxAssumption DEF Crash
<1>1. \A v \in Updates : InHand(v) # {} => v \in sent
    BY DEF IInv, RequestInv, InHand
<1>2. TypeOK'
    BY <1>1 DEF IInv, TypeOK
<1>3. RequestInv' /\ HandledInv'
    BY DEF IInv, TypeOK, RequestInv, HandledInv, Handled
<1>4. QuietInv'
    BY DEF IInv, TypeOK, QuietInv, InHand
<1>5. OwnerInv'
    BY DEF IInv, TypeOK, OwnerInv, Handled, InHand
<1> QED BY <1>2, <1>3, <1>4, <1>5 DEF IInv

\* Every step keeps the invariant (Next).
LEMMA InboxNext == IInv /\ [Next]_vars => IInv'
<1> SUFFICES ASSUME IInv, [Next]_vars PROVE IInv'
    OBVIOUS
<1>1. CASE Next
    BY <1>1, SendInv, DeliverInv, LookupInv, InsertInv, HandleInv, MarkFailedInv,
       MarkProcessedInv, CrashInv DEF Next, Step
<1>2. CASE UNCHANGED vars
    <2> USE <1>2 DEF vars, requests, history
    <2>1. TypeOK' /\ RequestInv' /\ HandledInv'
        BY DEF IInv, TypeOK, RequestInv, HandledInv, Handled
    <2>2. QuietInv' /\ OwnerInv'
        BY DEF IInv, QuietInv, OwnerInv, Handled
    <2> QED BY <2>1, <2>2 DEF IInv
<1> QED BY <1>1, <1>2

\* The invariant holds in every reachable state.
LEMMA InboxAlways == Spec => []IInv
BY InboxInit, InboxNext, PTL DEF Spec

-----------------------------------------------------------------------------
\* The inbox, its requests and the histories keep their shape (telegram_webhook).
THEOREM InboxTypeCorrect == Spec => []TypeOK
<1>1. IInv => TypeOK
    BY DEF IInv
<1> QED BY <1>1, InboxAlways, PTL

\* No interleaving of deliveries, faults and crashes marks an update PROCESSED that was not
\* handled to the end (telegram_webhook).
THEOREM ProcessedIsHandled == Spec => []ProcessedWasHandled
<1>1. IInv => ProcessedWasHandled
    BY DEF IInv, HandledInv, Handled, ProcessedWasHandled
<1> QED BY <1>1, InboxAlways, PTL

\* Without an overlap, a failure or a death, an update has its effect at most once, however
\* often Telegram repeats it (telegram_webhook).
THEOREM DedupWorks == Spec => []QuietIsOnce
<1>1. IInv => QuietIsOnce
    BY DEF IInv, TypeOK, QuietInv, QuietIsOnce
<1> QED BY <1>1, InboxAlways, PTL

\* An update is acknowledged for nothing only if its handling was swallowed, or it lost the
\* race for its row to a delivery that broke (telegram_webhook, handle_raw_update).
THEOREM AcknowledgedIsApplied == Spec => []AnsweredIsApplied
<1>1. IInv => AnsweredIsApplied
    BY DEF IInv, TypeOK, OwnerInv, Handled, AnsweredIsApplied, InHand
<1> QED BY <1>1, InboxAlways, PTL
=============================================================================
