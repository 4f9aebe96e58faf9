--------------------------- MODULE TelegramInbox ---------------------------
(***************************************************************************)
(* The Telegram webhook: a durable inbox of update ids in front of the     *)
(* command handlers.  Telegram delivers an update until a delivery is      *)
(* answered with 200, also while an earlier delivery is still in hand; the *)
(* API handles deliveries concurrently, its database statements fail, and  *)
(* the process dies.                                                       *)
(***************************************************************************)
EXTENDS Naturals, FiniteSets

CONSTANTS
    Updates,      \* update ids that users' commands and buttons get
    Requests,     \* bound: deliveries in hand at a time
    MaxFaults,    \* bound: database and build failures
    MaxCrashes    \* bound: deaths of the API process

ASSUME InboxAssumption == "none" \notin Updates /\ MaxFaults \in Nat /\ MaxCrashes \in Nat

VARIABLES
    sent,       \* updates that users have made
    owed,       \* updates that Telegram has not seen answered with 200
    inbox,      \* status of each row of telegram_updates, or "none"
    bot,        \* the Application of the singleton: "unbuilt", "built" or "started"
    pc,         \* per request: "idle", "lookup", "insert", "handle", "done" or "failed"
    update,     \* per request: its update, or "none"
    applied,    \* how often the handler of each update has committed
    faults, crashes,
    disturbed,  \* history: updates whose deliveries overlapped, failed or died
    dropped,    \* history: updates whose handling ended without their handler's commit
    mistaken,   \* history: updates a delivery of which lost the race for the row
    broken      \* history: updates a delivery of which was answered with 500 or died

requests == <<pc, update>>
history == <<disturbed, dropped, mistaken, broken>>
vars == <<sent, owed, inbox, bot, requests, applied, faults, crashes, history>>

Started == {"unbuilt", "built", "started"}

Init ==
    /\ sent = {} /\ owed = {}
    /\ inbox = [u \in Updates |-> "none"]
    /\ bot \in Started
    /\ pc = [r \in Requests |-> "idle"]
    /\ update = [r \in Requests |-> "none"]
    /\ applied = [u \in Updates |-> 0]
    /\ faults = 0 /\ crashes = 0
    /\ disturbed = {} /\ dropped = {}
    /\ mistaken = {} /\ broken = {}

InHand(u) == {r \in Requests : update[r] = u}

Goto(r, label) == pc' = [pc EXCEPT ![r] = label] /\ UNCHANGED update

End(r) ==
    /\ pc' = [pc EXCEPT ![r] = "idle"]
    /\ update' = [update EXCEPT ![r] = "none"]

\* A statement of request r fails.
Fault(r) ==
    /\ faults < MaxFaults /\ faults' = faults + 1
    /\ disturbed' = disturbed \cup {update[r]}

\* Telegram may have stopped waiting for the answer.
Answer200(r) ==
    /\ End(r)
    /\ \E heard \in BOOLEAN : owed' = IF heard THEN owed \ {update[r]} ELSE owed

-----------------------------------------------------------------------------
(***************************************************************************)
(* Users and Telegram                                                      *)
(***************************************************************************)
Send(u) ==
    /\ u \notin sent
    /\ sent' = sent \cup {u} /\ owed' = owed \cup {u}
    /\ UNCHANGED <<inbox, bot, requests, applied, faults, crashes, history>>

Deliver(r, u) ==
    /\ pc[r] = "idle" /\ u \in owed
    /\ pc' = [pc EXCEPT ![r] = "lookup"]
    /\ update' = [update EXCEPT ![r] = u]
    /\ disturbed' = IF InHand(u) # {} THEN disturbed \cup {u} ELSE disturbed
    /\ UNCHANGED <<sent, owed, inbox, bot, applied, faults, crashes, dropped, mistaken, broken>>

-----------------------------------------------------------------------------
(***************************************************************************)
(* telegram_webhook: the inbox row                                         *)
(***************************************************************************)
\* Mutant: a row is looked for, its status is not.
LookupExisting(r) ==
    /\ pc[r] = "lookup"
    /\ IF inbox[update[r]] # "none" THEN Answer200(r) ELSE Goto(r, "insert") /\ UNCHANGED owed
    /\ UNCHANGED <<faults, disturbed>>
    /\ UNCHANGED <<sent, inbox, bot, applied, crashes, dropped, mistaken, broken>>

\* Mutant: an update that was processed is handled again.
LookupBlind(r) ==
    /\ pc[r] = "lookup"
    /\ Goto(r, IF inbox[update[r]] = "none" THEN "insert" ELSE "handle") /\ UNCHANGED owed
    /\ UNCHANGED <<faults, disturbed>>
    /\ UNCHANGED <<sent, inbox, bot, applied, crashes, dropped, mistaken, broken>>

\* A row that is PENDING or FAILED is handled again; so is an update whose row cannot be read.
Lookup(r) ==
    /\ pc[r] = "lookup"
    /\ \/ /\ IF inbox[update[r]] = "PROCESSED" THEN Answer200(r)
             ELSE /\ Goto(r, IF inbox[update[r]] = "none" THEN "insert" ELSE "handle")
                  /\ UNCHANGED owed
          /\ UNCHANGED <<faults, disturbed>>
       \/ Fault(r) /\ Goto(r, "handle") /\ UNCHANGED owed
    /\ UNCHANGED <<sent, inbox, bot, applied, crashes, dropped, mistaken, broken>>

\* Mutant: the row is PROCESSED from the start.
InsertProcessed(r) ==
    /\ pc[r] = "insert"
    /\ inbox[update[r]] = "none"
    /\ inbox' = [inbox EXCEPT ![update[r]] = "PROCESSED"]
    /\ Goto(r, "handle") /\ UNCHANGED <<owed, faults, disturbed>>
    /\ UNCHANGED <<sent, bot, applied, crashes, dropped, mistaken, broken>>

\* The loser of the race for the row answers as a duplicate.
Insert(r) ==
    /\ pc[r] = "insert"
    /\ \/ /\ inbox[update[r]] = "none"
          /\ inbox' = [inbox EXCEPT ![update[r]] = "PENDING"]
          /\ Goto(r, "handle") /\ UNCHANGED <<owed, faults, disturbed, mistaken>>
       \/ /\ inbox[update[r]] # "none"
          /\ Answer200(r) /\ mistaken' = mistaken \cup {update[r]}
          /\ UNCHANGED <<inbox, faults, disturbed>>
       \/ Fault(r) /\ Goto(r, "handle") /\ UNCHANGED <<owed, inbox, mistaken>>
    /\ UNCHANGED <<sent, bot, applied, crashes, dropped, broken>>

-----------------------------------------------------------------------------
(***************************************************************************)
(* handle_raw_update and the handlers                                      *)
(***************************************************************************)
\* What a handler raises, and process_update of a bot that was not started, is logged and
\* forgotten: the update counts as handled.
Swallow(r) ==
    /\ Goto(r, "done")
    /\ dropped' = dropped \cup {update[r]}
    /\ UNCHANGED applied

\* build() is called outside the try block.
Handle(r) ==
    /\ pc[r] = "handle"
    /\ \/ /\ bot = "started"
          /\ applied' = [applied EXCEPT ![update[r]] = @ + 1]
          /\ Goto(r, "done")
          /\ UNCHANGED <<bot, faults, disturbed, dropped>>
       \/ /\ bot = "started"
          /\ Fault(r) /\ Swallow(r) /\ UNCHANGED bot
       \/ /\ bot # "started"
          /\ bot' = "built"
          /\ Swallow(r) /\ UNCHANGED <<faults, disturbed>>
       \/ /\ bot = "unbuilt"
          /\ Fault(r) /\ Goto(r, "failed")
          /\ UNCHANGED <<bot, applied, dropped>>
    /\ UNCHANGED <<sent, owed, inbox, crashes, mistaken, broken>>

-----------------------------------------------------------------------------
(***************************************************************************)
(* telegram_webhook: the outcome                                           *)
(***************************************************************************)
\* The row, if there is one and the statement does not fail.
Mark(r, status) ==
    \/ /\ inbox' = IF inbox[update[r]] = "none" THEN inbox
                   ELSE [inbox EXCEPT ![update[r]] = status]
       /\ UNCHANGED <<faults, disturbed>>
    \/ Fault(r) /\ UNCHANGED inbox

\* Mutant: a failure is answered like a success.
MarkFailedOk(r) ==
    /\ pc[r] = "failed"
    /\ Mark(r, "FAILED")
    /\ Answer200(r)
    /\ UNCHANGED <<sent, bot, applied, crashes, dropped, mistaken, broken>>

\* 500: Telegram delivers the update again.
MarkFailed(r) ==
    /\ pc[r] = "failed"
    /\ Mark(r, "FAILED")
    /\ End(r)
    /\ broken' = broken \cup {update[r]}
    /\ UNCHANGED <<sent, owed, bot, applied, crashes, dropped, mistaken>>

MarkProcessed(r) ==
    /\ pc[r] = "done"
    /\ Mark(r, "PROCESSED")
    /\ Answer200(r)
    /\ UNCHANGED <<sent, bot, applied, crashes, dropped, mistaken, broken>>

-----------------------------------------------------------------------------
(***************************************************************************)
(* The process dies                                                        *)
(***************************************************************************)
\* What is in hand is lost; the next process starts its bot, or fails to.
Crash ==
    /\ crashes < MaxCrashes /\ crashes' = crashes + 1
    /\ pc' = [r \in Requests |-> "idle"] /\ update' = [r \in Requests |-> "none"]
    /\ bot' \in Started
    /\ disturbed' = disturbed \cup {u \in Updates : InHand(u) # {}}
    /\ broken' = broken \cup {u \in Updates : InHand(u) # {}}
    /\ UNCHANGED <<sent, owed, inbox, applied, faults, dropped, mistaken>>

Step(r) == Lookup(r) \/ Insert(r) \/ Handle(r) \/ MarkFailed(r) \/ MarkProcessed(r)

Next ==
    \/ \E u \in Updates : Send(u)
    \/ \E r \in Requests, u \in Updates : Deliver(r, u)
    \/ \E r \in Requests : Step(r)
    \/ Crash

\* A request goes on while its process lives.  Telegram keeps delivering an update that it
\* has not seen answered; Requests is a bound of the model, so strong fairness stands for
\* the slot that a server always has.
Fairness ==
    /\ \A r \in Requests : WF_vars(Step(r))
    /\ \A u \in Updates : SF_vars(\E r \in Requests : Deliver(r, u))

Spec == Init /\ [][Next]_vars /\ Fairness

-----------------------------------------------------------------------------
(***************************************************************************)
(* Properties                                                              *)
(***************************************************************************)
\* Statuses, requests and counters have their shape, and what is owed was sent.
TypeOK ==
    /\ owed \subseteq sent /\ sent \subseteq Updates
    /\ inbox \in [Updates -> {"none", "PENDING", "FAILED", "PROCESSED"}]
    /\ bot \in Started
    /\ pc \in [Requests -> {"idle", "lookup", "insert", "handle", "done", "failed"}]
    /\ update \in [Requests -> Updates \cup {"none"}]
    /\ applied \in [Updates -> Nat]
    /\ faults \in 0..MaxFaults /\ crashes \in 0..MaxCrashes
    /\ disturbed \subseteq sent /\ dropped \subseteq sent
    /\ mistaken \subseteq sent /\ broken \subseteq sent

\* Only an update whose handling has ended is PROCESSED, whatever deliveries of it overlap,
\* fail or die (telegram_webhook).
ProcessedWasHandled ==
    \A u \in Updates : inbox[u] = "PROCESSED" => applied[u] > 0 \/ u \in dropped

\* An update has its effect twice only if deliveries of it overlapped, a statement failed
\* or the process died: a lost answer alone never repeats it (telegram_webhook).
QuietIsOnce == \A u \in Updates : applied[u] > 1 => u \in disturbed

\* An update that Telegram saw answered and no request holds has had its effect, unless its
\* handling ended without it, or one delivery failed or died and another was taken for its
\* duplicate (telegram_webhook, handle_raw_update).
AnsweredIsApplied ==
    \A u \in sent \ owed :
        InHand(u) = {} => applied[u] > 0 \/ u \in dropped \/ u \in mistaken \cap broken

\* Every update reaches the handlers, however many deliveries of it fail or die, unless
\* another delivery was taken for a duplicate of one that did (telegram_webhook).
UpdatesAreHandled ==
    \A u \in Updates :
        u \in sent ~> applied[u] > 0 \/ u \in dropped \/ u \in mistaken \cap broken
=============================================================================
