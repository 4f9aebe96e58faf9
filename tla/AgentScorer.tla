---------------------------- MODULE AgentScorer ----------------------------
(***************************************************************************)
(* The poller that scores messages of Technocore rooms.  One turn reads    *)
(* the room of announcements, then every configured or announced room from *)
(* its stored cursor, evaluates the new messages, stores the evaluations,  *)
(* sends alerts and moves the cursor.  Cursor and evaluations are rows of  *)
(* one database session that is committed at the end of each room; the     *)
(* announced rooms live in memory; the alerts leave the process before the *)
(* commit.  A statement that fails makes every later statement of the      *)
(* session fail until it is rolled back.                                   *)
(***************************************************************************)
EXTENDS Integers, Sequences, FiniteSets

CONSTANTS
    Configured,   \* TECHNOCORE_MONITORED_ROOMS
    Announced,    \* rooms that only the announcements name
    Events,       \* the room of announcements
    Kinds,        \* kinds of message that agents post
    Answers,      \* what a model may answer: [score, tier]
    MaxResponse,  \* messages that fit into a response of 1 MiB
    MaxPosts,     \* bound: messages in all rooms
    MaxTroubles   \* bound: failing statements, failing reads and restarts

Rooms == Configured \cup Announced \cup {Events}
Scored == Configured \cup Announced

VALID_TIERS == {"SAFE", "WATCH", "RISKY", "DANGEROUS"}
ALERT_TIERS == {"RISKY", "DANGEROUS"}

ASSUME ScorerAssumption ==
    /\ Configured \cap Announced = {}
    /\ Events \notin Scored
    /\ MaxResponse \in Nat
    /\ MaxPosts \in Nat /\ MaxTroubles \in Nat
    /\ \A a \in Answers : a.score \in Int

VARIABLES
    log,         \* per room: the messages on the server, numbered from 1
    cursor,      \* technocore_cursors, committed
    evals,       \* agent_evaluations, committed: <<room, seq, tier>>
    txCursor,    \* the same two tables as the session sees them
    txEvals,
    broken,      \* the session refuses statements until a rollback
    discovered,  \* AgentScorer._discovered
    pc,          \* step of poll_once
    todo,        \* rooms of this turn still to be read
    room,        \* room in hand
    since,       \* local cursor: what the room is read from
    batch,       \* numbers of the messages of the response, still to be scored
    lastSeq,     \* last_seq of the response
    maxSeq,      \* largest number seen
    alerts,      \* per message: alerts that Telegram delivered to somebody
    dropped,     \* history: messages whose evaluation a failing statement undid
    missed,      \* history: messages that a response passed over, or that were not looked
                 \* at because an announcement before them raised
    posts,
    faults,
    restarts

db == <<cursor, evals>>
session == <<txCursor, txEvals, broken>>
local == <<todo, room, since, batch, lastSeq, maxSeq>>
vars == <<log, db, session, discovered, pc, local, alerts, dropped, missed, posts, faults, restarts>>

Messages == Scored \X (1..MaxPosts)

Init ==
    /\ log = [r \in Rooms |-> <<>>]
    /\ cursor = [r \in Rooms |-> 0] /\ txCursor = cursor
    /\ evals = {} /\ txEvals = {}
    /\ broken = FALSE
    /\ discovered = {}
    /\ pc = "sleep"
    /\ todo = {} /\ room = Events /\ since = 0
    /\ batch = {} /\ lastSeq = 0 /\ maxSeq = 0
    /\ alerts = [m \in Messages |-> 0]
    /\ dropped = {} /\ missed = {}
    /\ posts = 0 /\ faults = 0 /\ restarts = 0

-----------------------------------------------------------------------------
(***************************************************************************)
(* The evaluator: a model's answer if there is a usable one, else patterns *)
(***************************************************************************)
MaxOf(a, b) == IF a >= b THEN a ELSE b
MinOf(a, b) == IF a <= b THEN a ELSE b

TierFromScore(score) ==
    CASE score >= 80 -> "DANGEROUS"
      [] score \in 55..79 -> "RISKY"
      [] score \in 30..54 -> "WATCH"
      [] OTHER -> "SAFE"

\* Mutant: the tier of the answer is taken as it is.
NormalizedTierUnchecked(answer) == answer.tier

NormalizedTier(answer) ==
    IF answer.tier \in VALID_TIERS THEN answer.tier
    ELSE TierFromScore(MaxOf(0, MinOf(100, answer.score)))

\* 10 when no pattern matches; 85 is the score of the strongest one.
HeuristicScore(kind) == IF kind = "hostile" THEN 85 ELSE 10

\* Any answer of the model, or the patterns when there is no model or its call fails.
PossibleTiers(kind) ==
    {TierFromScore(HeuristicScore(kind))} \cup {NormalizedTier(a) : a \in Answers}

-----------------------------------------------------------------------------
(***************************************************************************)
(* The session                                                             *)
(***************************************************************************)
Trouble == faults + restarts < MaxTroubles
Fault == Trouble /\ faults' = faults + 1

\* Mutant: the last number a response states is the cursor.
SetCursorAnywhere(cursors, r, seq) == [cursors EXCEPT ![r] = seq]

\* Only forward; a missing row counts as 0.
SetCursor(cursors, r, seq) == [cursors EXCEPT ![r] = MaxOf(@, seq)]

Rollback == txCursor' = cursor /\ txEvals' = evals /\ broken' = FALSE

\* Mutant: the cursor has a transaction of its own.
CommitCursorAlone(cursors) ==
    /\ cursor' = cursors /\ txCursor' = cursors
    /\ UNCHANGED <<evals, txEvals, broken>>

Commit(cursors) ==
    /\ cursor' = cursors /\ txCursor' = cursors
    /\ evals' = txEvals
    /\ UNCHANGED <<txEvals, broken>>

\* Mutant: the transaction is left to the end of the session, which drops it.
StoreNothing(cursors) == Rollback /\ UNCHANGED <<db, faults>>

\* set_cursor and commit, or the rollback in the except clause.
Store(cursors) ==
    \/ ~broken /\ Commit(cursors) /\ UNCHANGED faults
    \/ ~broken /\ Fault /\ Rollback /\ UNCHANGED db
    \/ broken /\ Rollback /\ UNCHANGED <<db, faults>>

-----------------------------------------------------------------------------
(***************************************************************************)
(* One turn                                                                *)
(***************************************************************************)
\* A turn starts with a new session and the room of announcements.
Wake ==
    /\ pc = "sleep"
    /\ Rollback
    /\ pc' = "cursor" /\ room' = Events
    /\ UNCHANGED <<log, posts, db, discovered, todo, since, batch, lastSeq, maxSeq, alerts, dropped, missed, faults, restarts>>

\* get_cursor; when it fails the room is read from the start.
GetCursor ==
    /\ pc = "cursor"
    /\ \/ ~broken /\ since' = txCursor[room] /\ UNCHANGED <<broken, faults>>
       \/ ~broken /\ since' = 0 /\ broken' = TRUE /\ Fault
       \/ broken /\ since' = 0 /\ UNCHANGED <<broken, faults>>
    /\ pc' = "read"
    /\ UNCHANGED <<log, posts, db, txCursor, txEvals, discovered, todo, room, batch, lastSeq, maxSeq, alerts, dropped, missed, restarts>>

\* The messages that the server has after `since`.
New == (since + 1)..Len(log[room])

\* What a response with some of the new messages and the number `last` does to the locals.
\* Messages that it leaves out before `last`, or before a numbered one that it brings, are
\* not asked for again.
Receive(got, last) ==
    /\ batch' = got /\ lastSeq' = last /\ maxSeq' = since
    /\ missed' = missed \cup {<<room, s>> : s \in
          {t \in New \ got : \/ t <= last
                             \/ \E u \in got : t < u /\ log[room][u] # "unnumbered"}}
    /\ pc' = IF room = Events THEN "discover" ELSE "score"

\* read_room, which also moves the session's cursor to last_seq, over any gap, and
\* swallows a failure to do so.  Without a last_seq the response counts as stating `since`.
\* The server need not return what it has: but it moves the cursor, or returns everything.
ReadRoom ==
    /\ pc = "read"
    /\ \E got \in SUBSET New, last \in since..Len(log[room]) :
        /\ Cardinality(got) <= MaxResponse
        /\ last > since \/ got = New
        /\ Receive(got, last)
        /\ \/ ~broken /\ txCursor' = SetCursor(txCursor, room, last) /\ UNCHANGED <<broken, faults>>
           \/ ~broken /\ broken' = TRUE /\ Fault /\ UNCHANGED txCursor
           \/ broken /\ UNCHANGED <<txCursor, broken, faults>>
    /\ UNCHANGED <<log, posts, db, txEvals, discovered, todo, room, since, alerts, dropped, restarts>>

\* An answer that does neither; one that is no JSON counts as one without messages.
ReadPartly ==
    /\ pc = "read"
    /\ Fault
    /\ \E got \in SUBSET New : Cardinality(got) <= MaxResponse /\ Receive(got, since)
    /\ txCursor' = IF broken THEN txCursor ELSE SetCursor(txCursor, room, since)
    /\ UNCHANGED <<log, posts, db, txEvals, broken, discovered, todo, room, since, alerts, dropped, restarts>>

\* Mutant: one room per turn.
NextRoomOnly(rooms) ==
    /\ \/ \E r \in rooms : room' = r /\ todo' = {} /\ pc' = "cursor"
       \/ rooms = {} /\ room' = Events /\ todo' = {} /\ pc' = "sleep"
    /\ since' = 0 /\ batch' = {} /\ lastSeq' = 0 /\ maxSeq' = 0

\* The next room of the turn, or the end of the turn.  The code takes them in a fixed
\* order.  The locals of the last room are set anew before they are used again.
NextRoom(rooms) ==
    /\ \/ \E r \in rooms : room' = r /\ todo' = rooms \ {r} /\ pc' = "cursor"
       \/ rooms = {} /\ room' = Events /\ todo' = {} /\ pc' = "sleep"
    /\ since' = 0 /\ batch' = {} /\ lastSeq' = 0 /\ maxSeq' = 0

\* The rooms that are read after a read that failed.
RoomsAfter == IF room = Events THEN Configured \cup discovered ELSE todo

\* Retries are used up, or the server answers with an error: the room is skipped.  Messages
\* of a room that are no list end the turn.
ReadFails ==
    /\ pc = "read"
    /\ Fault
    /\ \/ NextRoom(RoomsAfter)
       \/ room # Events /\ NextRoom({})
    /\ UNCHANGED <<log, posts, db, session, discovered, alerts, dropped, missed, restarts>>

\* The response is above the limit of 1 MiB.  The room is skipped, and read from the same
\* cursor on the next turn: no failure of the moment, and nothing to end it.
ReadTooLarge ==
    /\ pc = "read"
    /\ \E got \in SUBSET New : Cardinality(got) > MaxResponse
    /\ NextRoom(RoomsAfter)
    /\ UNCHANGED <<log, posts, db, session, discovered, alerts, dropped, missed, faults, restarts>>

\* The announcements that are looked at: those before one whose room is no string, on
\* which strip() raises.
Legible == {i \in batch : \A j \in batch : j <= i => log[Events][j] # "garbled"}

\* Mutant: an announcement counts when it is the last one of the room.
NamedRoomsOfLast == {log[Events][i] : i \in Legible \cap {lastSeq}} \cap Announced

\* The rooms that the new announcements name.
NamedRooms == {log[Events][i] : i \in Legible} \cap Announced

\* Announcements are remembered before the cursor that passes them is stored.  When one
\* raises, nothing is stored here; the cursor that read_room moved stays in the session and
\* is committed with the next room.
Discover ==
    /\ pc = "discover"
    /\ discovered' = discovered \cup NamedRooms
    /\ missed' = missed \cup {<<Events, i>> : i \in batch \ Legible}
    /\ IF Legible = batch /\ lastSeq > since THEN Store(SetCursor(txCursor, Events, lastSeq))
       ELSE UNCHANGED <<db, session, faults>>
    /\ NextRoom(Configured \cup discovered')
    /\ UNCHANGED <<log, posts, alerts, dropped, restarts>>

-----------------------------------------------------------------------------
(***************************************************************************)
(* Scoring, in the order of the numbers                                    *)
(***************************************************************************)
InHand == CHOOSE s \in batch : \A t \in batch : s <= t

Has(table, r, s) == \E e \in table : e[1] = r /\ e[2] = s

\* Without a number a message is passed over and does not count for the cursor.
Passes(s) == maxSeq' = IF log[room][s] = "unnumbered" THEN maxSeq ELSE MaxOf(maxSeq, s)

\* No number, an evaluation that raises, or an evaluation that is already there.
SkipMessage ==
    /\ pc = "score" /\ batch # {}
    /\ \/ log[room][InHand] \in {"unnumbered", "malformed"}
       \/ ~broken /\ Has(txEvals, room, InHand)
    /\ Passes(InHand)
    /\ batch' = batch \ {InHand}
    /\ UNCHANGED <<log, posts, db, session, discovered, pc, todo, room, since, lastSeq, alerts, dropped, missed, faults, restarts>>

Due == log[room][InHand] \notin {"unnumbered", "malformed"}

\* The evaluation is flushed and the alert of a risky one leaves; nothing is committed yet.
\* That nobody is configured to get it, that Telegram refuses it or that sending raises is
\* swallowed.
ScoreMessage ==
    /\ pc = "score" /\ batch # {} /\ Due
    /\ ~broken /\ ~Has(txEvals, room, InHand)
    /\ \E tier \in PossibleTiers(log[room][InHand]), sent \in BOOLEAN :
        /\ txEvals' = txEvals \cup {<<room, InHand, tier>>}
        /\ alerts' = IF tier \in ALERT_TIERS /\ sent THEN [alerts EXCEPT ![<<room, InHand>>] = @ + 1] ELSE alerts
    /\ Passes(InHand)
    /\ batch' = batch \ {InHand}
    /\ UNCHANGED <<log, posts, db, txCursor, broken, discovered, pc, todo, room, since, lastSeq, dropped, missed, faults, restarts>>

\* The lookup or the insert fails: the session is rolled back, with what was flushed
\* for earlier messages of the batch, and the loop goes on.
StatementFails ==
    /\ pc = "score" /\ batch # {} /\ Due
    /\ \/ broken /\ UNCHANGED faults
       \/ ~broken /\ ~Has(txEvals, room, InHand) /\ Fault
    /\ dropped' = dropped \cup {<<room, InHand>>} \cup {<<e[1], e[2]>> : e \in txEvals \ evals}
    /\ Rollback
    /\ Passes(InHand)
    /\ batch' = batch \ {InHand}
    /\ UNCHANGED <<log, posts, db, discovered, pc, todo, room, since, lastSeq, alerts, missed, restarts>>

\* The end of a room: cursor and evaluations are committed together.
Save ==
    /\ pc = "score" /\ batch = {}
    /\ LET new == MaxOf(lastSeq, maxSeq)
       IN  Store(IF new > since THEN SetCursor(txCursor, room, new) ELSE txCursor)
    /\ NextRoom(todo)
    /\ UNCHANGED <<log, posts, discovered, alerts, dropped, missed, restarts>>

-----------------------------------------------------------------------------
(***************************************************************************)
(* Environment                                                             *)
(***************************************************************************)
\* Somebody posts; in the room of announcements a post names a room or is garbled.
Post(r, kind) ==
    /\ posts < MaxPosts /\ posts' = posts + 1
    /\ log' = [log EXCEPT ![r] = Append(@, kind)]
    /\ UNCHANGED <<db, session, discovered, pc, local, alerts, dropped, missed, faults, restarts>>

\* The scheduler's process ends, anywhere, and starts again.
Restart ==
    /\ Trouble /\ restarts' = restarts + 1
    /\ Rollback
    /\ discovered' = {}
    /\ pc' = "sleep"
    /\ todo' = {} /\ room' = Events /\ since' = 0
    /\ batch' = {} /\ lastSeq' = 0 /\ maxSeq' = 0
    /\ UNCHANGED <<log, posts, db, alerts, dropped, missed, faults>>

Poll ==
    \/ Wake \/ GetCursor \/ ReadRoom \/ ReadTooLarge \/ Discover
    \/ SkipMessage \/ ScoreMessage \/ Save

Next ==
    \/ Poll \/ ReadPartly \/ ReadFails \/ StatementFails
    \/ \E r \in Scored, k \in Kinds : Post(r, k)
    \/ \E r \in Announced \cup {"garbled"} : Post(Events, r)
    \/ Restart

Spec == Init /\ [][Next]_vars /\ WF_vars(Poll \/ StatementFails)

-----------------------------------------------------------------------------
(***************************************************************************)
(* Properties                                                              *)
(***************************************************************************)
\* Every variable of the poller and of the two tables has its shape.
TypeOK ==
    /\ log \in [Rooms -> Seq(Kinds \cup Announced \cup {"garbled"})]
    /\ cursor \in [Rooms -> Nat] /\ txCursor \in [Rooms -> Nat]
    /\ evals \subseteq Scored \X Nat \X VALID_TIERS
    /\ txEvals \subseteq Scored \X Nat \X VALID_TIERS
    /\ broken \in BOOLEAN
    /\ discovered \subseteq Announced
    /\ pc \in {"sleep", "cursor", "read", "discover", "score"}
    /\ todo \subseteq Scored /\ room \in Rooms
    /\ since \in Nat /\ lastSeq \in Nat /\ maxSeq \in Nat /\ batch \subseteq Nat
    /\ alerts \in [Messages -> Nat]
    /\ dropped \subseteq Scored \X Nat /\ missed \subseteq Rooms \X Nat
    /\ posts \in 0..MaxPosts /\ faults \in 0..MaxTroubles /\ restarts \in 0..MaxTroubles

\* Whether message s of room r exists and can be evaluated at all.
Scorable(r, s) == s \in 1..Len(log[r]) /\ log[r][s] \notin {"unnumbered", "malformed"}

\* The stored cursor passes no message that a response brought and that is not stored with
\* it: restarts, failing reads, failing commits and rereads cost none.  What it may pass
\* is a message that no response brought (advance_cursor_from_response takes last_seq over
\* gaps), and one that a failing statement of its own batch took back (the rollback in
\* poll_once).
CursorCoversEvaluations ==
    \A r \in Scored : \A s \in 1..cursor[r] :
        Scorable(r, s) => Has(evals, r, s) \/ <<r, s>> \in dropped \/ <<r, s>> \in missed

\* Message m has an evaluation in a table that calls for an alert.
Risky(table, m) == \E e \in table : e[1] = m[1] /\ e[2] = m[2] /\ e[3] \in ALERT_TIERS

\* An alert is earned: of every message one alert stands for its evaluation as RISKY or
\* DANGEROUS, and every other, repeated or without an evaluation to show for it, is the
\* work of a failing statement or a restart that took an evaluation back after its alert
\* had left (poll_once sends before it commits).
AlertsAreEarned ==
    \A m \in Messages :
        alerts[m] <= faults + restarts + (IF Risky(txEvals, m) THEN 1 ELSE 0)

\* Cursors never go back and a stored evaluation is never replaced, although a room is
\* read from the start when its cursor cannot be read (set_cursor, the duplicate guard).
StoredIsKept ==
    [][/\ \A r \in Rooms : cursor'[r] >= cursor[r]
       /\ evals \subseteq evals'
       /\ \A e \in evals' \ evals : ~Has(evals, e[1], e[2])]_vars

\* The server has more for this room than fits into a response.
Blocked(r) == Len(log[r]) - cursor[r] > MaxResponse

\* A room is watched and has a message without an evaluation that nothing excuses.
Behind(r) ==
    /\ r \in Configured \cup discovered
    /\ \E s \in 1..Len(log[r]) :
          Scorable(r, s) /\ ~Has(evals, r, s) /\ <<r, s>> \notin dropped \cup missed

\* The messages of a watched room are scored in the end, but for those that a failing
\* statement dropped or a response passed over, unless a restart forgets that the room was
\* announced, or the room is behind by more than a response may hold and stays so.
MessagesAreScored ==
    \A r \in Scored : (Behind(r) ~> ~Behind(r)) \/ <>[]Blocked(r)

\* Room r has an announcement that was not missed.
Named(r) == \E i \in 1..Len(log[Events]) : log[Events][i] = r /\ <<Events, i>> \notin missed

\* An announced room is watched in the end, unless the scheduler restarts, which forgets
\* the rooms and keeps the cursor of the announcements, a response passes the announcement
\* over, one before it raises, or the announcements stay too many for a response.
AnnouncedIsWatched ==
    \A r \in Announced :
        (Named(r) ~> r \in discovered \/ restarts > 0 \/ ~Named(r)) \/ <>[]Blocked(Events)
=============================================================================
