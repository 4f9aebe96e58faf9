--------------------------- MODULE MemoryContext ---------------------------
(***************************************************************************)
(* What a run is told: a worker retrieves memory for its task, adds it and *)
(* other segments to an assembler, and the coordinator assembles them.     *)
(* Composes MemoryLifecycle and ContextAssembler.                          *)
(***************************************************************************)
EXTENDS MemoryLifecycle, ContextAssembler

CONSTANTS
    Size,       \* tokens of each item
    Goals,      \* tokens a task's goal may have
    Extras,     \* other segments, as records of type, size, relevance and flagged
    MaxExtras,  \* bound: other segments of one context
    MaxTokens,  \* the run's token budget
    TopK        \* items retrieved at most (10)

ASSUME ContextAssumption ==
    /\ Size \in [Items -> Nat] /\ Goals \subseteq Nat
    /\ \A x \in Extras : x.size \in Nat /\ x.relevance \in Int /\ x.flagged \in BOOLEAN
    /\ MaxExtras \in Nat /\ MaxTokens \in Nat /\ TopK \in Nat

VARIABLES
    segments,   \* ContextAssembler._segments, <<>> when no context is in hand
    kept        \* what assemble() returned: positions of segments

ctxVars == <<segments, kept>>
vars == <<memVars, ctxVars>>

Init == MemInit /\ segments = <<>> /\ kept = <<>>

\* Confidence, which is also the relevance of the segment.
Confidence(i) == IF i \in Confident THEN 2 ELSE 1

\* Items in the order of search(): by confidence, TopK at most.  Which of the retrievable
\* items match the prompt is left open.
Retrievals ==
    {q \in BoundedSeq(Retrievable, TopK) :
        \A a, b \in DOMAIN q : a < b => q[a] # q[b] /\ Confidence(q[a]) >= Confidence(q[b])}

MemorySegments(items) ==
    [k \in DOMAIN items |-> Segment("memory", Size[items[k]], Confidence(items[k]), FALSE)]

ExtraSegments(extras) ==
    [k \in DOMAIN extras |->
        Segment(extras[k].type, extras[k].size, extras[k].relevance, extras[k].flagged)]

\* The worker's assembler and the coordinator's assemble().  Memory sessions do not see
\* it, so it is one step.
BuildContext(goal, items, extras) ==
    /\ segments = <<>>
    /\ segments' = <<Segment("task_goal", goal, 2, FALSE)>> \o MemorySegments(items)
                      \o ExtraSegments(extras)
    /\ kept' = Assemble(segments', MaxTokens)
    /\ UNCHANGED memVars

\* The run has used its context.
Discard ==
    /\ segments # <<>>
    /\ segments' = <<>> /\ kept' = <<>>
    /\ UNCHANGED memVars

Next ==
    \/ segments = <<>> /\ MemNext /\ UNCHANGED ctxVars
    \/ \E goal \in Goals, items \in Retrievals, extras \in BoundedSeq(Extras, MaxExtras) :
            BuildContext(goal, items, extras)
    \/ Discard

Spec == Init /\ [][Next]_vars

-----------------------------------------------------------------------------
\* The prompt keeps to the token budget, and untrusted content of every type to its
\* quarter of it (assemble).
ContextFits == WithinBudget(segments, kept, MaxTokens)

\* assemble leaves out only what does not fit beside what it keeps, never a trusted
\* policy or goal.
ContextIsFull == NothingOmitted(segments, kept, MaxTokens)

\* Nothing gives way to a segment of lower priority that costs as much (SEQUENCE, the
\* sort by relevance).
ContextIsRanked == PriorityHolds(segments, kept)
=============================================================================
