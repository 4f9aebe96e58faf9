-------------------------- MODULE ContextAssembler --------------------------
(***************************************************************************)
(* The context assembler: which segments of a run's context enter the      *)
(* prompt, and in which order, under a token budget.  Segments are what    *)
(* add() makes of its arguments; the content is reduced to its length.     *)
(***************************************************************************)
EXTENDS Integers, Sequences, SequencesExt, FiniteSetsExt

CONSTANTS
    Reserve,    \* OUTPUT_RESERVE_TOKENS (2048)
    MinRoom,    \* tokens beside the reserve at least (1024)
    Boundary    \* tokens of the markers around untrusted content

ASSUME AssemblerAssumption == Reserve \in Nat /\ MinRoom \in Nat /\ Boundary \in Nat

SEQUENCE ==
    <<"system_policy", "task_goal", "conversation_window", "episodic_memory",
      "semantic_memory", "procedural_memory", "memory", "tool_schemas", "untrusted">>

Critical == {"system_policy", "task_goal"}

\* What add() appends for content of a given length.
Segment(type, size, relevance, flagged) ==
    LET untrusted == flagged \/ type \in {"untrusted", "tool_output", "external_data"}
    IN  [type      |-> type,
         tokens    |-> size + (IF untrusted THEN Boundary ELSE 0),
         relevance |-> relevance,
         untrusted |-> untrusted]

\* What is left for the context of a run with this token budget.
ContextBudget(maxTokens) == Max({Reserve + MinRoom, maxTokens}) - Reserve

UntrustedBudget(budget) == budget \div 4

-----------------------------------------------------------------------------
(***************************************************************************)
(* The order: the layers of SEQUENCE, each as its segments were added;     *)
(* then all other types, by falling relevance, equals by the type that was *)
(* added first.                                                            *)
(***************************************************************************)
Layer(type) == Min({n \in DOMAIN SEQUENCE : SEQUENCE[n] = type} \cup {Len(SEQUENCE) + 1})

FirstOfType(segs, i) == Min({j \in DOMAIN segs : segs[j].type = segs[i].type})

\* Mutant: outside the layers, segments stay as they were added.
BeforeUnranked(segs, i, j) ==
    LET li == Layer(segs[i].type)
        lj == Layer(segs[j].type)
    IN  li < lj \/ (li = lj /\ i < j)

Before(segs, i, j) ==
    LET li == Layer(segs[i].type)
        lj == Layer(segs[j].type)
        ri == segs[i].relevance
        rj == segs[j].relevance
        fi == FirstOfType(segs, i)
        fj == FirstOfType(segs, j)
    IN  \/ li < lj
        \/ /\ li = lj
           /\ IF li <= Len(SEQUENCE) THEN i < j
              ELSE ri > rj \/ (ri = rj /\ (fi < fj \/ (fi = fj /\ i < j)))

\* The first in the order of those that are left.
Foremost(segs, rest) == CHOOSE i \in rest : \A j \in rest \ {i} : Before(segs, i, j)

-----------------------------------------------------------------------------
(***************************************************************************)
(* The selection: one pass that takes what still fits                      *)
(***************************************************************************)
\* Mutant: the share of untrusted content is looked at before it is added.
FitsBefore(seg, used, usedUntrusted, budget) ==
    /\ seg.untrusted => usedUntrusted <= UntrustedBudget(budget)
    /\ used + seg.tokens <= budget \/ seg.type \in Critical

\* Untrusted content has a share of its own; policy and goal always fit the rest.
Fits(seg, used, usedUntrusted, budget) ==
    /\ seg.untrusted => usedUntrusted + seg.tokens <= UntrustedBudget(budget)
    /\ used + seg.tokens <= budget \/ seg.type \in Critical

\* Before the pass.
Start(segs) == [rest |-> DOMAIN segs, kept |-> <<>>, used |-> 0, untrusted |-> 0]

Add(acc, seg, i) ==
    [rest      |-> acc.rest \ {i},
     kept      |-> Append(acc.kept, i),
     used      |-> acc.used + seg.tokens,
     untrusted |-> acc.untrusted + (IF seg.untrusted THEN seg.tokens ELSE 0)]

\* Mutant: a segment that is left out is counted all the same.
TakeCharged(segs, acc, budget) ==
    LET i == Foremost(segs, acc.rest)
    IN  IF Fits(segs[i], acc.used, acc.untrusted, budget) THEN Add(acc, segs[i], i)
        ELSE [acc EXCEPT !.rest = @ \ {i}, !.used = @ + segs[i].tokens]

\* The next segment is kept or left out.
Take(segs, acc, budget) ==
    LET i == Foremost(segs, acc.rest)
    IN  IF Fits(segs[i], acc.used, acc.untrusted, budget) THEN Add(acc, segs[i], i)
        ELSE [acc EXCEPT !.rest = @ \ {i}]

\* How far the pass has come after n segments.
Pass(segs, budget) ==
    LET pass[n \in 0..Len(segs)] ==
            IF n = 0 THEN Start(segs) ELSE Take(segs, pass[n - 1], budget)
    IN  pass

\* The positions that assemble() keeps, in their order in the prompt.
Assemble(segs, maxTokens) == Pass(segs, ContextBudget(maxTokens))[Len(segs)].kept

-----------------------------------------------------------------------------
(***************************************************************************)
(* What a selection should be, said without the pass                       *)
(***************************************************************************)
TokensOf(segs, positions) ==
    LET sum[n \in 0..Len(segs)] ==
            IF n = 0 THEN 0
            ELSE sum[n - 1] + (IF n \in positions THEN segs[n].tokens ELSE 0)
    IN  sum[Len(segs)]

\* Everything but policy and goal is within the budget, and untrusted content, of
\* whatever type, within its quarter.
WithinBudget(segs, kept, maxTokens) ==
    LET budget   == ContextBudget(maxTokens)
        taken    == Range(kept)
        critical == {i \in taken : segs[i].type \in Critical}
    IN  /\ TokensOf(segs, taken) <= Max({budget, TokensOf(segs, critical)})
        /\ TokensOf(segs, {i \in taken : segs[i].untrusted}) <= UntrustedBudget(budget)

\* What was left out would not fit beside what was kept; trusted policy and goal are
\* never left out.
NothingOmitted(segs, kept, maxTokens) ==
    LET budget == ContextBudget(maxTokens)
        taken  == Range(kept)
        shared == TokensOf(segs, {j \in taken : segs[j].untrusted})
    IN  \A i \in DOMAIN segs \ taken :
            \/ /\ segs[i].untrusted
               /\ shared + segs[i].tokens > UntrustedBudget(budget)
            \/ /\ segs[i].type \notin Critical
               /\ TokensOf(segs, taken) + segs[i].tokens > budget

\* A segment never gives way to one of a later layer, or outside the layers to a less
\* relevant one, that costs as much or more and is no more trusted.
PriorityHolds(segs, kept) ==
    \A i \in DOMAIN segs \ Range(kept), j \in Range(kept) :
        /\ \/ Layer(segs[i].type) < Layer(segs[j].type)
           \/ /\ Layer(segs[i].type) = Layer(segs[j].type)
              /\ Layer(segs[i].type) > Len(SEQUENCE)
              /\ segs[i].relevance > segs[j].relevance
        /\ segs[i].untrusted => segs[j].untrusted
        => segs[j].tokens < segs[i].tokens
=============================================================================
