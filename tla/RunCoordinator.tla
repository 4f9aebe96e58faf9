--------------------------- MODULE RunCoordinator ---------------------------
(***************************************************************************)
(* One run inside a worker: the planner's plan, and the coordinator's loop *)
(* over its actions with control checks, budgets, policy decisions, the    *)
(* circuit breaker, the event sink and the verification.  The loop is      *)
(* sequential; operators change the control request beside it, time        *)
(* passes, tools fail and so does the database.                            *)
(***************************************************************************)
EXTENDS Naturals, FiniteSets

CONSTANTS
    Tools,           \* tool names that a model's answer may hold
    RepoConfigured,  \* whether DEFAULT_GITHUB_REPO is set
    Overrides,       \* the policy engine's overrides: some tools to a decision
    MaxActions,      \* actions of a valid plan (12 in the code)
    MaxIterations,   \* budget (40 in the code)
    MaxToolCalls,    \* budget (80 in the code)
    Threshold,       \* failures that open the breaker (5 in the code)
    MaxAnswer,       \* bound: actions of a model's answer
    MaxFailures      \* bound: database operations that fail

ASSUME RunCoordinatorAssumption ==
    /\ MaxActions \in Nat \ {0} /\ Threshold \in Nat \ {0} /\ MaxAnswer \in Nat \ {0}
    /\ MaxIterations \in Nat /\ MaxToolCalls \in Nat /\ MaxFailures \in Nat
    /\ RepoConfigured \in BOOLEAN
    /\ "internal_health" \in Tools
    /\ \A t \in DOMAIN Overrides : Overrides[t] \in {"ALLOW", "REQUIRE_APPROVAL", "DENY"}

-----------------------------------------------------------------------------
(***************************************************************************)
(* Planner, policy engine and verifier.                                    *)
(***************************************************************************)

KNOWN_TOOLS == {"technocore_read", "github_repo_read", "http_json_read",
                "internal_health", "technocore_signed_write"}

\* Of a repository read it matters whether it names a repository.
PlanAction == {a \in [tool : Tools, repo : BOOLEAN] : a.repo => a.tool = "github_repo_read"}
Answers == UNION {[1..n -> PlanAction] : n \in 0..MaxAnswer}

\* Repository reads are dropped when no repository is configured...
Stripped(answer) ==
    {i \in DOMAIN answer : answer[i].tool = "github_repo_read" => RepoConfigured}

\* ... the others are validated...
TaskPlan(answer, S) ==
    /\ Cardinality(S) \in 1..MaxActions
    /\ \A i \in S : answer[i].tool \in KNOWN_TOOLS

\* ... and of them the repository reads that name none are dropped.
Runnable(answer, S) == {i \in S : answer[i].tool = "github_repo_read" => answer[i].repo}

\* Whether the answer is used, and counted against the token and cost budgets.
Usable(answer) ==
    /\ TaskPlan(answer, Stripped(answer))
    /\ Runnable(answer, Stripped(answer)) # {}

\* _template_plan.
Template == [i \in {1} |-> [tool |-> "internal_health", repo |-> FALSE]]

\* The plan keeps the positions of the answer; an unusable answer, or none, gives the
\* template.
make_plan(answer) ==
    IF Usable(answer)
    THEN [i \in Runnable(answer, Stripped(answer)) |-> answer[i]]
    ELSE Template

TOOL_TO_ACTION ==
    [technocore_read |-> "READ_ONLY", github_repo_read |-> "READ_ONLY",
     http_json_read |-> "READ_ONLY", internal_health |-> "READ_ONLY",
     technocore_signed_write |-> "PUBLIC_WRITE", db_self_write |-> "SAFE_WRITE",
     apply_privileged |-> "PRIVILEGED_HOST", destructive_op |-> "DESTRUCTIVE"]

decide(tool) ==
    CASE tool \in DOMAIN Overrides -> Overrides[tool]
      [] tool \notin DOMAIN Overrides /\ tool \notin DOMAIN TOOL_TO_ACTION -> "DENY"
      [] OTHER ->
           CASE TOOL_TO_ACTION[tool] = "DESTRUCTIVE" -> "DENY"
             [] TOOL_TO_ACTION[tool] \in {"PRIVILEGED_HOST", "PUBLIC_WRITE"} ->
                  "REQUIRE_APPROVAL"
             [] OTHER -> "ALLOW"

\* Evidence of ok successful and err failed entries: one success and no failure.
verify(ok, err) == ok > 0 /\ err = 0

-----------------------------------------------------------------------------

VARIABLES
    pc,         \* where the coordinator is
    status,     \* its status
    plan, act,  \* the plan, and the position in it
    iteration,
    toolCalls,  \* tool_calls_count, and the successful entries of executed
    errors,     \* the failed entries of executed; had_error when there is one
    overspent,  \* tokens or cost are over budget
    late,       \* max_wall_seconds are over
    breaker,    \* per tool: failures within the cooldown
    control,    \* control_request of the run
    approval,   \* whether the approval row was stored
    recorded,   \* TOOL_CALL records stored
    calls,      \* tools invoked
    since,      \* tools invoked while the present stop request stands
    failures    \* database operations that failed

planVars == <<plan, overspent>>
workVars == <<iteration, toolCalls, errors, breaker>>
storeVars == <<approval, recorded>>
vars == <<pc, status, planVars, act, workVars, late, control, storeVars, calls, since,
          failures>>

Open == {"PLANNING", "EXECUTING"}
Statuses == Open \cup
    {"COMPLETED", "FAILED", "CANCELLED", "PAUSED", "WAITING_APPROVAL"}

Init ==
    /\ pc = "plan" /\ status = "PLANNING"
    /\ plan = Template /\ act = 1 /\ overspent = FALSE
    /\ iteration = 0 /\ toolCalls = 0 /\ errors = 0
    /\ breaker = [t \in Tools |-> 0]
    /\ late = FALSE /\ control = "none"
    /\ approval = FALSE /\ recorded = 0
    /\ calls = 0 /\ since = 0 /\ failures = 0

\* A database operation succeeds, or one more has failed.
Stored == UNCHANGED failures
Lost == failures < MaxFailures /\ failures' = failures + 1

Follows(i) ==
    /\ i \in DOMAIN plan /\ i > act
    /\ \A j \in DOMAIN plan : j > act => i <= j

\* The plan is made and stored; a plan that cannot be stored ends everything.
Plan(answer, over) ==
    /\ pc = "plan"
    /\ plan' = make_plan(answer)
    /\ overspent' = (over /\ Usable(answer))
    /\ \E i \in DOMAIN plan' : act' = i /\ \A j \in DOMAIN plan' : i <= j
    /\ \/ Stored /\ pc' = "pauseCheck"
       \/ Lost /\ pc' = "raised"
    /\ UNCHANGED <<status, workVars, late, control, storeVars, calls, since>>

Ends(final) == pc' = "finish" /\ status' = final

\* Mutant: the coordinator waits for a pause to end.
PauseCheckWaits ==
    /\ pc = "pauseCheck"
    /\ \/ control # "pause" /\ Stored
       \/ Lost
    /\ pc' = "stopCheck"
    /\ UNCHANGED <<status, planVars, act, workVars, late, control, storeVars, calls, since>>

\* A request that cannot be read counts as none.
PauseCheck ==
    /\ pc = "pauseCheck"
    /\ \/ control = "pause" /\ Stored /\ Ends("PAUSED")
       \/ control # "pause" /\ Stored /\ pc' = "stopCheck" /\ UNCHANGED status
       \/ Lost /\ pc' = "stopCheck" /\ UNCHANGED status
    /\ UNCHANGED <<planVars, act, workVars, late, control, storeVars, calls, since>>

\* Mutant: a stop is looked for before the first action only.
StopCheckOnce ==
    /\ pc = "stopCheck"
    /\ \/ control = "stop" /\ iteration = 0 /\ Stored /\ Ends("CANCELLED")
       \/ (control = "stop" => iteration > 0) /\ Stored /\ pc' = "gate" /\ UNCHANGED status
    /\ UNCHANGED <<planVars, act, workVars, late, control, storeVars, calls, since>>

StopCheck ==
    /\ pc = "stopCheck"
    /\ \/ control = "stop" /\ Stored /\ Ends("CANCELLED")
       \/ control # "stop" /\ Stored /\ pc' = "gate" /\ UNCHANGED status
       \/ Lost /\ pc' = "gate" /\ UNCHANGED status
    /\ UNCHANGED <<planVars, act, workVars, late, control, storeVars, calls, since>>

\* Mutant: one iteration too many.
can_continueOffByOne ==
    ~late /\ iteration <= MaxIterations /\ toolCalls < MaxToolCalls /\ ~overspent

can_continue ==
    ~late /\ iteration < MaxIterations /\ toolCalls < MaxToolCalls /\ ~overspent

\* A budget is used up: the loop ends, with what was done so far.
Exhaust ==
    /\ pc = "gate" /\ ~can_continue
    /\ pc' = "finish"
    /\ UNCHANGED <<status, planVars, act, workVars, late, control, storeVars, calls,
                   since, failures>>

\* The policy decides about the tool of the action.
Decide ==
    LET decision == decide(plan[act].tool) IN
    /\ pc = "gate" /\ can_continue
    /\ iteration' = iteration + 1
    /\ \/ decision = "DENY" /\ Ends("FAILED")
       \/ decision = "REQUIRE_APPROVAL" /\ pc' = "ask" /\ status' = "WAITING_APPROVAL"
       \/ decision = "ALLOW" /\ pc' = "execute" /\ status' = "EXECUTING"
    /\ UNCHANGED <<planVars, act, toolCalls, errors, breaker, late, control, storeVars,
                   calls, since, failures>>

\* Mutant: an approval that could not be stored is waited for.
AskCarriesOn ==
    /\ pc = "ask"
    /\ \/ Stored /\ approval' = TRUE
       \/ Lost /\ UNCHANGED approval
    /\ pc' = "finish"
    /\ UNCHANGED <<status, planVars, act, workVars, late, control, recorded, calls, since>>

\* The event and the PENDING approval are stored, or an exception escapes.
Ask ==
    /\ pc = "ask"
    /\ \/ Stored /\ approval' = TRUE /\ pc' = "finish"
       \/ Lost /\ UNCHANGED approval /\ pc' = "raised"
    /\ UNCHANGED <<status, planVars, act, workVars, late, control, recorded, calls, since>>

\* On to the next action, if there is one.
Advance ==
    /\ \/ \E i \in DOMAIN plan : Follows(i) /\ act' = i /\ pc' = "pauseCheck"
       \/ (\A i \in DOMAIN plan : i <= act) /\ UNCHANGED act /\ pc' = "finish"
    /\ UNCHANGED status

\* The except clause: of the failures of this tool, recent ones within the cooldown are
\* kept and one is added; the breaker may open.
ToolError(recent) ==
    LET tool == plan[act].tool IN
    /\ recent <= breaker[tool]
    /\ errors' = errors + 1
    /\ breaker' = [breaker EXCEPT ![tool] = recent + 1]
    /\ IF recent + 1 >= Threshold THEN Ends("FAILED") /\ UNCHANGED act ELSE Advance

Invoke ==
    /\ pc = "execute"
    /\ calls' = calls + 1
    /\ since' = IF control = "stop" THEN since + 1 ELSE 0
    /\ UNCHANGED <<planVars, iteration, late, control, storeVars, failures>>

\* The tool returns, and there is something to record; or it raises.
Return ==
    /\ Invoke
    /\ toolCalls' = toolCalls + 1
    /\ pc' = "record"
    /\ UNCHANGED <<status, act, errors, breaker>>

Fail(recent) == Invoke /\ ToolError(recent) /\ UNCHANGED toolCalls

\* TOOL_CALL is stored, and the tool's failures are forgotten.
Record ==
    /\ pc = "record"
    /\ Stored /\ recorded' = recorded + 1
    /\ breaker' = [breaker EXCEPT ![plan[act].tool] = 0]
    /\ Advance
    /\ UNCHANGED <<planVars, iteration, toolCalls, errors, late, control, approval, calls,
                   since>>

\* Mutant: a record that is lost is passed over.
RecordFailsQuietly(recent) ==
    /\ pc = "record" /\ recent = 0
    /\ Lost /\ Advance
    /\ UNCHANGED <<planVars, workVars, late, control, storeVars, calls, since>>

\* The sink raises inside the try block: the coordinator takes it for a tool error.
RecordFails(recent) ==
    /\ pc = "record"
    /\ Lost /\ ToolError(recent)
    /\ UNCHANGED <<planVars, iteration, toolCalls, late, control, storeVars, calls, since>>

\* A status that is still open becomes what the verifier says.
Finish ==
    /\ pc = "finish"
    /\ pc' = "returned"
    /\ status' = IF status \notin Open THEN status
                 ELSE IF verify(toolCalls, errors) THEN "COMPLETED" ELSE "FAILED"
    /\ UNCHANGED <<planVars, act, workVars, late, control, storeVars, calls, since,
                   failures>>

\* Operators, and time.
Request(c) ==
    /\ c # control
    /\ control' = c /\ since' = 0
    /\ UNCHANGED <<pc, status, planVars, act, workVars, late, storeVars, calls, failures>>

TimePasses ==
    /\ ~late /\ late' = TRUE
    /\ UNCHANGED <<pc, status, planVars, act, workVars, control, storeVars, calls, since,
                   failures>>

Step ==
    \/ pc = "plan" /\ \E answer \in Answers, over \in BOOLEAN : Plan(answer, over)
    \/ PauseCheck \/ StopCheck \/ Exhaust \/ Decide \/ Ask \/ Return \/ Record \/ Finish
    \/ \E recent \in 0..Threshold : Fail(recent) \/ RecordFails(recent)

Next ==
    \/ Step \/ TimePasses
    \/ \E c \in {"none", "pause", "stop"} : Request(c)

Spec == Init /\ [][Next]_vars

\* The event loop goes on and tools return: the connectors' HTTP clients have timeouts.
FairSpec == Spec /\ WF_vars(Step)

-----------------------------------------------------------------------------
(***************************************************************************)
(* What RunLifecycle sees of it.                                           *)
(***************************************************************************)

Ended ==
    \/ pc = "returned"
    \/ pc = "finish" /\ status \in {"PAUSED", "CANCELLED", "WAITING_APPROVAL"}

stepNow ==
    IF Ended THEN "ended"
    ELSE IF pc = "raised" THEN "dead"
    ELSE IF pc = "plan" THEN "pauseCheck"
    ELSE IF pc \in {"pauseCheck", "stopCheck"} /\ iteration = 0 THEN pc
    ELSE "act"

resultNow == IF Ended THEN status ELSE "NONE"

Steps == INSTANCE CoordinatorSteps WITH
    step <- stepNow, result <- resultNow, asked <- approval

\* The loop with its budgets, policy and breaker is the coordinator that RunLifecycle
\* assumes: PAUSED and CANCELLED answer a request that stands, WAITING_APPROVAL comes
\* with a stored approval, nothing follows the end.
StepsSpec == Steps!Spec

-----------------------------------------------------------------------------

\* Every variable of the coordinator has a value of its type.
TypeOK ==
    /\ pc \in {"plan", "pauseCheck", "stopCheck", "gate", "ask", "execute", "record",
               "finish", "returned", "raised"}
    /\ status \in Statuses
    /\ DOMAIN plan \subseteq 1..MaxAnswer /\ act \in DOMAIN plan
    /\ \A i \in DOMAIN plan : plan[i].tool \in Tools
    /\ iteration \in Nat /\ toolCalls \in Nat /\ errors \in Nat
    /\ breaker \in [Tools -> 0..Threshold]
    /\ overspent \in BOOLEAN /\ late \in BOOLEAN
    /\ control \in {"none", "pause", "stop"}
    /\ approval \in BOOLEAN
    /\ recorded \in Nat /\ calls \in Nat /\ since \in Nat /\ failures \in Nat

\* A run that completes did something, and every tool it invoked succeeded and has a
\* stored record, whatever the database lost on the way.
CompletedIsRecorded ==
    pc = "returned" /\ status = "COMPLETED" => calls > 0 /\ recorded = calls /\ ~approval

\* Once a stop request stands, at most one more tool is invoked, and one for each
\* control read that failed.
StopBoundsWork == control = "stop" => since <= 1 + failures

\* Invocations stay within the iteration budget, failed ones included, and successful
\* ones within the tool budget.
BudgetHolds == calls <= MaxIterations /\ toolCalls <= MaxToolCalls

\* A plan holds between one and MaxActions tools, all known, and no repository read
\* unless a repository is configured, whatever the model answers.
PlanIsSound ==
    pc # "plan" =>
        /\ Cardinality(DOMAIN plan) \in 1..MaxActions
        /\ \A i \in DOMAIN plan :
              /\ plan[i].tool \in KNOWN_TOOLS
              /\ plan[i].tool = "github_repo_read" => plan[i].repo /\ RepoConfigured

\* The coordinator ends.
CoordinatorEnds == <>(pc \in {"returned", "raised"})
=============================================================================
