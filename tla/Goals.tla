-------------------------------- MODULE Goals --------------------------------
(***************************************************************************)
(* The goal of a session (GoalService): one row that clients, the agent's  *)
(* tools, the accounting of provider usage and its exhaustion all write,   *)
(* each in a transaction of its own, and the turns that continue by        *)
(* themselves while the goal is active.                                    *)
(***************************************************************************)
EXTENDS Naturals

CONSTANTS
    Clients,    \* callers of the goal handlers
    MaxBudget,  \* budgets are 1..MaxBudget, 0 is none; also bounds the tokens used
    MaxGoals,   \* bound on the goals created
    NoGoal

VARIABLES
    goal,      \* the row of session_goal or NoGoal
    created,   \* number of goals so far: identifiers
    hpc,       \* per client: step of PutGoal
    tpc,       \* step of the session's turn
    held,      \* the identifier of the goal that was active before the tools ran
    forceFinal,
    extra      \* continuations begun since the goal was last active

vars == <<goal, created, hpc, tpc, held, forceFinal, extra>>
turn == <<tpc, held, forceFinal>>

Init ==
    /\ goal = NoGoal /\ created = 0 /\ hpc = [c \in Clients |-> "idle"]
    /\ tpc = "idle" /\ held = 0 /\ forceFinal = FALSE /\ extra = 0

Statuses == {"active", "paused", "blocked", "usage_limited", "budget_limited", "complete"}
Active == goal # NoGoal /\ goal.status = "active"
Exhausted(g) == g.budget > 0 /\ g.used >= g.budget

\* A transaction that leaves the goal g: whoever makes it active resets the count.
Write(g) ==
    /\ goal' = g
    /\ extra' = IF g # NoGoal THEN IF g.status = "active" THEN 0 ELSE extra ELSE extra

\* Create replaces a completed goal and refuses to discard an unfinished one.
Create(budget) ==
    IF created < MaxGoals /\ (goal = NoGoal \/ goal.status = "complete")
    THEN /\ Write([id |-> created + 1, status |-> "active", budget |-> budget, used |-> 0])
         /\ created' = created + 1
    ELSE UNCHANGED <<goal, created, extra>>

\* Update: a status, a budget, both or a new objective alone ("" and -1 keep).
Settled(g, was, status) ==
    IF g.status = "active" /\ Exhausted(g) THEN [g EXCEPT !.status = "budget_limited"]
    ELSE IF was = "budget_limited" /\ status = "" /\ ~Exhausted(g)
         THEN [g EXCEPT !.status = "paused"] ELSE g

Update(status, budget) ==
    IF goal = NoGoal THEN UNCHANGED <<goal, extra>>
    ELSE Write(Settled([goal EXCEPT !.status = IF status = "" THEN @ ELSE status,
                                    !.budget = IF budget = MaxBudget + 1 THEN @ ELSE budget],
                       goal.status, status))

-----------------------------------------------------------------------------
(* Clients.                                                                *)

\* PutGoal looks whether there is a goal before it creates or updates one.
PutGoal(c) ==
    /\ hpc[c] = "idle"
    /\ hpc' = [hpc EXCEPT ![c] = IF goal = NoGoal THEN "create" ELSE "update"]
    /\ UNCHANGED <<goal, created, turn, extra>>

PutCreates(c) ==
    /\ hpc[c] = "create" /\ hpc' = [hpc EXCEPT ![c] = "idle"]
    /\ \E budget \in 0..MaxBudget : Create(budget)
    /\ UNCHANGED turn

\* The client may set any status; the chat sets "paused" and "active".
PutUpdates(c) ==
    /\ hpc[c] = "update" /\ hpc' = [hpc EXCEPT ![c] = "idle"]
    /\ \E status \in {""} \cup Statuses, budget \in 0..(MaxBudget + 1) : Update(status, budget)
    /\ UNCHANGED <<created, turn>>

DeleteGoal(c) ==
    /\ hpc[c] = "idle" /\ goal # NoGoal /\ Write(NoGoal)
    /\ UNCHANGED <<created, hpc, turn>>

-----------------------------------------------------------------------------
(* The turn.                                                               *)

Prompt ==
    /\ tpc = "idle" /\ tpc' = "model" /\ forceFinal' = FALSE
    /\ UNCHANGED <<goal, created, hpc, held, extra>>

\* AccountUsage charges an active goal and limits it when the budget is spent.
AccountUsage(tokens) ==
    IF ~Active THEN UNCHANGED <<goal, extra>>
    ELSE LET charged == [goal EXCEPT !.used = @ + tokens]
         IN  Write([charged EXCEPT !.status = IF Exhausted(charged) THEN "budget_limited" ELSE @])

\* A provider turn ends with tool calls, which the final turn does not offer, or
\* with an answer; its usage is charged before the calls are recorded.
ProviderTurn ==
    /\ tpc = "model" /\ \E tokens \in 0..1 :
          (goal # NoGoal => goal.used + tokens <= MaxBudget) /\ AccountUsage(tokens)
    /\ tpc' \in (IF forceFinal THEN {"answered"} ELSE {"calls", "answered"})
    /\ UNCHANGED <<created, hpc, held, forceFinal>>

\* The provider refuses for an exhausted quota: the goal is limited only if it is
\* still active, "a concurrent user or agent state change wins".
MarkUsageLimited ==
    /\ tpc = "model" /\ tpc' = "idle"
    /\ IF Active THEN Write([goal EXCEPT !.status = "usage_limited"]) ELSE UNCHANGED <<goal, extra>>
    /\ UNCHANGED <<created, hpc, held, forceFinal>>

\* The turn ends for another reason, an interrupt or an error.
TurnFails ==
    /\ tpc \notin {"idle", "continue"} /\ tpc' = "idle"
    /\ UNCHANGED <<goal, created, hpc, held, forceFinal, extra>>

BeforeTools ==
    /\ tpc = "calls" /\ tpc' = "tools" /\ held' = IF Active THEN goal.id ELSE 0
    /\ UNCHANGED <<goal, created, hpc, forceFinal, extra>>

\* The agent's tools create a goal, and complete or block the one there is.
AgentTool ==
    /\ tpc = "tools"
    /\ \/ \E budget \in 0..MaxBudget : Create(budget)
       \/ \E status \in {"complete", "blocked"} : Update(status, MaxBudget + 1) /\ UNCHANGED created
    /\ UNCHANGED <<hpc, turn>>

AfterTools ==
    /\ tpc = "tools" /\ tpc' = "model"
    /\ forceFinal' = IF held # 0 THEN ~(Active /\ goal.id = held) ELSE forceFinal
    /\ UNCHANGED <<goal, created, hpc, held, extra>>

\* prepareContinuation reads the goal and then appends the synthetic prompt.
ReadContinuation_AnyGoal ==
    /\ tpc = "answered" /\ tpc' = IF goal # NoGoal THEN "continue" ELSE "idle"
    /\ UNCHANGED <<goal, created, hpc, held, forceFinal, extra>>

ReadContinuation ==
    /\ tpc = "answered" /\ tpc' = IF Active THEN "continue" ELSE "idle"
    /\ UNCHANGED <<goal, created, hpc, held, forceFinal, extra>>

Continue ==
    /\ tpc = "continue" /\ tpc' = "model" /\ forceFinal' = FALSE
    /\ extra' = IF Active THEN 0 ELSE extra + 1
    /\ UNCHANGED <<goal, created, hpc, held>>

Next ==
    \/ \E c \in Clients : PutGoal(c) \/ PutCreates(c) \/ PutUpdates(c) \/ DeleteGoal(c)
    \/ Prompt \/ ProviderTurn \/ MarkUsageLimited \/ TurnFails
    \/ BeforeTools \/ AgentTool \/ AfterTools \/ ReadContinuation \/ Continue

Spec == Init /\ [][Next]_vars

-----------------------------------------------------------------------------
\* An active goal has budget left, whoever wrote the row last: otherwise turns
\* would go on at the user's cost (AccountUsage, Update).
BudgetHolds == Active => ~Exhausted(goal)

\* After a goal is paused, limited, finished or deleted at most one more turn
\* continues by itself, the one whose decision was made before
\* (prepareContinuation).
ContinuesOnce == extra <= 1

\* The goal's state bounds what turns do by themselves (GoalService,
\* prepareContinuation).
GoalRespected == BudgetHolds /\ ContinuesOnce
=============================================================================
