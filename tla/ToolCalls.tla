----------------------------- MODULE ToolCalls -----------------------------
(***************************************************************************)
(* Tool calls whose plan and execution lie apart while the world goes on:  *)
(* an unsandboxed command or a message to an agent, planned, reviewed and  *)
(* executed; and the calls that wait for a child agent or interrupt it,    *)
(* which observe the turn that is current when they resolve its name.      *)
(***************************************************************************)
EXTENDS Naturals

CONSTANTS
    Commands,   \* calls of exec_command without the sandbox
    Sends,      \* calls of agent_send
    Waits,      \* calls of wait_agent
    Stops,      \* calls of task_interrupt
    MaxTurns,   \* bound on the child's turns
    MaxMoves,   \* bound on the changes of what a path or a name denotes
    None

Planned == Commands \cup Sends
Tasks == Waits \cup Stops
Targets == {"one", "two"}    \* what a path or a name may denote

VARIABLES
    denotes,    \* what the path of the command and the name of the agent denote
    moves,      \* number of changes of it
    plan,       \* per planned call: its target in Plan.Data
    permission, \* per planned call: "no", "asked", the target that was approved, "denied"
    ran,        \* per planned call: what it was executed on, "error", or None
    turn,       \* the child's current turn, 0 before the first
    running,    \* whether it runs
    reason,     \* per turn: why it was over
    pc,         \* per task call: "called", "observed", "checked", "waits" or "done"
    observed,   \* per task call: managedChildTurn.turn
    signal,     \* per task call: "none", "yield" or "cancelled"
    answered,   \* turns that were reported as over: <<call, turn>>
    stopped     \* turns that were interrupted: <<call, turn>>

execution == <<denotes, moves, plan, permission, ran>>
child == <<turn, running, reason>>
tasks == <<pc, observed, signal, answered, stopped>>
vars == <<execution, child, tasks>>

Init ==
    /\ denotes \in [{"path", "name"} -> Targets] /\ moves = 0
    /\ plan = [c \in Planned |-> None] /\ permission = [c \in Planned |-> "no"]
    /\ ran = [c \in Planned |-> None]
    /\ turn = 0 /\ running = FALSE /\ reason = [n \in 1..MaxTurns |-> None]
    /\ pc = [t \in Tasks |-> "called"] /\ observed = [t \in Tasks |-> 0]
    /\ signal = [t \in Tasks |-> "none"]
    /\ answered = {} /\ stopped = {}

-----------------------------------------------------------------------------
(* Plan, review, execute.                                                  *)

\* A link is replaced, or an agent's name is given to another one.
Moves(s) ==
    /\ moves < MaxMoves /\ moves' = moves + 1
    /\ \E t \in Targets \ {denotes[s]} : denotes' = [denotes EXCEPT ![s] = t]
    /\ UNCHANGED <<plan, permission, ran, child, tasks>>

\* Input limits, the schema and the tool's own conditions may refuse a call.
Refuse(c) ==
    /\ plan[c] = None /\ ran[c] = None /\ ran' = [ran EXCEPT ![c] = "error"]
    /\ UNCHANGED <<denotes, moves, plan, permission, child, tasks>>

\* Only an unsandboxed command asks for a permission.
PlanCommand(c) ==
    /\ c \in Commands /\ plan[c] = None /\ ran[c] = None
    /\ plan' = [plan EXCEPT ![c] = denotes["path"]]
    /\ permission' = [permission EXCEPT ![c] = "asked"]
    /\ UNCHANGED <<denotes, moves, ran, child, tasks>>

\* The rights of the resolved agent are compared with the sender's.
PlanMessage(c) ==
    /\ c \in Sends /\ plan[c] = None /\ ran[c] = None
    /\ plan' = [plan EXCEPT ![c] = denotes["name"]]
    /\ UNCHANGED <<denotes, moves, permission, ran, child, tasks>>

\* The review shows the resolved shell and directory.
Authorize(c) ==
    /\ permission[c] = "asked"
    /\ \E reply \in {plan[c], "denied"} : permission' = [permission EXCEPT ![c] = reply]
    /\ UNCHANGED <<denotes, moves, plan, ran, child, tasks>>

\* A command resolves its paths again and fails if they changed.
RunCommand(c) ==
    /\ c \in Commands /\ permission[c] \in Targets \cup {"denied"} /\ ran[c] = None
    /\ ran' = [ran EXCEPT ![c] =
            IF permission[c] # "denied" /\ denotes["path"] = plan[c] THEN plan[c] ELSE "error"]
    /\ UNCHANGED <<denotes, moves, plan, permission, child, tasks>>

SendMessage_Resolves(c) ==
    /\ c \in Sends /\ plan[c] # None /\ ran[c] = None
    /\ ran' = [ran EXCEPT ![c] = denotes["name"]]
    /\ UNCHANGED <<denotes, moves, plan, permission, child, tasks>>

\* A message goes to the agent the plan has resolved.
SendMessage(c) ==
    /\ c \in Sends /\ plan[c] # None /\ ran[c] = None
    /\ ran' = [ran EXCEPT ![c] = plan[c]]
    /\ UNCHANGED <<denotes, moves, plan, permission, child, tasks>>

-----------------------------------------------------------------------------
(* The child's turns, and the calls that wait for one or stop it.          *)

StartTurn ==
    /\ ~running /\ turn < MaxTurns /\ turn' = turn + 1 /\ running' = TRUE
    /\ UNCHANGED <<execution, reason, tasks>>

Over(why) == running' = FALSE /\ reason' = [reason EXCEPT ![turn] = why]

EndTurn ==
    /\ running /\ Over("finished") /\ UNCHANGED <<turn, execution, tasks>>

\* Manager.Resolve finds the task and observes its current turn.
Resolve(t) ==
    /\ pc[t] = "called"
    /\ pc' = [pc EXCEPT ![t] = IF turn = 0 THEN "done" ELSE IF t \in Waits THEN "waits"
                               ELSE "observed"]
    /\ observed' = [observed EXCEPT ![t] = turn]
    /\ UNCHANGED <<execution, child, signal, answered, stopped>>

\* A prompt arrives or the period elapses, or the caller's own turn is interrupted.
Signal(t) ==
    /\ t \in Waits /\ pc[t] # "done" /\ signal[t] # "cancelled"
    /\ \E s \in {"yield", "cancelled"} :
          /\ s # "cancelled" => signal[t] = "none"
          /\ signal' = [signal EXCEPT ![t] = s]
    /\ UNCHANGED <<execution, child, pc, observed, answered, stopped>>

Awaited(t) == observed[t]

\* The completion and the end of the wait may be ready together.  A steer or the
\* deadline yields, a cancelled caller gets an error.
WaitReturns(t) ==
    /\ pc[t] = "waits" /\ pc' = [pc EXCEPT ![t] = "done"]
    /\ \/ (Awaited(t) # turn \/ ~running) /\ answered' = answered \cup {<<t, Awaited(t)>>}
       \/ signal[t] # "none" /\ UNCHANGED answered
    /\ UNCHANGED <<execution, child, observed, signal, stopped>>

\* An interrupt looks whether its turn is current, and then stops the session's
\* current turn.
Check(t) ==
    /\ t \in Stops /\ pc[t] = "observed"
    /\ pc' = [pc EXCEPT ![t] = IF observed[t] = turn THEN "checked" ELSE "done"]
    /\ UNCHANGED <<execution, child, observed, signal, answered, stopped>>

Interrupt(t) ==
    /\ pc[t] = "checked" /\ pc' = [pc EXCEPT ![t] = "done"]
    /\ IF running THEN Over("interrupted") /\ stopped' = stopped \cup {<<t, turn>>}
       ELSE UNCHANGED <<running, reason, stopped>>
    /\ UNCHANGED <<execution, turn, observed, signal, answered>>

Next ==
    \/ \E s \in {"path", "name"} : Moves(s)
    \/ \E c \in Planned : Refuse(c) \/ PlanCommand(c) \/ PlanMessage(c) \/ Authorize(c)
                          \/ RunCommand(c) \/ SendMessage(c)
    \/ StartTurn \/ EndTurn
    \/ \E t \in Tasks : Resolve(t) \/ Signal(t) \/ WaitReturns(t) \/ Check(t) \/ Interrupt(t)

Spec == Init /\ [][Next]_vars

-----------------------------------------------------------------------------
\* What runs is what was checked: a command runs without the sandbox in the place
\* that was shown and approved, a message goes to the agent whose rights were
\* compared (Executor.Execute, ExecCommandTool, AgentTool).
PlannedIsExecuted ==
    \A c \in Planned : ran[c] \in Targets =>
        ran[c] = plan[c] /\ (c \in Commands => permission[c] = ran[c])

\* "A stable observation of the turn which was current": a wait answers for the turn
\* it has observed, however many turns follow before it returns.
WaitIsStable == \A a \in answered : a[2] = observed[a[1]] /\ reason[a[2]] # None

\* An interrupt stops the turn it has observed.  It fails: see the README.
InterruptIsStable == \A s \in stopped : s[2] = observed[s[1]]

\* The world may change between a call's plan, or its observation, and its effect.
PlanHolds == PlannedIsExecuted /\ WaitIsStable
=============================================================================
