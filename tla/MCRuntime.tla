----------------------------- MODULE MCRuntime ------------------------------
(***************************************************************************)
(* The services around a session's turns in one run: the stream of         *)
(* events, the repository of runtimes, compaction, goals, the handlers     *)
(* that stop a session, and the requests that wait for the user, each on   *)
(* an instance of its own. `which` is chosen at the start and says whose   *)
(* steps are taken; the variables of the others keep their initial         *)
(* values.                                                                 *)
(***************************************************************************)
EXTENDS EventStream

CONSTANTS
    Binders, Root, Children, MaxChildTasks, Nobody, Failed, Missing, \* see SessionRuntimes
    Users, MaxBudget, MaxGoals, NoGoal,                              \* see Goals
    Ints, Dels, Quits, Notices, MaxPending, MaxPrompts,              \* see Interruptions
    Permissions, Questions, ApiClients, MaxKeys, NoReply             \* see Approvals

\* Nobody is nobody and no runtime; a handler makes a call of one kind.
ASSUME RuntimeAssumption ==
    /\ IsFiniteSet(Children) /\ Root \notin Children /\ MaxChildTasks \in Nat
    /\ Nobody \notin Binders /\ Nobody # Missing
    /\ {Nobody, Failed, Missing} \cap (Binders \X ({Root} \cup Children)) = {}
    /\ IsFiniteSet(Ints) /\ IsFiniteSet(Dels) /\ IsFiniteSet(Quits)
    /\ Ints \cap Dels = {} /\ Ints \cap Quits = {} /\ Dels \cap Quits = {}
    /\ NoReply \notin {"allow", "deny"} /\ MaxBudget \in Nat

VARIABLES which, durable, dtos, relations, sessions, binding, closed, managed, childMu,
          snapshot, rpc, op, goal, cur, awaits, outcome, got, history, epochs, records,
          attempts, alive, kpc, plan, status, dpc, epoch, request, rounds, gGoal,
          created, hpc, tpc, held, forceFinal, extra, turn, wake, pending, iPrompts,
          gone, notice, cancelled, delivered, paused, procs, iClosed, pc, waits, owns,
          failed, aPending, caller, ended, sending, channel, told, busy, modal, aEpoch,
          pump, keys, interrupts, answer

S(m, d, o, p, c, l, x, only) ==
    [messages |-> m, deltas |-> d, outputs |-> o, prompts |-> p,
     durable |-> c, live |-> l, losses |-> x, liveOnly |-> only]

\* Live buffers that hold a whole message, or no live text at all: two messages,
\* of which the client may lose the connection once; a prompt between the
\* events, a durable buffer of one; a tool's output that overflows its buffer.
Pass == {S(2, 2, 0, 0, 1, 6, 1, FALSE), S(1, 2, 0, 1, 1, 5, 1, FALSE),
         S(2, 1, 1, 0, 1, 1, 1, FALSE)}

\* A live buffer of two, in which tool output makes way for text.
Evicting == {S(2, 2, 0, 1, 2, 2, 1, FALSE)}

\* A client that asks for what is live only.
LiveOnly == {S(1, 1, 0, 1, 1, 2, 0, TRUE)}

Runtimes == INSTANCE SessionRuntimes
    WITH Callers <- Binders, None <- Nobody
Compact == INSTANCE Compaction
    WITH Turn <- "turn", Clients <- {"u1"}, RecentMessages <- 2, MaxMessages <- 5
Goal == INSTANCE Goals
    WITH Clients <- Users, goal <- gGoal
Stops == INSTANCE Interruptions
    WITH Interrupts <- Ints, Deletes <- Dels, Closes <- Quits, prompts <- iPrompts,
         closed <- iClosed
Approval == INSTANCE Approvals
    WITH Clients <- ApiClients, None <- NoReply, pending <- aPending, epoch <- aEpoch

runtimesVars == <<durable, dtos, relations, sessions, binding, closed, managed,
                  childMu, snapshot, rpc, op, goal, cur, awaits, outcome, got>>
compactionVars == <<history, epochs, records, attempts, alive, kpc, plan, status, dpc,
                    epoch, request, rounds>>
goalsVars == <<gGoal, created, hpc, tpc, held, forceFinal, extra>>
stopsVars == <<turn, wake, pending, iPrompts, gone, notice, cancelled, delivered,
               paused, procs, iClosed, pc, waits, owns, failed>>
approvalsVars == <<aPending, caller, ended, sending, channel, told, busy, modal,
                   aEpoch, pump, keys, interrupts, answer>>

\* The size of a turn is of interest to the event stream only.
AllInit ==
    /\ which \in {"events", "runtimes", "compaction", "goals", "stops", "approvals"}
    /\ Init /\ (which # "events" => size = S(2, 1, 1, 0, 1, 1, 1, FALSE))
    /\ Runtimes!Init
    /\ Compact!Init
    /\ Goal!Init
    /\ Stops!Init
    /\ Approval!Init

AllNext ==
    \/ which = "events" /\ Next /\ UNCHANGED <<which, runtimesVars, compactionVars,
                                               goalsVars, stopsVars, approvalsVars>>
    \/ which = "runtimes" /\ Runtimes!Next /\ UNCHANGED <<which, vars, compactionVars,
                                                          goalsVars, stopsVars,
                                                          approvalsVars>>
    \/ which = "compaction" /\ Compact!Next /\ UNCHANGED <<which, vars, runtimesVars,
                                                           goalsVars, stopsVars,
                                                           approvalsVars>>
    \/ which = "goals" /\ Goal!Next /\ UNCHANGED <<which, vars, runtimesVars,
                                                   compactionVars, stopsVars,
                                                   approvalsVars>>
    \/ which = "stops" /\ Stops!Next /\ UNCHANGED <<which, vars, runtimesVars,
                                                    compactionVars, goalsVars,
                                                    approvalsVars>>
    \/ which = "approvals" /\ Approval!Next /\ UNCHANGED <<which, vars, runtimesVars,
                                                           compactionVars, goalsVars,
                                                           stopsVars>>

AllSpec == AllInit /\ [][AllNext]_<<which, vars, runtimesVars, compactionVars,
                                    goalsVars, stopsVars, approvalsVars>>

\* RuntimesAccounted of SessionRuntimes: a session has one runtime object,
\* which nobody replaces; shutdown sees every runtime, and a persisted child
\* stays reachable and counted (closeAndSnapshot, DiscardChild, CreateChild).
RuntimesAccounted == Runtimes!RuntimesAccounted

\* SummariesFit of Compaction: requests are whole and summaries cover the
\* history once (SafeCut, drainOnce, Repository.Complete).
SummariesFit == Compact!SummariesFit

\* GoalRespected of Goals: turns continue only for an active goal with budget
\* left (AccountUsage, prepareContinuation).
GoalRespected == Goal!GoalRespected

\* StopsAreOrderly of Interruptions: no notice starts the session behind an
\* interrupt, and what that leaves pending gets a turn (SuspendSession,
\* DomainBackend.Interrupt).
StopsAreOrderly == Stops!StopsAreOrderly

\* RepliesAreMeant of Approvals: an accepted reply reaches its request, and a
\* key answers the dialog it was typed for (Broker.reply, enhancedInputMode).
RepliesAreMeant == Approval!RepliesAreMeant
=============================================================================
