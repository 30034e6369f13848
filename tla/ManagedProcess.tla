--------------------------- MODULE ManagedProcess ---------------------------
(***************************************************************************)
(* Commands that outlive the tool call that started them                   *)
(* (internal/process/persistent.go), for one session of one runner.        *)
(*                                                                         *)
(* RunPersistent starts a command and returns when it ends or when its     *)
(* yield time is over; then the command is a managed process that the      *)
(* session polls (WritePersistent), kills (InterruptPersistent) or is told *)
(* about (notifyPersistentCompletion).  Interrupting or deleting the       *)
(* session, and closing the runner, stop whatever is retained.  One action *)
(* is one critical section of the runner's or of a process's mutex.        *)
(***************************************************************************)
EXTENDS Integers, FiniteSets, Sequences

CONSTANTS Processes,     \* identifiers, one RunPersistent call each
          Unrestricted,  \* those started outside the sandbox
          Yielding,      \* those that may outlive their yield time
          Callers,       \* threads that poll, kill, interrupt, delete, close
          MaxProcesses,  \* config.MaxSessionProcesses
          MaxPaused,     \* bound on notifyPaused
          None

ASSUME ProcessAssumption ==
    /\ IsFiniteSet(Processes) /\ IsFiniteSet(Callers)
    /\ Unrestricted \subseteq Processes /\ Yielding \subseteq Processes
    /\ MaxProcesses \in Nat \ {0} /\ MaxPaused \in Nat \ {0}
    /\ None \notin Processes \cup Callers \cup {"notice"}
    /\ "notice" \notin Callers

VARIABLES
    closed,        \* Runner.closed
    deleted,       \* the session is in Runner.deletedSessions
    directory,     \* the session's temporary directory exists
    cleanup,       \* who holds Runner.cleanup
    paused,        \* Runner.notifyPaused of the session
    retained,      \* Runner.processes
    reserved,      \* Runner.reservedIDs
    tasks,         \* processes in the task index
    run,           \* per process: where its RunPersistent is
    waiter,        \* per process: where the goroutine that waits for it is
    notice,        \* per process: where its completion notice is
    cancelled,     \* processes whose notice's context is done
    announced, finishedSent, delivered,   \* persistentProcess's flags, as sets
    events,        \* per process: the events emitted
    interaction,   \* per process: who holds persistentProcess.interaction
    signalled,     \* processes that terminatePersistent was called for
    pc, op,        \* per caller: where it is, and in which call
    item,          \* per caller: the process it polls or awaits
    mine,          \* per caller: claimed processes it still has to terminate
    awaits,        \* per caller: the notices it suspends
    resumes,       \* callers that have to call ResumeSession
    told,          \* per process: how often its end was given to the session
    unsent         \* processes whose notice got an error from Send

runner == <<closed, deleted, directory, cleanup, paused>>
index == <<retained, reserved, tasks>>
flags == <<announced, finishedSent, delivered, events>>
notices == <<notice, cancelled, unsent>>
callers == <<pc, op, item, mine, awaits, resumes>>
vars == <<runner, index, run, waiter, notices, flags, interaction, signalled,
          callers, told>>

RunPlaces == {"new", "reserve", "start", "store", "release", "reject", "leave",
    "collect", "remove", "register", "announce", "emitStart", "emitFinish",
    "notify", "kill", "done"}
Idle == {"none", "done"}

TypeOK ==
    /\ closed \in BOOLEAN /\ deleted \in BOOLEAN /\ directory \in BOOLEAN
    /\ cleanup \in Callers \cup {None}
    /\ paused \in 0..MaxPaused
    /\ retained \subseteq Processes /\ reserved \subseteq Processes
    /\ tasks \subseteq Processes
    /\ run \in [Processes -> RunPlaces]
    /\ waiter \in [Processes -> {"none", "wait", "settle", "close", "emit", "done"}]
    /\ notice \in [Processes -> {"none", "wait", "lock", "check", "send", "leave", "done"}]
    /\ cancelled \subseteq Processes /\ unsent \subseteq Processes
    /\ announced \subseteq Processes /\ finishedSent \subseteq Processes
    /\ delivered \subseteq Processes /\ signalled \subseteq Processes
    /\ events \in [Processes -> UNION {[1..n -> {"start", "finished"}] : n \in 0..3}]
    /\ interaction \in [Processes -> Callers \cup {"notice", None}]
    /\ pc \in [Callers -> {"idle", "poll", "collect", "remove", "suspend",
                           "delete", "users", "take", "stop", "gone", "resume"}]
    /\ op \in [Callers -> {"none", "poll", "kill", "interrupt", "delete", "close"}]
    /\ item \in [Callers -> Processes \cup {None}]
    /\ mine \in [Callers -> SUBSET Processes]
    /\ awaits \in [Callers -> SUBSET Processes]
    /\ resumes \subseteq Callers
    /\ told \in [Processes -> Nat]

Init ==
    /\ closed = FALSE /\ deleted = FALSE /\ directory = FALSE
    /\ cleanup = None /\ paused = 0
    /\ retained = {} /\ reserved = {} /\ tasks = {}
    /\ run = [i \in Processes |-> "new"]
    /\ waiter = [i \in Processes |-> "none"]
    /\ notice = [i \in Processes |-> "none"]
    /\ cancelled = {} /\ unsent = {}
    /\ announced = {} /\ finishedSent = {} /\ delivered = {}
    /\ events = [i \in Processes |-> << >>]
    /\ interaction = [i \in Processes |-> None]
    /\ signalled = {}
    /\ pc = [c \in Callers |-> "idle"] /\ op = [c \in Callers |-> "none"]
    /\ item = [c \in Callers |-> None]
    /\ mine = [c \in Callers |-> {}] /\ awaits = [c \in Callers |-> {}]
    /\ resumes = {}
    /\ told = [i \in Processes |-> 0]

-----------------------------------------------------------------------------
(* Shorthands.                                                             *)

Alive(i) == waiter[i] = "wait"
Finished(i) == waiter[i] \in {"emit", "done"}

\* RunPersistent calls that use the temporary directory.
Users == {i \in Processes \ Unrestricted :
            run[i] \in {"reserve", "start", "store", "release", "reject", "leave"}}

Active == {i \in Processes : notice[i] \notin Idle}

RunTo(i, place) == run' = [run EXCEPT ![i] = place]
Goto(c, place) == pc' = [pc EXCEPT ![c] = place]

Return(c) ==
    /\ Goto(c, "idle")
    /\ op' = [op EXCEPT ![c] = "none"]
    /\ item' = [item EXCEPT ![c] = None]
    /\ mine' = [mine EXCEPT ![c] = {}]
    /\ awaits' = [awaits EXCEPT ![c] = {}]
    /\ resumes' = resumes \ {c}

Forget(ids) ==
    /\ retained' = retained \ ids
    /\ reserved' = reserved \ ids

-----------------------------------------------------------------------------
(* RunPersistent.                                                          *)

\* acquireTemporaryDirectory, which an unrestricted command does not need.
RunBegin(i) ==
    /\ run[i] = "new"
    /\ IF i \in Unrestricted
       THEN RunTo(i, "reserve") /\ UNCHANGED directory
       ELSE IF closed \/ deleted
       THEN RunTo(i, "done") /\ UNCHANGED directory
       ELSE RunTo(i, "reserve") /\ directory' = TRUE
    /\ UNCHANGED <<closed, deleted, cleanup, paused, index, waiter, notices,
                   flags, interaction, signalled, callers, told>>

\* reservePersistent: at the limit, finished processes are reaped first.  Before
\* it the sandbox profile may be refused.
Reserve(i) ==
    LET full == Cardinality(reserved) >= MaxProcesses
        reaped == IF full THEN {j \in retained : Finished(j)} ELSE {}
    IN
    /\ run[i] = "reserve"
    /\ \/ RunTo(i, "leave") /\ UNCHANGED index
       \/ /\ ~closed
          /\ Forget(reaped)
          /\ RunTo(i, "leave")
          /\ UNCHANGED tasks
       \/ /\ ~closed
          /\ Cardinality(reserved \ reaped) < MaxProcesses
          /\ retained' = retained \ reaped
          /\ reserved' = (reserved \ reaped) \cup {i}
          /\ RunTo(i, "start")
          /\ UNCHANGED tasks
    /\ UNCHANGED <<runner, waiter, notices, flags, interaction, signalled,
                   callers, told>>

\* The output file is created and the command starts, or one of them fails.
Start(i) ==
    /\ run[i] = "start"
    /\ \/ /\ RunTo(i, "store")
          /\ waiter' = [waiter EXCEPT ![i] = "wait"]
          /\ UNCHANGED index
       \/ /\ RunTo(i, "leave")
          /\ reserved' = reserved \ {i}
          /\ UNCHANGED <<waiter, retained, tasks>>
    /\ UNCHANGED <<runner, notices, flags, interaction, signalled, callers, told>>

\* Mutant: a runner that was closed meanwhile is given the process.
Store_Closed(i) ==
    /\ run[i] = "store"
    /\ IF closed
       THEN /\ RunTo(i, "leave")
            /\ reserved' = reserved \ {i}
            /\ UNCHANGED retained
       ELSE /\ RunTo(i, "release")
            /\ retained' = retained \cup {i}
            /\ UNCHANGED reserved
    /\ UNCHANGED <<runner, tasks, waiter, notices, flags, interaction,
                   signalled, callers, told>>

\* storePersistent, or terminatePersistent when the runner is closed.
Store(i) ==
    /\ run[i] = "store"
    /\ IF closed
       THEN /\ RunTo(i, "reject")
            /\ reserved' = reserved \ {i}
            /\ signalled' = signalled \cup {i}
            /\ UNCHANGED retained
       ELSE /\ RunTo(i, "release")
            /\ retained' = retained \cup {i}
            /\ UNCHANGED <<reserved, signalled>>
    /\ UNCHANGED <<runner, tasks, waiter, notices, flags, interaction,
                   callers, told>>

\* The use of the temporary directory ends: the process is retained, or the
\* call returns with an error.
Release(i) ==
    /\ run[i] \in {"release", "leave"}
    /\ RunTo(i, IF run[i] = "release" THEN "collect" ELSE "done")
    /\ UNCHANGED <<runner, index, waiter, notices, flags, interaction,
                   signalled, callers, told>>

\* terminatePersistent returns.
Terminated(i) ==
    /\ run[i] \in {"reject", "kill"}
    /\ Finished(i)
    /\ RunTo(i, IF run[i] = "reject" THEN "leave" ELSE "done")
    /\ UNCHANGED <<runner, index, waiter, notices, flags, interaction,
                   signalled, callers, told>>

\* collectPersistent: the command ended, or the yield time did.
Collect(i) ==
    /\ run[i] = "collect"
    /\ IF Finished(i)
       THEN /\ RunTo(i, "remove")
            /\ told' = [told EXCEPT ![i] = @ + 1]
       ELSE i \in Yielding /\ RunTo(i, "register") /\ UNCHANGED told
    /\ UNCHANGED <<runner, index, waiter, notices, flags, interaction,
                   signalled, callers>>

\* The call's context is done, or the output cannot be read: removePersistent
\* and terminatePersistent.
Discard(i) ==
    /\ run[i] = "collect"
    /\ RunTo(i, "kill")
    /\ Forget({i})
    /\ tasks' = tasks \ {i}
    /\ signalled' = signalled \cup {i}
    /\ UNCHANGED <<runner, waiter, notices, flags, interaction, callers, told>>

RemoveEnded(i) ==
    /\ run[i] = "remove"
    /\ RunTo(i, "done")
    /\ Forget({i})
    /\ tasks' = tasks \ {i}
    /\ UNCHANGED <<runner, waiter, notices, flags, interaction, signalled,
                   callers, told>>

Register(i) ==
    /\ run[i] = "register"
    /\ RunTo(i, "announce")
    /\ tasks' = tasks \cup {i}
    /\ UNCHANGED <<runner, retained, reserved, waiter, notices, flags,
                   interaction, signalled, callers, told>>

\* announcePersistent: the flag, ...
Announce(i) ==
    /\ run[i] = "announce"
    /\ RunTo(i, "emitStart")
    /\ announced' = announced \cup {i}
    /\ UNCHANGED <<runner, index, waiter, notices, finishedSent, delivered,
                   events, interaction, signalled, callers, told>>

\* ... the event, ...
EmitStart(i) ==
    /\ run[i] = "emitStart"
    /\ RunTo(i, "emitFinish")
    /\ events' = [events EXCEPT ![i] = Append(@, "start")]
    /\ UNCHANGED <<runner, index, waiter, notices, announced, finishedSent,
                   delivered, interaction, signalled, callers, told>>

\* ... and the second event, if the process has ended and nobody has sent it.
EmitFinish(i) ==
    /\ run[i] = "emitFinish"
    /\ RunTo(i, "notify")
    /\ IF Finished(i) /\ i \notin finishedSent
       THEN /\ finishedSent' = finishedSent \cup {i}
            /\ events' = [events EXCEPT ![i] = Append(@, "finished")]
       ELSE UNCHANGED <<finishedSent, events>>
    /\ UNCHANGED <<runner, index, waiter, notices, announced, delivered,
                   interaction, signalled, callers, told>>

\* notifyPersistentCompletion starts a goroutine, and RunPersistent returns.
Notify(i) ==
    /\ run[i] = "notify"
    /\ RunTo(i, "done")
    /\ notice' = [notice EXCEPT ![i] = IF closed \/ paused > 0 THEN "none" ELSE "wait"]
    /\ UNCHANGED <<runner, index, waiter, cancelled, unsent, flags, interaction,
                   signalled, callers, told>>

RunStep(i) ==
    \/ RunBegin(i) \/ Reserve(i) \/ Start(i) \/ Store(i) \/ Release(i)
    \/ Terminated(i) \/ Collect(i) \/ Discard(i) \/ RemoveEnded(i)
    \/ Register(i) \/ Announce(i) \/ EmitStart(i) \/ EmitFinish(i) \/ Notify(i)

-----------------------------------------------------------------------------
(* The goroutine of startPersistent that waits for the command.            *)

\* The command and its group end, by themselves or because they were told to.
Exit(i) ==
    /\ waiter[i] = "wait"
    /\ waiter' = [waiter EXCEPT ![i] = "settle"]
    /\ UNCHANGED <<runner, index, run, notices, flags, interaction, signalled,
                   callers, told>>

Settle(i) ==
    /\ waiter[i] = "settle"
    /\ waiter' = [waiter EXCEPT ![i] = "close"]
    /\ finishedSent' = IF i \in announced THEN finishedSent \cup {i} ELSE finishedSent
    /\ UNCHANGED <<runner, index, run, notices, announced, delivered, events,
                   interaction, signalled, callers, told>>

\* close(finished); only this goroutine has set finishedSent until now.
CloseFinished(i) ==
    /\ waiter[i] = "close"
    /\ waiter' = [waiter EXCEPT ![i] = IF i \in finishedSent THEN "emit" ELSE "done"]
    /\ UNCHANGED <<runner, index, run, notices, flags, interaction, signalled,
                   callers, told>>

WaiterEmits(i) ==
    /\ waiter[i] = "emit"
    /\ waiter' = [waiter EXCEPT ![i] = "done"]
    /\ events' = [events EXCEPT ![i] = Append(@, "finished")]
    /\ UNCHANGED <<runner, index, run, notices, announced, finishedSent,
                   delivered, interaction, signalled, callers, told>>

-----------------------------------------------------------------------------
(* The goroutine of notifyPersistentCompletion.                            *)

NoticeTo(i, place) == notice' = [notice EXCEPT ![i] = place]

NoticeWakes(i) ==
    /\ notice[i] = "wait"
    /\ \/ Finished(i) /\ NoticeTo(i, "lock")
       \/ i \in cancelled /\ NoticeTo(i, "leave")
    /\ UNCHANGED <<runner, index, run, waiter, cancelled, unsent, flags,
                   interaction, signalled, callers, told>>

NoticeLocks(i) ==
    /\ notice[i] = "lock"
    /\ interaction[i] = None
    /\ IF i \in delivered
       THEN NoticeTo(i, "leave") /\ UNCHANGED interaction
       ELSE /\ NoticeTo(i, "check")
            /\ interaction' = [interaction EXCEPT ![i] = "notice"]
    /\ UNCHANGED <<runner, index, run, waiter, cancelled, unsent, flags,
                   signalled, callers, told>>

\* sendCtx.Err(), and the session's runtime, which may be gone.
NoticeChecks(i) ==
    /\ notice[i] = "check"
    /\ \/ /\ i \notin cancelled
          /\ NoticeTo(i, "send")
          /\ UNCHANGED <<interaction, unsent>>
       \/ /\ NoticeTo(i, "leave")
          /\ interaction' = [interaction EXCEPT ![i] = None]
          /\ unsent' = unsent \cup {i}
    /\ UNCHANGED <<runner, index, run, waiter, cancelled, flags, signalled,
                   callers, told>>

\* session.Send, which may also admit the message and report an error.
NoticeSends(i) ==
    /\ notice[i] = "send"
    /\ NoticeTo(i, "leave")
    /\ interaction' = [interaction EXCEPT ![i] = None]
    /\ \/ /\ told' = [told EXCEPT ![i] = @ + 1]
          /\ delivered' = delivered \cup {i}
          /\ UNCHANGED unsent
       \/ /\ unsent' = unsent \cup {i}
          /\ UNCHANGED <<told, delivered>>
    /\ UNCHANGED <<runner, index, run, waiter, cancelled, announced,
                   finishedSent, events, signalled, callers>>

NoticeLeaves(i) ==
    /\ notice[i] = "leave"
    /\ NoticeTo(i, "done")
    /\ UNCHANGED <<runner, index, run, waiter, cancelled, unsent, flags,
                   interaction, signalled, callers, told>>

NoticeStep(i) ==
    \/ NoticeWakes(i) \/ NoticeLocks(i) \/ NoticeChecks(i) \/ NoticeSends(i)
    \/ NoticeLeaves(i)

-----------------------------------------------------------------------------
(* WritePersistent.  A process is named once RunPersistent has returned it. *)

Poll(c, i) ==
    /\ pc[c] = "idle"
    /\ run[i] = "done" /\ i \in retained
    /\ Goto(c, "poll")
    /\ op' = [op EXCEPT ![c] = "poll"]
    /\ item' = [item EXCEPT ![c] = i]
    /\ UNCHANGED <<runner, index, run, waiter, notices, flags, interaction,
                   signalled, mine, awaits, resumes, told>>

PollLocks(c) ==
    LET i == item[c] IN
    /\ pc[c] = "poll"
    /\ interaction[i] = None
    /\ IF i \in retained
       THEN /\ Goto(c, "collect")
            /\ interaction' = [interaction EXCEPT ![i] = c]
            /\ UNCHANGED <<op, item, mine, awaits, resumes>>
       ELSE Return(c) /\ UNCHANGED interaction
    /\ UNCHANGED <<runner, index, run, waiter, notices, flags, signalled, told>>

\* Mutant: the poll does not say that it has delivered the end.
PollEnds_Unmarked(c) ==
    LET i == item[c] IN
    /\ pc[c] = "collect"
    /\ Finished(i)
    /\ Goto(c, "remove")
    /\ told' = [told EXCEPT ![i] = IF i \in delivered THEN @ ELSE @ + 1]
    /\ UNCHANGED <<runner, index, run, waiter, notices, flags, interaction,
                   signalled, op, item, mine, awaits, resumes>>

\* The process ended: the poll gives its end to the session, unless the notice did.
PollEnds(c) ==
    LET i == item[c] IN
    /\ pc[c] = "collect"
    /\ Finished(i)
    /\ Goto(c, "remove")
    /\ told' = [told EXCEPT ![i] = IF i \in delivered THEN @ ELSE @ + 1]
    /\ delivered' = delivered \cup {i}
    /\ UNCHANGED <<runner, index, run, waiter, notices, announced,
                   finishedSent, events, interaction, signalled, op, item, mine,
                   awaits, resumes>>

\* The yield time is over, the call's context done, or the write failed.
PollYields(c) ==
    /\ pc[c] = "collect"
    /\ interaction' = [interaction EXCEPT ![item[c]] = None]
    /\ Return(c)
    /\ UNCHANGED <<runner, index, run, waiter, notices, flags, signalled, told>>

PollRemoves(c) ==
    LET i == item[c] IN
    /\ pc[c] = "remove"
    /\ Forget({i})
    /\ tasks' = tasks \ {i}
    /\ interaction' = [interaction EXCEPT ![i] = None]
    /\ Return(c)
    /\ UNCHANGED <<runner, run, waiter, notices, flags, signalled, told>>

-----------------------------------------------------------------------------
(* InterruptPersistent; interrupting and deleting the session; Close.      *)

Kill(c, i) ==
    /\ pc[c] = "idle"
    /\ i \in tasks /\ i \in retained /\ ~Finished(i)
    /\ Forget({i})
    /\ Goto(c, "stop")
    /\ op' = [op EXCEPT ![c] = "kill"]
    /\ mine' = [mine EXCEPT ![c] = {i}]
    /\ UNCHANGED <<runner, tasks, run, waiter, notices, flags, interaction,
                   signalled, item, awaits, resumes, told>>

\* SuspendSession, first critical section.
Suspend(c, o) ==
    /\ pc[c] = "idle"
    /\ paused < MaxPaused
    /\ o = "delete" => ~deleted
    /\ paused' = paused + 1
    /\ cancelled' = cancelled \cup Active
    /\ awaits' = [awaits EXCEPT ![c] = Active]
    /\ Goto(c, "suspend")
    /\ op' = [op EXCEPT ![c] = o]
    /\ UNCHANGED <<closed, deleted, directory, cleanup, index, run, waiter,
                   notice, unsent, flags, interaction, signalled, item, mine,
                   resumes, told>>

AfterSuspend(c) == Goto(c, IF op[c] = "delete" THEN "delete" ELSE "take")

\* All notices have ended.
Suspended(c) ==
    /\ pc[c] = "suspend"
    /\ awaits[c] \cap Active = {}
    /\ AfterSuspend(c)
    /\ resumes' = resumes \cup {c}
    /\ UNCHANGED <<runner, index, run, waiter, notices, flags, interaction,
                   signalled, op, item, mine, awaits, told>>

\* The caller's context is done: the call goes on, and will not resume.  When it
\* is the notices of child sessions that it could not await, it resumes at once.
SuspendFails(c) ==
    /\ pc[c] = "suspend"
    /\ AfterSuspend(c)
    /\ \/ awaits[c] \cap Active # {} /\ UNCHANGED paused
       \/ awaits[c] \cap Active = {} /\ paused' = IF paused > 0 THEN paused - 1 ELSE 0
    /\ UNCHANGED <<closed, deleted, directory, cleanup, index, run, waiter,
                   notices, flags, interaction, signalled, op, item, mine,
                   awaits, resumes, told>>

\* DeleteSession takes the cleanup lock and marks the session deleted.
DeleteBegin(c) ==
    /\ pc[c] = "delete"
    /\ cleanup = None
    /\ cleanup' = c
    /\ deleted' = TRUE
    /\ Goto(c, "users")
    /\ UNCHANGED <<closed, directory, paused, index, run, waiter, notices,
                   flags, interaction, signalled, op, item, mine, awaits,
                   resumes, told>>

\* Nobody is starting a command in the temporary directory.
NoUsers(c) ==
    /\ pc[c] = "users"
    /\ Users = {}
    /\ Goto(c, "take")
    /\ UNCHANGED <<runner, index, run, waiter, notices, flags, interaction,
                   signalled, op, item, mine, awaits, resumes, told>>

\* takeSessionProcesses.
Take(c) ==
    /\ pc[c] = "take"
    /\ Forget(retained)
    /\ mine' = [mine EXCEPT ![c] = retained]
    /\ Goto(c, "stop")
    /\ UNCHANGED <<runner, tasks, run, waiter, notices, flags, interaction,
                   signalled, op, item, awaits, resumes, told>>

Close(c) ==
    /\ pc[c] = "idle" /\ ~closed /\ cleanup = None
    /\ cleanup' = c
    /\ closed' = TRUE
    /\ paused' = 0
    /\ cancelled' = cancelled \cup Active
    /\ mine' = [mine EXCEPT ![c] = retained]
    /\ retained' = {} /\ reserved' = {}
    /\ Goto(c, "stop")
    /\ op' = [op EXCEPT ![c] = "close"]
    /\ UNCHANGED <<deleted, directory, tasks, run, waiter, notice, unsent,
                   flags, interaction, signalled, item, awaits, resumes, told>>

\* A claimed process is unregistered and told to end, ...
StopOne(c) ==
    /\ pc[c] = "stop"
    /\ \E i \in mine[c] :
         /\ item' = [item EXCEPT ![c] = i]
         /\ mine' = [mine EXCEPT ![c] = @ \ {i}]
         /\ tasks' = tasks \ {i}
         /\ signalled' = signalled \cup {i}
    /\ Goto(c, "gone")
    /\ UNCHANGED <<runner, retained, reserved, run, waiter, notices, flags,
                   interaction, op, awaits, resumes, told>>

\* ... and awaited.
Stopped(c) ==
    /\ pc[c] = "gone"
    /\ Finished(item[c])
    /\ item' = [item EXCEPT ![c] = None]
    /\ Goto(c, "stop")
    /\ UNCHANGED <<runner, index, run, waiter, notices, flags, interaction,
                   signalled, op, mine, awaits, resumes, told>>

\* All are gone: what is left of the call.  The directory may not be removable.
AllStopped(c) ==
    /\ pc[c] = "stop" /\ mine[c] = {}
    /\ op[c] = "close" => Active = {} /\ Users = {}
    /\ IF op[c] \in {"delete", "close"}
       THEN cleanup' = None /\ directory' \in {FALSE, directory}
       ELSE UNCHANGED <<cleanup, directory>>
    /\ IF c \in resumes
       THEN Goto(c, "resume") /\ UNCHANGED <<op, item, mine, awaits, resumes>>
       ELSE Return(c)
    /\ UNCHANGED <<closed, deleted, paused, index, run, waiter, notices, flags,
                   interaction, signalled, told>>

\* ResumeSession.
Resume(c) ==
    /\ pc[c] = "resume"
    /\ paused' = IF paused > 0 THEN paused - 1 ELSE 0
    /\ Return(c)
    /\ UNCHANGED <<closed, deleted, directory, cleanup, index, run, waiter,
                   notices, flags, interaction, signalled, told>>

CallerStep(c) ==
    \/ PollLocks(c) \/ PollEnds(c) \/ PollYields(c) \/ PollRemoves(c)
    \/ Suspended(c) \/ SuspendFails(c) \/ DeleteBegin(c) \/ NoUsers(c)
    \/ Take(c) \/ StopOne(c) \/ Stopped(c) \/ AllStopped(c) \/ Resume(c)

-----------------------------------------------------------------------------

WaiterStep(i) == Settle(i) \/ CloseFinished(i) \/ WaiterEmits(i)

Call(c) ==
    \/ \E i \in Processes : Poll(c, i) \/ Kill(c, i)
    \/ \E o \in {"interrupt", "delete"} : Suspend(c, o)
    \/ Close(c)

\* The runner is closed and everything has come to its end.
Rest ==
    /\ closed
    /\ \A c \in Callers : pc[c] = "idle"
    /\ \A i \in Processes :
         run[i] = "done" /\ waiter[i] \in Idle /\ notice[i] \in Idle
    /\ UNCHANGED vars

Next ==
    \/ \E i \in Processes :
         RunStep(i) \/ Exit(i) \/ WaiterStep(i) \/ NoticeStep(i)
    \/ \E c \in Callers : Call(c) \/ CallerStep(c)
    \/ Rest

Spec == Init /\ [][Next]_vars

\* A bound for TLC: two callers are at work together only while one process is unborn.
OneAtATime ==
    \/ \E i \in Processes : run[i] = "new"
    \/ Cardinality({c \in Callers : pc[c] # "idle"}) <= 1

-----------------------------------------------------------------------------
(* Properties.                                                             *)

\* Somebody is about to tell the process to end, or has.
Doomed(i) ==
    \/ i \in signalled
    \/ \E c \in Callers : i \in mine[c]

\* No command escapes the runner: as long as it runs, it is retained, its
\* RunPersistent has not decided about it, or it is being terminated
\* (storePersistent, takeSessionProcesses, InterruptPersistent, Close).
NoOrphan ==
    \A i \in Processes :
      Alive(i) => i \in retained \/ run[i] = "store" \/ Doomed(i)

\* Reservations are not lost, so that failed starts never use up the limit of
\* processes (reservePersistent, releaseReservedID).
NoReservationLeak ==
    \A i \in reserved : i \in retained \/ run[i] \in {"start", "store"}

\* The end of a process is given to the session at most once, by RunPersistent, a
\* poll or the notice, unless Send leaves it open whether it took the notice
\* (completionDelivered, interaction).
ReportedOnce == \A i \in Processes : told[i] <= 1

\* While a session is successfully suspended, it gets no notice (SuspendSession).
QuietWhileSuspended == resumes # {} => \A i \in Processes : notice[i] # "send"

\* The temporary directory outlives the sandboxed commands of the session, except
\* those that are being terminated by another call (acquireTemporaryDirectory,
\* DeleteSession, Close).
DirectoryInUse ==
    \A i \in Processes \ Unrestricted :
      Alive(i) \/ i \in Users => directory \/ Doomed(i)

\* No process is forgotten while it runs, and what belongs to it lasts as long as
\* it does: its place, the silence of its suspended session, and its directory.
ProcessesAccounted == NoOrphan /\ NoReservationLeak /\ QuietWhileSuspended /\ DirectoryInUse

\* Every process that was started as a task is also finished: once it has ended
\* and nobody works on it, both events are out (announcePersistent).
StartIsFinished ==
    \A i \in Processes :
      run[i] = "done" /\ waiter[i] = "done" /\ events[i] # << >> =>
        \E j \in 1..Len(events[i]) : events[i][j] = "finished"
=============================================================================
