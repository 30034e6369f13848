--------------------------- MODULE Interruptions ---------------------------
(***************************************************************************)
(* The handlers that stop a session from outside: an interrupt, a deletion *)
(* and the end of the application.  They silence the notices of completed  *)
(* children (CompletionNotifier) and of processes first, stop the turn,    *)
(* and hand over what is pending to a new turn.  The session is coarse     *)
(* here, AgentTurn has its turns and ManagedProcess the notices of         *)
(* processes.                                                              *)
(***************************************************************************)
EXTENDS Naturals

CONSTANTS
    Interrupts, Deletes, Closes, \* calls of the three kinds
    Notices,                     \* completed turns of children
    MaxPending,                  \* bound on the inputs pending at a time
    MaxPrompts                   \* bound on the prompts sent by clients

Handlers == Interrupts \cup Deletes \cup Closes

VARIABLES
    turn,       \* "none", "active" or "stopping"
    wake,       \* turnState.wake
    pending,    \* inputs admitted and not promoted
    prompts,    \* number of prompts sent by clients
    gone,       \* "no", "shut" or "erased"
    notice,     \* per notice: "idle", "active", "sent" or "over"
    cancelled,  \* notices whose context is cancelled
    delivered,  \* notices admitted to the session
    paused,     \* CompletionNotifier.paused of the session
    procs,      \* Runner.notifyPaused of the session
    closed,     \* CompletionNotifier.closed
    pc,         \* per handler: the place
    waits,      \* per handler: notices it has found active
    owns,       \* handlers that have deferred ResumeSession
    failed      \* handlers with an error

session == <<turn, wake, pending, prompts, gone>>
notifier == <<notice, cancelled, delivered, paused, procs, closed>>
handlers == <<pc, waits, owns, failed>>
vars == <<session, notifier, handlers>>

Init ==
    /\ turn = "none" /\ wake = FALSE /\ pending = 0 /\ prompts = 0 /\ gone = "no"
    /\ notice = [n \in Notices |-> "idle"] /\ cancelled = {} /\ delivered = {}
    /\ paused = 0 /\ procs = 0 /\ closed = FALSE
    /\ pc = [h \in Handlers |-> "called"] /\ waits = [h \in Handlers |-> {}]
    /\ owns = {} /\ failed = {}

Go(h, place) == pc' = [pc EXCEPT ![h] = place]

-----------------------------------------------------------------------------
(* The session.                                                            *)

\* Send: an active turn is woken, an idle session gets a turn.  A turn that is
\* being stopped is awaited.
Admits ==
    /\ gone = "no" /\ turn # "stopping" /\ pending < MaxPending
    /\ pending' = pending + 1
    /\ turn' = "active" /\ wake' = (turn = "active" \/ wake)

SubmitPrompt ==
    /\ prompts < MaxPrompts /\ prompts' = prompts + 1
    /\ Admits
    /\ UNCHANGED <<gone, notifier, handlers>>

\* The drain promotes what is pending, and looks at the wake flag at its end.
Promote ==
    /\ turn = "active" /\ pending > 0 /\ pending' = 0
    /\ UNCHANGED <<turn, wake, prompts, gone, notifier, handlers>>

EndTurn ==
    /\ turn = "active" /\ pending = 0
    /\ IF wake THEN wake' = FALSE /\ UNCHANGED turn
       ELSE turn' = "none" /\ UNCHANGED wake
    /\ UNCHANGED <<pending, prompts, gone, notifier, handlers>>

\* The stopped turn completes and answers whoever waits for it; a wake that came
\* meanwhile starts another one.
FinishStopped ==
    /\ turn = "stopping"
    /\ turn' = (IF wake /\ gone = "no" THEN "active" ELSE "none") /\ wake' = FALSE
    /\ pc' = [h \in Handlers |-> IF pc[h] = "stopping" THEN "cleanup" ELSE pc[h]]
    /\ UNCHANGED <<pending, prompts, gone, notifier, waits, owns, failed>>

-----------------------------------------------------------------------------
(* CompletionNotifier.                                                     *)

Notify(n) ==
    /\ notice[n] = "idle"
    /\ notice' = [notice EXCEPT ![n] = IF closed \/ paused > 0 THEN "over" ELSE "active"]
    /\ UNCHANGED <<session, cancelled, delivered, paused, procs, closed, handlers>>

\* The delivery sends, or gives up: cancelled, after five seconds, or because
\* the session is gone.
Deliver(n) ==
    /\ notice[n] = "active" /\ notice' = [notice EXCEPT ![n] = "sent"]
    /\ \/ Admits /\ delivered' = delivered \cup {n}
       \/ UNCHANGED <<turn, wake, pending, delivered>>
    /\ UNCHANGED <<prompts, gone, cancelled, paused, procs, closed, handlers>>

Delivered(n) ==
    /\ notice[n] = "sent" /\ notice' = [notice EXCEPT ![n] = "over"]
    /\ UNCHANGED <<session, cancelled, delivered, paused, procs, closed, handlers>>

Running(n) == notice[n] \in {"active", "sent"}

-----------------------------------------------------------------------------
(* Suspending: the processes, then the notices.  Whoever fails goes on     *)
(* with the interrupt, and does not resume.                                *)

SuspendProcesses(h) ==
    /\ h \notin Closes /\ pc[h] = "called" /\ procs' = procs + 1
    /\ \/ Go(h, "notices") /\ UNCHANGED failed
       \/ Go(h, "turn") /\ failed' = failed \cup {h}
    /\ UNCHANGED <<session, notice, cancelled, delivered, paused, closed, waits, owns>>

SuspendSession(h) ==
    /\ h \notin Closes /\ pc[h] = "notices" /\ paused' = paused + 1
    /\ waits' = [waits EXCEPT ![h] = {n \in Notices : Running(n)}]
    /\ Go(h, "waiting")
    /\ UNCHANGED <<session, notice, cancelled, delivered, procs, closed, owns, failed>>

\* One delivery after the other is cancelled and awaited.
Cancel(h, n) ==
    /\ pc[h] = "waiting" /\ n \in waits[h] \ cancelled
    /\ \A m \in waits[h] \cap cancelled : ~Running(m)
    /\ cancelled' = cancelled \cup {n}
    /\ UNCHANGED <<session, notice, delivered, paused, procs, closed, handlers>>

\* Mutant: the deliveries are cancelled and not awaited.
Suspended_Cancelled(h) ==
    /\ pc[h] = "waiting" /\ \A n \in waits[h] : ~Running(n) \/ n \in cancelled
    /\ Go(h, "turn") /\ owns' = owns \cup {h}
    /\ UNCHANGED <<session, notifier, waits, failed>>

Suspended(h) ==
    /\ pc[h] = "waiting" /\ \A n \in waits[h] : ~Running(n)
    /\ Go(h, "turn") /\ owns' = owns \cup {h}
    /\ UNCHANGED <<session, notifier, waits, failed>>

\* The request's context ends: processLifecycle resumes the processes; the
\* notices stay paused.
SuspendFails(h) ==
    /\ h \notin Closes /\ pc[h] = "waiting" /\ \E n \in waits[h] : Running(n)
    /\ procs' = procs - 1 /\ failed' = failed \cup {h} /\ Go(h, "turn")
    /\ UNCHANGED <<session, notice, cancelled, delivered, paused, closed, waits, owns>>

\* App.Close: the notifier is closed for good and awaited for five seconds.
CloseNotifier(h) ==
    /\ h \in Closes /\ pc[h] = "called" /\ closed' = TRUE
    /\ cancelled' = Notices
    /\ waits' = [waits EXCEPT ![h] = {n \in Notices : Running(n)}]
    /\ Go(h, "waiting")
    /\ UNCHANGED <<session, notice, delivered, paused, procs, owns, failed>>

CloseFails(h) ==
    /\ h \in Closes /\ pc[h] = "waiting" /\ \E n \in waits[h] : Running(n)
    /\ failed' = failed \cup {h} /\ Go(h, "turn")
    /\ UNCHANGED <<session, notifier, waits, owns>>

-----------------------------------------------------------------------------
(* Stopping the turn, cleaning up, and what is left behind.                *)

StopTurn(h) ==
    /\ pc[h] = "turn"
    /\ gone' = IF h \in Closes /\ gone = "no" THEN "shut" ELSE gone
    /\ IF turn = "none" THEN Go(h, "cleanup") /\ UNCHANGED <<turn, wake>>
       ELSE turn' = "stopping" /\ wake' = FALSE /\ Go(h, "stopping")
    /\ UNCHANGED <<pending, prompts, notifier, waits, owns, failed>>

StopFails(h) ==
    /\ pc[h] = "stopping" /\ failed' = failed \cup {h} /\ Go(h, "cleanup")
    /\ UNCHANGED <<session, notifier, waits, owns>>

\* The processes are gone: an interrupt looks at what is pending, a deletion
\* without an error erases the session.
Cleanup(h) ==
    /\ pc[h] = "cleanup"
    /\ Go(h, IF h \in Interrupts THEN "check" ELSE IF h \in Deletes /\ h \notin failed
             THEN "erase" ELSE "resume")
    /\ UNCHANGED <<session, notifier, waits, owns, failed>>

\* A fresh context: also a failed interrupt looks.
Check(h) ==
    /\ pc[h] = "check" /\ Go(h, IF pending > 0 THEN "wake" ELSE "resume")
    /\ UNCHANGED <<session, notifier, waits, owns, failed>>

Wake(h) ==
    /\ pc[h] = "wake" /\ Go(h, "resume")
    /\ IF gone # "no" THEN UNCHANGED <<turn, wake>>
       ELSE IF turn = "none" THEN turn' = "active" /\ UNCHANGED wake
       ELSE wake' = TRUE /\ UNCHANGED turn
    /\ UNCHANGED <<pending, prompts, gone, notifier, waits, owns, failed>>

\* The turn of the session is stopped once more; removal refuses while one is
\* active.
Erase(h) ==
    /\ pc[h] = "erase"
    /\ \/ turn = "none" /\ gone' = "erased" /\ Go(h, "resume") /\ UNCHANGED <<turn, wake, failed>>
       \/ turn = "active" /\ turn' = "stopping" /\ wake' = FALSE
          /\ UNCHANGED <<gone, pc, failed>>
       \/ turn # "none" /\ failed' = failed \cup {h} /\ Go(h, "resume")
          /\ UNCHANGED <<turn, wake, gone>>
    /\ UNCHANGED <<pending, prompts, notifier, waits, owns>>

ResumeSession(h) ==
    /\ pc[h] = "resume" /\ Go(h, "done")
    /\ IF h \in owns /\ h \notin Closes
       THEN paused' = paused - 1 /\ procs' = procs - 1
       ELSE UNCHANGED <<paused, procs>>
    /\ UNCHANGED <<session, notice, cancelled, delivered, closed, waits, owns, failed>>

Next ==
    \/ SubmitPrompt \/ Promote \/ EndTurn \/ FinishStopped
    \/ \E n \in Notices : Notify(n) \/ Deliver(n) \/ Delivered(n)
    \/ \E h \in Handlers :
          \/ SuspendProcesses(h) \/ SuspendSession(h) \/ Suspended(h) \/ SuspendFails(h)
          \/ (\E n \in Notices : Cancel(h, n)) \/ CloseNotifier(h) \/ CloseFails(h)
          \/ StopTurn(h) \/ StopFails(h) \/ Cleanup(h) \/ Check(h) \/ Wake(h)
          \/ Erase(h) \/ ResumeSession(h)

Spec == Init /\ [][Next]_vars

-----------------------------------------------------------------------------
\* "SuspendSession prevents and cancels deliveries": from its success until the
\* resume no notice is admitted.
NoNoticeWhileSuspended == (\E h \in owns : pc[h] # "done") => delivered' = delivered

\* An interrupt that stops a turn hands what is pending to another one; a deletion
\* that fails does not.
Handing(h) == pc[h] \in {"turn", "stopping", "cleanup", "check", "wake", "erase"}
Abandoned == \E h \in Deletes : h \in failed /\ ~Handing(h)
NothingStranded ==
    turn = "none" /\ pending > 0 =>
        gone # "no" \/ Abandoned \/ \E h \in Handlers : Handing(h)

\* A stop is neither undone nor does it lose anything: no notice starts the session
\* again behind the interrupt or the deletion, and what an interrupt leaves pending
\* gets a turn (SuspendSession, DomainBackend.Interrupt, DeleteSession).
StopsAreOrderly == []NothingStranded /\ [][NoNoticeWhileSuspended]_vars

\* Every pause is taken back.  It fails when SuspendSession does: see the README.
PauseIsReturned ==
    (\A h \in Handlers : pc[h] \in {"called", "done"}) => paused = 0 /\ procs = 0
=============================================================================
