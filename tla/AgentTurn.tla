----------------------------- MODULE AgentTurn ------------------------------
(***************************************************************************)
(* The turns of one agent session (internal/agent/agent_session.go).       *)
(*                                                                         *)
(* Callers send prompts, wake, resume, interrupt, shut down and remove the *)
(* session while a goroutine per turn drains it.  The session's mutex      *)
(* makes each critical section atomic; everything between two of them (the *)
(* quota, the store calls of the drain, events, the start of a goroutine)  *)
(* interleaves.  One action is one critical section, or one store call.    *)
(*                                                                         *)
(* A turn is a slot of Turns that is used again once nobody refers to it,  *)
(* and its goroutine is the process of the same name, so behaviours are    *)
(* not bounded in length.  The child quota is abstracted to its three      *)
(* answers (ChildTurnQuota has the detail); a root session needs none.     *)
(***************************************************************************)
EXTENDS Integers, FiniteSets

CONSTANTS Callers,    \* threads that call the session's methods
          Creators,   \* those of them that only run CreateChild for this session
          EarlySends, \* others may send to the child before CreateChild starts it
          Turns,      \* slots for turnState objects, and their goroutines
          Messages,   \* idempotency keys of prompts
          Prompt,     \* the one CreateChild generates
          Methods,    \* the methods callers use
          Child,      \* the session has a parent
          NoTurn,
          NoMessage

ASSUME TurnAssumption ==
    /\ IsFiniteSet(Callers) /\ IsFiniteSet(Turns) /\ IsFiniteSet(Messages)
    /\ Creators \subseteq Callers
    /\ EarlySends \in BOOLEAN
    /\ Callers \cap Turns = {}
    /\ Creators # {} => Prompt \in Messages
    /\ Methods \subseteq {"send", "wake", "resume", "interrupt", "shutdown", "remove"}
    /\ Child \in BOOLEAN
    /\ NoTurn \notin Turns
    /\ NoMessage \notin Messages

Procs == Callers \cup Turns

VARIABLES
    turn,           \* agentSession.turn
    shuttingDown,   \* agentSession.shuttingDown
    removed,        \* agentSession.removed
    status,         \* turnState.status; "free" for an unused slot
    wake,           \* turnState.wake
    cancelled,      \* turnState.ctx is done
    completed,      \* turnState.completion has a result
    releaseQuota,   \* turnState.releaseQuota # nil
    steer,          \* turnState.steerSequence, 0 while not steerSignaled
    sequence,       \* the store's event sequence, admissions only
    admitted,       \* per message: admitted_sequence, 0 if unknown
    promoted,       \* messages whose input is promoted
    pc,             \* per process: where it is
    op,             \* per process: the call it is in
    arg,            \* per caller: the message it sends
    state,          \* per process: the turn it works on or waits for
    quota,          \* per process: the answer of tryAcquireTurnQuota
    result,         \* per process: how the turn it runs will end
    cutoff,         \* per process: LatestSequence as the drain read it
    permits,        \* permits taken and not given back
    reply,          \* per message: the last successful Send nobody failed since
    stopped         \* a Shutdown has returned

session == <<turn, shuttingDown, removed>>
turns == <<status, wake, cancelled, completed, releaseQuota, steer>>
store == <<sequence, admitted, promoted>>
locals == <<arg, state, quota, result, cutoff>>
history == <<reply, stopped>>
vars == <<session, turns, store, pc, op, locals, permits, history>>

Active == {"blocked", "running", "interrupting"}
Final == {"succeeded", "failed", "canceled"}

CallerPlaces == {"sendLock", "sendWait", "sendQuota", "sendCreate", "register",
    "start", "emptyLock", "emptyQuota", "emptyCreate", "wait"}
Draining == {"cutoff", "promote", "acknowledge", "provider"}
RunnerPlaces == Draining \cup {"permit", "run", "drained", "finish", "publish",
    "complete", "restart"}
Ops == {"none", "send", "create", "wake", "resume", "interrupt", "shutdown",
    "turn"}

TypeOK ==
    /\ turn \in Turns \cup {NoTurn}
    /\ shuttingDown \in BOOLEAN /\ removed \in BOOLEAN /\ stopped \in BOOLEAN
    /\ status \in [Turns -> Active \cup Final \cup {"free"}]
    /\ wake \in [Turns -> BOOLEAN]
    /\ cancelled \in [Turns -> BOOLEAN]
    /\ completed \in [Turns -> BOOLEAN]
    /\ releaseQuota \in [Turns -> BOOLEAN]
    /\ steer \in [Turns -> Nat]
    /\ sequence \in Nat
    /\ admitted \in [Messages -> Nat]
    /\ promoted \subseteq Messages
    /\ pc \in [Procs -> CallerPlaces \cup RunnerPlaces \cup {"idle"}]
    /\ op \in [Procs -> Ops]
    /\ arg \in [Callers -> Messages \cup {NoMessage}]
    /\ state \in [Procs -> Turns \cup {NoTurn}]
    /\ quota \in [Procs -> {"none", "granted", "blocked"}]
    /\ result \in [Procs -> Final]
    /\ cutoff \in [Procs -> Nat]
    /\ permits \in Int
    /\ reply \in [Messages -> {"none", "created", "duplicate"}]

\* CreateChild has bound its child, which everybody can look up from now on, and
\* is about to admit the prompt.
Init ==
    /\ turn = NoTurn
    /\ shuttingDown = FALSE /\ removed = FALSE /\ stopped = FALSE
    /\ status = [t \in Turns |-> "free"]
    /\ wake = [t \in Turns |-> FALSE]
    /\ cancelled = [t \in Turns |-> FALSE]
    /\ completed = [t \in Turns |-> FALSE]
    /\ releaseQuota = [t \in Turns |-> FALSE]
    /\ steer = [t \in Turns |-> 0]
    /\ sequence = 0
    /\ admitted = [m \in Messages |-> 0]
    /\ promoted = {}
    /\ pc = [p \in Procs |-> IF p \in Creators THEN "sendLock" ELSE "idle"]
    /\ op = [p \in Procs |-> IF p \in Creators THEN "create" ELSE "none"]
    /\ arg = [c \in Callers |-> IF c \in Creators THEN Prompt ELSE NoMessage]
    /\ state = [p \in Procs |-> NoTurn]
    /\ quota = [p \in Procs |-> "none"]
    /\ result = [p \in Procs |-> "succeeded"]
    /\ cutoff = [p \in Procs |-> 0]
    /\ permits = 0
    /\ reply = [m \in Messages |-> "none"]

-----------------------------------------------------------------------------
(* Shorthands.                                                             *)

Goto(p, place) == pc' = [pc EXCEPT ![p] = place]

\* A call returns, or a goroutine ends.
Return(p) ==
    /\ pc' = [pc EXCEPT ![p] = "idle"]
    /\ op' = [op EXCEPT ![p] = "none"]
    /\ arg' = [c \in Callers |-> IF c = p THEN NoMessage ELSE arg[c]]
    /\ state' = [state EXCEPT ![p] = NoTurn]
    /\ quota' = [quota EXCEPT ![p] = "none"]
    /\ result' = [result EXCEPT ![p] = "succeeded"]
    /\ cutoff' = [cutoff EXCEPT ![p] = 0]

\* s.turn != nil && turnActive(s.turn.status)
Busy == turn # NoTurn /\ status[turn] \in Active

\* A turnState nobody but the session, which is about to replace it, and p, which
\* restarts the turn, points to: its slot may serve for a new one.
FreeFor(p, t) ==
    /\ t = turn => status[t] \notin Active
    /\ pc[t] = "idle" \/ t = p
    /\ \A q \in Procs \ {p} : state[q] # t

Pending == {m \in Messages : admitted[m] # 0 /\ m \notin promoted}

\* Whoever sent the pending prompts has been told, by an interrupt, a shutdown
\* or a failed turn, that they may stay unprocessed.
Excuse == reply' = [m \in Messages |-> IF m \in Pending THEN "none" ELSE reply[m]]

\* The permits p got from tryAcquireTurnQuota go back.
GiveBack(p) ==
    /\ permits' = IF quota[p] = "granted" THEN permits - 1 ELSE permits
    /\ quota' = [quota EXCEPT ![p] = "none"]

\* admitLocked: the store may fail before or after its transaction commits, the
\* latter when the session's entry cannot be republished.
Admit(m, outcome) ==
    /\ \/ outcome = "created" /\ admitted[m] = 0
       \/ outcome = "duplicate" /\ admitted[m] # 0
       \/ outcome = "error"
       \/ outcome = "errorAfterCommit" /\ admitted[m] = 0
    /\ IF outcome \in {"created", "errorAfterCommit"}
       THEN /\ sequence' = sequence + 1
            /\ admitted' = [admitted EXCEPT ![m] = sequence + 1]
       ELSE UNCHANGED <<sequence, admitted>>
    /\ reply' = IF \/ outcome = "created"
                   \/ outcome = "duplicate" /\ reply[m] = "none" /\ m \notin promoted
                THEN [reply EXCEPT ![m] = outcome] ELSE reply
    /\ UNCHANGED promoted

AdmitOutcomes == {"created", "duplicate", "error", "errorAfterCommit"}

\* newTurnLocked with the permits that p obtained.
NewTurn(p, t) ==
    /\ FreeFor(p, t)
    /\ turn' = t
    /\ status' = [status EXCEPT ![t] =
                    IF quota[p] = "blocked" THEN "blocked" ELSE "running"]
    /\ wake' = [wake EXCEPT ![t] = FALSE]
    /\ cancelled' = [cancelled EXCEPT ![t] = FALSE]
    /\ completed' = [completed EXCEPT ![t] = FALSE]
    /\ releaseQuota' = [releaseQuota EXCEPT ![t] = quota[p] = "granted"]
    /\ steer' = [steer EXCEPT ![t] = 0]
    /\ state' = [state EXCEPT ![p] = t]
    /\ quota' = [quota EXCEPT ![p] = "none"]
    /\ UNCHANGED permits

-----------------------------------------------------------------------------
(* Send, and the admission of CreateChild: admitAndStart.                  *)

Send(c, m) ==
    /\ pc[c] = "idle" /\ "send" \in Methods
    /\ m # Prompt
    /\ Goto(c, "sendLock")
    /\ op' = [op EXCEPT ![c] = "send"]
    /\ arg' = [arg EXCEPT ![c] = m]
    /\ UNCHANGED <<session, turns, store, state, quota, result, cutoff,
                   permits, history>>

\* What the caller does with a turn it was given: CreateChild registers the
\* child and starts the turn itself, Send returns.
AdmittedTo(c, t) ==
    IF op[c] = "create"
    THEN /\ Goto(c, "register")
         /\ state' = [state EXCEPT ![c] = t]
         /\ UNCHANGED <<op, arg, quota, result, cutoff>>
    ELSE Return(c)

\* The first critical section, with an active turn that takes the prompt, ...
SendJoin(c, outcome) ==
    /\ pc[c] = "sendLock"
    /\ ~removed /\ ~shuttingDown
    /\ Busy /\ status[turn] = "running"
    /\ Admit(arg[c], outcome)
    /\ IF outcome = "created"
       THEN /\ wake' = [wake EXCEPT ![turn] = TRUE]
            /\ steer' = [steer EXCEPT ![turn] = sequence']
       ELSE UNCHANGED <<wake, steer>>
    /\ IF outcome \in {"created", "duplicate"} THEN AdmittedTo(c, turn)
                                              ELSE Return(c)
    /\ UNCHANGED <<session, status, cancelled, completed, releaseQuota,
                   permits, stopped>>

\* ... or with one that is blocked or ending, whose completion it awaits, or
\* with none, or refusing the call.
SendLock(c) ==
    /\ pc[c] = "sendLock"
    /\ \/ /\ removed \/ shuttingDown
          /\ Return(c)
       \/ /\ ~removed /\ ~shuttingDown
          /\ Busy /\ status[turn] \in {"blocked", "interrupting"}
          /\ Goto(c, "sendWait")
          /\ state' = [state EXCEPT ![c] = turn]
          /\ UNCHANGED <<op, arg, quota, result, cutoff>>
       \/ /\ ~removed /\ ~shuttingDown
          /\ ~Busy
          /\ Goto(c, "sendQuota")
          /\ UNCHANGED <<op, locals>>
    /\ UNCHANGED <<session, turns, store, permits, history>>

SendRetry(c) ==
    /\ pc[c] = "sendWait"
    /\ completed[state[c]]
    /\ Goto(c, "sendLock")
    /\ state' = [state EXCEPT ![c] = NoTurn]
    /\ UNCHANGED <<session, turns, store, op, arg, quota, result, cutoff,
                   permits, history>>

\* The context of a waiting caller ends.
CallerGivesUp(c) ==
    /\ pc[c] \in {"sendWait", "wait"}
    /\ Return(c)
    /\ UNCHANGED <<session, turns, store, permits, history>>

\* tryAcquireTurnQuota: a root session needs no permit, Send does not wait for
\* one, and nobody goes on when the user session is closed.
QuotaAnswers == IF Child THEN {"granted", "blocked", "closed"} ELSE {"none"}
Kept(p) == {"none", "granted"} \cup IF op[p] = "send" THEN {} ELSE {"blocked"}

Quota(p, answer) ==
    /\ pc[p] \in {"sendQuota", "emptyQuota"}
    /\ \/ /\ answer \in Kept(p)
          /\ Goto(p, IF pc[p] = "sendQuota" THEN "sendCreate" ELSE "emptyCreate")
          /\ quota' = [quota EXCEPT ![p] = answer]
          /\ permits' = IF answer = "granted" THEN permits + 1 ELSE permits
          /\ UNCHANGED <<op, arg, state, result, cutoff, reply>>
       \/ /\ answer \notin Kept(p)
          /\ Return(p)
          /\ IF op[p] = "turn" THEN Excuse ELSE UNCHANGED reply
          /\ UNCHANGED permits
    /\ UNCHANGED <<session, turns, store, stopped>>

\* The second critical section: somebody else's turn came first, ...
SendAgain(c) ==
    /\ pc[c] = "sendCreate"
    /\ Busy
    /\ GiveBack(c)
    /\ Goto(c, "sendLock")
    /\ UNCHANGED <<session, turns, store, op, arg, state, result, cutoff, history>>

\* ... the prompt is not admitted (or already was), ...
SendRefused(c, outcome) ==
    /\ pc[c] = "sendCreate"
    /\ ~Busy
    /\ IF removed \/ shuttingDown
       THEN outcome = "error" /\ UNCHANGED <<store, reply>>
       ELSE outcome # "created" /\ Admit(arg[c], outcome)
    /\ permits' = IF quota[c] = "granted" THEN permits - 1 ELSE permits
    /\ Return(c)
    /\ UNCHANGED <<session, turns, stopped>>

\* ... or it is, and has a turn of its own.
SendCreate(c, t) ==
    /\ pc[c] = "sendCreate"
    /\ ~Busy
    /\ ~removed /\ ~shuttingDown
    /\ Admit(arg[c], "created")
    /\ NewTurn(c, t)
    /\ Goto(c, IF op[c] = "create" THEN "register" ELSE "start")
    /\ UNCHANGED <<shuttingDown, removed, op, arg, result, cutoff, stopped>>

\* CreateChild registers the child as a task, or aborts its turn (abortTurn) and
\* discards the child.  Its rows may survive that; if they do not, later calls on
\* the session end as store errors let them.
Register(c) ==
    /\ pc[c] = "register"
    /\ \/ /\ Goto(c, "start")
          /\ UNCHANGED <<session, turns, op, locals, permits, reply>>
       \/ LET t == state[c] IN
          /\ cancelled' = [cancelled EXCEPT ![t] = TRUE]
          /\ permits' = IF releaseQuota[t] THEN permits - 1 ELSE permits
          /\ releaseQuota' = [releaseQuota EXCEPT ![t] = FALSE]
          /\ status' = [status EXCEPT ![t] = "canceled"]
          /\ turn' = IF turn = t THEN NoTurn ELSE turn
          /\ completed' = [completed EXCEPT ![t] = TRUE]
          /\ Excuse
          /\ Return(c)
          /\ UNCHANGED <<shuttingDown, removed, wake, steer>>
    /\ UNCHANGED <<store, stopped>>

-----------------------------------------------------------------------------
(* Wake, Resume and the restart of a finished turn: startEmptyTurn.        *)

CallEmpty(c, o) ==
    /\ pc[c] = "idle"
    /\ o \in {"wake", "resume"} \cap Methods
    /\ Goto(c, "emptyLock")
    /\ op' = [op EXCEPT ![c] = o]
    /\ UNCHANGED <<session, turns, store, locals, permits, history>>

EmptyLock(p) ==
    /\ pc[p] = "emptyLock"
    /\ \/ /\ removed \/ shuttingDown
          /\ Return(p)
          /\ UNCHANGED wake
       \/ /\ ~removed /\ ~shuttingDown
          /\ Busy
          /\ wake' = [wake EXCEPT ![turn] = @ \/ op[p] = "wake"]
          /\ IF op[p] = "resume"
             THEN /\ Goto(p, "wait")
                  /\ state' = [state EXCEPT ![p] = turn]
                  /\ UNCHANGED <<op, arg, quota, result, cutoff>>
             ELSE Return(p)
       \/ /\ ~removed /\ ~shuttingDown
          /\ ~Busy
          /\ Goto(p, "emptyQuota")
          /\ UNCHANGED <<wake, op, locals>>
    /\ UNCHANGED <<session, status, cancelled, completed, releaseQuota, steer,
                   store, permits, history>>

EmptyAgain(p) ==
    /\ pc[p] = "emptyCreate"
    /\ removed \/ shuttingDown \/ Busy
    /\ GiveBack(p)
    /\ Goto(p, "emptyLock")
    /\ UNCHANGED <<session, turns, store, op, arg, state, result, cutoff, history>>

\* Mutant: a turn that appeared while the quota was asked is not looked for.
EmptyCreate_NoRecheck(p, t) ==
    /\ pc[p] = "emptyCreate"
    /\ ~removed /\ ~shuttingDown
    /\ NewTurn(p, t)
    /\ Goto(p, "start")
    /\ UNCHANGED <<shuttingDown, removed, store, op, arg, result, cutoff, history>>

\* Mutant: a shutdown that came while the quota was asked is not looked for.
EmptyCreate_AfterShutdown(p, t) ==
    /\ pc[p] = "emptyCreate"
    /\ ~removed /\ ~Busy
    /\ NewTurn(p, t)
    /\ Goto(p, "start")
    /\ UNCHANGED <<shuttingDown, removed, store, op, arg, result, cutoff, history>>

EmptyCreate(p, t) ==
    /\ pc[p] = "emptyCreate"
    /\ ~removed /\ ~shuttingDown /\ ~Busy
    /\ NewTurn(p, t)
    /\ Goto(p, "start")
    /\ UNCHANGED <<shuttingDown, removed, store, op, arg, result, cutoff, history>>

\* Mutant: a turn interrupted before its start gets no goroutine.
Start_SkipsInterrupted(p) ==
    LET t == state[p]
        waits == op[p] = "resume"
        place == CASE status[t] = "interrupting" -> "idle"
                   [] status[t] = "blocked" -> "permit"
                   [] OTHER -> "run"
    IN
    /\ pc[p] = "start"
    /\ pc' = [pc EXCEPT ![p] = IF waits THEN "wait" ELSE "idle", ![t] = place]
    /\ op' = [op EXCEPT ![p] = IF waits THEN @ ELSE "none", ![t] = "turn"]
    /\ state' = [state EXCEPT ![p] = IF waits THEN t ELSE NoTurn, ![t] = t]
    /\ arg' = [c \in Callers |-> IF c = p THEN NoMessage ELSE arg[c]]
    /\ UNCHANGED <<session, turns, store, quota, result, cutoff, permits, history>>

\* startTurn: a goroutine for the turn.  CreateChild returns with it, so its
\* process stands for that goroutine from now on.
Start(p) ==
    LET t == state[p]
        g == IF op[p] = "create" THEN p ELSE t
        waits == op[p] = "resume"
        place == CASE status[t] = "interrupting" -> "finish"
                   [] status[t] = "blocked" -> "permit"
                   [] OTHER -> "run"
    IN
    /\ pc[p] = "start"
    /\ pc' = [pc EXCEPT ![p] = IF waits THEN "wait" ELSE "idle", ![g] = place]
    /\ op' = [op EXCEPT ![p] = IF waits THEN @ ELSE "none", ![g] = "turn"]
    /\ state' = [state EXCEPT ![p] = IF waits THEN t ELSE NoTurn, ![g] = t]
    /\ arg' = [c \in Callers |-> IF c = p THEN NoMessage ELSE arg[c]]
    /\ result' = [result EXCEPT ![g] =
                     IF place = "finish" THEN "canceled" ELSE "succeeded"]
    /\ UNCHANGED <<session, turns, store, quota, cutoff, permits, history>>

-----------------------------------------------------------------------------
(* Interrupt, Shutdown and removal.                                        *)

\* The active turn is told to end, and the caller awaits its completion.
Stop(c, o) ==
    /\ Busy
    /\ status' = [status EXCEPT ![turn] = "interrupting"]
    /\ wake' = [wake EXCEPT ![turn] = FALSE]
    /\ cancelled' = [cancelled EXCEPT ![turn] = TRUE]
    /\ Excuse
    /\ Goto(c, "wait")
    /\ op' = [op EXCEPT ![c] = o]
    /\ state' = [state EXCEPT ![c] = turn]

Interrupt(c) ==
    /\ pc[c] = "idle" /\ "interrupt" \in Methods
    /\ Stop(c, "interrupt")
    /\ UNCHANGED <<session, completed, releaseQuota, steer, store, arg, quota,
                   result, cutoff, permits, stopped>>

Shutdown(c) ==
    /\ pc[c] = "idle" /\ "shutdown" \in Methods
    /\ shuttingDown' = TRUE
    /\ \/ Stop(c, "shutdown") /\ UNCHANGED stopped
       \/ /\ ~Busy
          /\ stopped' = TRUE
          /\ UNCHANGED <<status, wake, cancelled, pc, op, state, reply>>
    /\ UNCHANGED <<turn, removed, completed, releaseQuota, steer, store, arg,
                   quota, result, cutoff, permits>>

\* wait: the turn is complete.
WaitDone(c) ==
    /\ pc[c] = "wait"
    /\ completed[state[c]]
    /\ stopped' = (stopped \/ op[c] = "shutdown")
    /\ Return(c)
    /\ UNCHANGED <<session, turns, store, permits, reply>>

\* removeIfIdle, when the session has no turn and creates no child.
Remove(c) ==
    /\ pc[c] = "idle" /\ "remove" \in Methods
    /\ ~removed /\ ~Busy
    /\ removed' = TRUE
    /\ UNCHANGED <<turn, shuttingDown, turns, store, pc, op, locals, permits,
                   history>>

-----------------------------------------------------------------------------
(* The goroutine of a turn: waitForTurnPermit, runTurn, finishTurn.        *)

Runs(g, place) == pc[g] = place /\ state[g] # NoTurn

\* The permits arrive; a turn that was interrupted meanwhile returns them.
PermitGranted(g) ==
    LET t == state[g] IN
    /\ Runs(g, "permit")
    /\ IF cancelled[t] \/ turn # t
       THEN /\ Goto(g, "finish")
            /\ result' = [result EXCEPT ![g] = "canceled"]
            /\ UNCHANGED <<status, releaseQuota, permits>>
       ELSE /\ Goto(g, "run")
            /\ status' = [status EXCEPT ![t] = "running"]
            /\ releaseQuota' = [releaseQuota EXCEPT ![t] = TRUE]
            /\ permits' = permits + 1
            /\ UNCHANGED result
    /\ UNCHANGED <<session, wake, cancelled, completed, steer, store, op, arg,
                   state, quota, cutoff, history>>

\* What an error means for a turn: its own cancellation, or a failure.
ErrorOf(g) == IF cancelled[state[g]] THEN "canceled" ELSE "failed"

Fails(g, place) ==
    /\ Goto(g, place)
    /\ result' = [result EXCEPT ![g] = ErrorOf(g)]
    /\ cutoff' = [cutoff EXCEPT ![g] = 0]
    /\ Excuse
    /\ UNCHANGED <<session, turns, op, arg, state, quota, permits, stopped>>

\* acquireTurnQuota fails: the turn is cancelled or the user session closed.
PermitFails(g) == Runs(g, "permit") /\ Fails(g, "finish") /\ UNCHANGED store

\* runTurn checks for an interrupt and prepares the turn, which may fail.
Run(g) ==
    LET t == state[g] IN
    /\ Runs(g, "run")
    /\ ~cancelled[t] /\ status[t] # "interrupting"
    /\ Goto(g, "cutoff")
    /\ UNCHANGED <<session, turns, store, op, locals, permits, history>>

RunEnds(g) == Runs(g, "run") /\ Fails(g, "finish") /\ UNCHANGED store

\* drainOnce: the sequence up to which this provider turn takes prompts, ...
ReadCutoff(g) ==
    /\ Runs(g, "cutoff")
    /\ ~cancelled[state[g]]
    /\ cutoff' = [cutoff EXCEPT ![g] = sequence]
    /\ Goto(g, "promote")
    /\ UNCHANGED <<session, turns, store, op, arg, state, quota, result,
                   permits, history>>

\* ... their promotion, which may also commit and then fail, ...
PromoteSteers(g) ==
    /\ Runs(g, "promote")
    /\ promoted' = promoted \cup {m \in Pending : admitted[m] <= cutoff[g]}
    /\ UNCHANGED <<sequence, admitted>>
    /\ \/ /\ Goto(g, "acknowledge")
          /\ UNCHANGED <<session, turns, op, locals, permits, history>>
       \/ Fails(g, "drained")

\* Mutant: the signal is cleared without looking at the cutoff.
AcknowledgeSteers_All(g) ==
    /\ Runs(g, "acknowledge")
    /\ steer' = [t \in Turns |-> IF t = turn THEN 0 ELSE steer[t]]
    /\ cutoff' = [cutoff EXCEPT ![g] = 0]
    /\ Goto(g, "provider")
    /\ UNCHANGED <<session, status, wake, cancelled, completed, releaseQuota,
                   store, op, arg, state, quota, result, permits, history>>

\* ... the acknowledgement of the steer signal, ...
AcknowledgeSteers(g) ==
    /\ Runs(g, "acknowledge")
    /\ steer' = [t \in Turns |->
                   IF t = turn /\ steer[t] <= cutoff[g] THEN 0 ELSE steer[t]]
    /\ cutoff' = [cutoff EXCEPT ![g] = 0]
    /\ Goto(g, "provider")
    /\ UNCHANGED <<session, status, wake, cancelled, completed, releaseQuota,
                   store, op, arg, state, quota, result, permits, history>>

\* ... and the provider turn with its tools, after which the drain goes on or
\* has nothing left to do.
Provider(g) ==
    /\ Runs(g, "provider")
    /\ \/ Goto(g, "cutoff") /\ UNCHANGED result
       \/ Goto(g, "drained") /\ result' = [result EXCEPT ![g] = "succeeded"]
    /\ UNCHANGED <<session, turns, store, op, arg, state, quota, cutoff,
                   permits, history>>

DrainFails(g) ==
    /\ pc[g] \in Draining
    /\ Fails(g, "drained")
    /\ UNCHANGED store

\* A queue notification or the goal continues a drain that succeeded, or its
\* preparation fails.
Continue(g) ==
    /\ Runs(g, "drained")
    /\ result[g] = "succeeded" /\ ~cancelled[state[g]]
    /\ \/ /\ Goto(g, "cutoff")
          /\ UNCHANGED <<session, turns, op, locals, permits, history>>
       \/ Fails(g, "drained")
    /\ UNCHANGED store

\* The final wake check of runTurn; a turn that drained may still fail, when it
\* has no final message or its mode rejects the end.
WakeCheck(g) ==
    LET t == state[g] IN
    /\ Runs(g, "drained")
    /\ \/ /\ wake[t] /\ ~cancelled[t]
          /\ wake' = [wake EXCEPT ![t] = FALSE]
          /\ Goto(g, "cutoff")
          /\ result' = [result EXCEPT ![g] = "succeeded"]
       \/ /\ ~wake[t] \/ cancelled[t]
          /\ Goto(g, "finish")
          /\ \E r \in {result[g], "failed"} :
               /\ r = "failed" => result[g] # "canceled"
               /\ result' = [result EXCEPT ![g] = r]
          /\ UNCHANGED wake
    /\ UNCHANGED <<session, status, cancelled, completed, releaseQuota, steer,
                   store, op, arg, state, quota, cutoff, permits, history>>

\* finishTurn, first critical section: the outcome is fixed, the permits go
\* back, and the turn stays active (interrupting) until the event is out.
Finish(g) ==
    LET t == state[g] IN
    /\ Runs(g, "finish")
    /\ result' = [result EXCEPT ![g] =
                    IF @ = "canceled" /\ status[t] # "interrupting"
                    THEN "failed" ELSE @]
    /\ cancelled' = [cancelled EXCEPT ![t] = TRUE]
    /\ status' = [status EXCEPT ![t] = "interrupting"]
    /\ permits' = IF releaseQuota[t] THEN permits - 1 ELSE permits
    /\ releaseQuota' = [releaseQuota EXCEPT ![t] = FALSE]
    /\ Goto(g, "publish")
    /\ UNCHANGED <<session, wake, completed, steer, store, op, arg, state,
                   quota, cutoff, history>>

\* Second critical section, after TurnFinished is published.
Publish(g) ==
    /\ Runs(g, "publish")
    /\ status' = [status EXCEPT ![state[g]] = result[g]]
    /\ Goto(g, "complete")
    /\ UNCHANGED <<session, wake, cancelled, completed, releaseQuota, steer,
                   store, op, locals, permits, history>>

Complete(g) ==
    /\ Runs(g, "complete")
    /\ completed' = [completed EXCEPT ![state[g]] = TRUE]
    /\ Goto(g, "restart")
    /\ UNCHANGED <<session, status, wake, cancelled, releaseQuota, steer,
                   store, op, locals, permits, history>>

\* Third critical section: a wake that came after the final check is honoured
\* by a new turn.
Restart(g) ==
    /\ Runs(g, "restart")
    /\ IF wake[state[g]] /\ ~shuttingDown /\ ~removed
       THEN Goto(g, "emptyLock") /\ UNCHANGED <<op, locals>>
       ELSE Return(g)
    /\ UNCHANGED <<session, turns, store, permits, history>>

-----------------------------------------------------------------------------

Starting == \E k \in Creators : op[k] = "create"

Call(c) ==
    \/ /\ EarlySends \/ ~Starting
       /\ \/ \E m \in Messages : Send(c, m)
          \/ \E o \in {"wake", "resume"} : CallEmpty(c, o)
    \/ Interrupt(c) \/ Shutdown(c) \/ Remove(c)

\* The caller side of a call that is under way.
CallStep(p) ==
    \/ \E o \in AdmitOutcomes :
         p \in Callers /\ (SendJoin(p, o) \/ SendRefused(p, o))
    \/ p \in Callers /\ (SendLock(p) \/ SendRetry(p) \/ SendAgain(p)
                          \/ Register(p) \/ WaitDone(p))
    \/ \E t \in Turns : (p \in Callers /\ SendCreate(p, t)) \/ EmptyCreate(p, t)
    \/ \E a \in QuotaAnswers : Quota(p, a)
    \/ EmptyLock(p) \/ EmptyAgain(p) \/ Start(p)

RunnerStep(g) ==
    \/ PermitGranted(g) \/ PermitFails(g) \/ Run(g) \/ RunEnds(g)
    \/ ReadCutoff(g) \/ PromoteSteers(g) \/ AcknowledgeSteers(g)
    \/ Provider(g) \/ DrainFails(g) \/ Continue(g) \/ WakeCheck(g)
    \/ Finish(g) \/ Publish(g) \/ Complete(g) \/ Restart(g)

Next ==
    \/ \E c \in Callers \ Creators : Call(c)
    \/ \E c \in Callers : CallerGivesUp(c)
    \/ \E p \in Procs : CallStep(p) \/ RunnerStep(p)

Spec == Init /\ [][Next]_vars

\* Goroutines and calls are scheduled, and provider turns, tools and store calls
\* end.  A permit may never come, except that waiting for it ends with the turn.
Fairness ==
    \A p \in Procs :
      /\ WF_vars(CallStep(p))
      /\ WF_vars(RunnerStep(p) /\ (pc[p] = "permit" => cancelled[state[p]]))

FairSpec == Spec /\ Fairness

-----------------------------------------------------------------------------
(* Properties.                                                             *)

\* At most one goroutine drains the session (docs/architecture.md, principle 2;
\* startTurn, runTurn).
AtMostOneDrain ==
    \A g, h \in Procs : pc[g] \in Draining /\ pc[h] \in Draining => g = h

\* What drains is the session's own turn and still active, so that every Send,
\* Interrupt and Shutdown finds it through s.turn (agentSession.turn).
DrainIsCurrent ==
    \A g \in Procs :
      pc[g] \in Draining => state[g] = turn /\ status[turn] \in Active

\* No goroutine is left that could still serve a prompt.
Quiescent ==
    \A p \in Procs : op[p] # "turn" /\ pc[p] \notin {"register", "start"}

\* A prompt that Send admitted is promoted before the session comes to rest,
\* wherever in the turn's end it arrived, unless the turn failed, or somebody
\* interrupted, shut down or removed the session (the wake flag of
\* admitAndStart, the final check of runTurn, the restart in finishTurn).
NoStrandedPrompt ==
    Quiescent /\ ~shuttingDown /\ ~removed =>
        \A m \in Pending : reply[m] # "created"

\* As NoStrandedPrompt, for every Send that succeeded, including one that finds
\* its message already admitted.
SendWakes ==
    Quiescent /\ ~shuttingDown /\ ~removed => \A m \in Pending : reply[m] = "none"

\* The steer signal that cuts a tool short is cleared only by a drain that has
\* promoted every prompt the signal stands for (acknowledgeSteers).
SignalOutlivesPrompts ==
    [][\A t \in Turns :
         steer[t] # 0 /\ steer'[t] = 0 /\ completed'[t] = completed[t] =>
           \A m \in Messages : admitted[m] \in 1..steer[t] => m \in promoted]_vars

\* No admitted prompt is overlooked, by the session or by the tool it cuts short.
PromptsAreSeen == []NoStrandedPrompt /\ SignalOutlivesPrompts

\* Once Shutdown has returned nothing drains and no turn is active or starts.
StoppedIsQuiet ==
    stopped => ~Busy /\ \A p \in Procs : pc[p] \notin Draining

\* Every permit is with a call that is about to decide on its turn, or with a
\* turn that is not complete: no early return or race loses one or returns one
\* twice.
NoPermitLeak ==
    /\ permits = Cardinality({p \in Procs : quota[p] = "granted"})
                   + Cardinality({t \in Turns : releaseQuota[t]})
    /\ \A t \in Turns : completed[t] => ~releaseQuota[t]

\* A session that stops leaves nothing behind.
StopsAreClean == StoppedIsQuiet /\ NoPermitLeak

\* Interrupt and Shutdown return: the turn they stop completes, whatever it was
\* doing, and whether its goroutine had started or not.
StopReturns ==
    \A c \in Callers :
      pc[c] = "wait" /\ op[c] \in {"interrupt", "shutdown"} ~> pc[c] = "idle"

\* A Send that meets an ending turn is not left waiting for it.
SendGoesOn ==
    \A c \in Callers :
      pc[c] = "sendWait" /\ status[state[c]] = "interrupting" ~> pc[c] # "sendWait"

\* A prompt that Send admitted is promoted, unless it was excused or the turn
\* that restarts for it has to wait for a permit.
PromptIsTaken ==
    \A m \in Messages :
      reply[m] = "created" ~>
        \/ m \in promoted
        \/ reply[m] # "created" \/ shuttingDown \/ removed
        \/ Busy /\ status[turn] = "blocked"

\* Nobody who calls or sends waits for ever.
TurnsMoveOn == StopReturns /\ SendGoesOn /\ PromptIsTaken
=============================================================================
