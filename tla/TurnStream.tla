----------------------------- MODULE TurnStream -----------------------------
(***************************************************************************)
(* The line client, `parrot run` and the plain chat: it subscribes to the  *)
(* events of a session, submits a prompt, watches until the session says   *)
(* that it is idle, answers the permission requests of the turn on the     *)
(* way, and prints the assistant messages that are new.  The session also  *)
(* has turns of its own, for notices of processes.                         *)
(***************************************************************************)
EXTENDS Naturals, Sequences

CONSTANTS
    Capacity,   \* events a subscription holds before it is closed
    MaxNotices, \* bound on the notices
    MaxAsks     \* bound on the permission requests

VARIABLES
    turn,       \* "none", "running", "canceled", or "over": not yet announced
    pending,    \* admitted inputs: "prompt", and "notice"
    serves,     \* inputs the turn has promoted
    answered,   \* inputs with an assistant message
    outcome,    \* what the turn that is over will announce
    notices,    \* notices so far
    permission, \* a permission request waits: its number, or 0
    asks,       \* permission requests so far
    stream,     \* events the client has not received
    connected,  \* the subscription: "no", "yes", "closed"
    pc,         \* the client: its place in streamTurn
    before,     \* inputs answered before the prompt
    asked,      \* the request the user is deciding
    failed,     \* statusError
    interrupts, \* interruptCount
    halting,    \* calls of Interrupt that have not reached the session
    late,       \* a turn of the session was under way at the submission
    result      \* "none", or what streamTurn returned
    
session == <<turn, pending, serves, answered, outcome, notices, permission, asks>>
client == <<pc, before, asked, failed, interrupts, halting, late, result>>
vars == <<session, stream, connected, client>>

Init ==
    /\ turn = "none" /\ pending = {} /\ serves = {} /\ answered = {} /\ outcome = "idle"
    /\ notices = 0 /\ permission = 0 /\ asks = 0 /\ stream = << >> /\ connected = "no"
    /\ pc = "connect" /\ before = {} /\ asked = 0 /\ failed = FALSE
    /\ interrupts = 0 /\ halting = 0 /\ late = FALSE /\ result = "none"

-----------------------------------------------------------------------------
(* The session.                                                            *)

\* A subscription that is full is closed.
Publish(kind) ==
    IF connected # "yes" THEN UNCHANGED <<stream, connected>>
    ELSE IF Len(stream) < Capacity THEN stream' = Append(stream, kind) /\ UNCHANGED connected
    ELSE connected' = "closed" /\ UNCHANGED stream

Notice ==
    /\ notices < MaxNotices /\ notices' = notices + 1 /\ pending' = pending \cup {"notice"}
    /\ UNCHANGED <<turn, serves, answered, outcome, permission, asks, stream, connected, client>>

StartTurn ==
    /\ turn = "none" /\ pending # {} /\ turn' = "running" /\ serves' = {}
    /\ Publish("running")
    /\ UNCHANGED <<pending, answered, outcome, notices, permission, asks, client>>

Promote ==
    /\ turn = "running" /\ pending # {} /\ permission = 0
    /\ serves' = serves \cup pending /\ pending' = {}
    /\ UNCHANGED <<turn, answered, outcome, notices, permission, asks, stream, connected, client>>

\* The turn's assistant message, as one event of its text.
Reply ==
    /\ turn = "running" /\ permission = 0 /\ ~(serves \subseteq answered)
    /\ answered' = answered \cup serves /\ Publish("text")
    /\ UNCHANGED <<turn, pending, serves, outcome, notices, permission, asks, client>>

Ask ==
    /\ turn = "running" /\ permission = 0 /\ asks < MaxAsks /\ ~(serves \subseteq answered)
    /\ asks' = asks + 1 /\ permission' = asks + 1 /\ Publish("text")
    /\ UNCHANGED <<turn, pending, serves, answered, outcome, notices, client>>

\* The turn ends with everything it promoted answered, or fails, or is stopped.
\* What is admitted from here on is for the next turn.  A cancellation that
\* reaches finishTurn inside another error is announced as that error.
EndTurn ==
    /\ turn' = "over" /\ permission' = 0
    /\ \/ turn = "running" /\ permission = 0 /\ pending = {} /\ serves \subseteq answered
          /\ outcome' = "idle"
       \/ turn = "running" /\ permission = 0 /\ outcome' = "error"
       \/ turn = "canceled" /\ outcome' \in {"interrupted", "error"}
    /\ UNCHANGED <<pending, serves, answered, notices, asks, stream, connected, client>>

\* statusReporter.LifecycleComplete
Announce ==
    /\ turn = "over" /\ turn' = "none" /\ Publish(outcome)
    /\ UNCHANGED <<pending, serves, answered, outcome, notices, permission, asks, client>>

-----------------------------------------------------------------------------
(* The client.                                                             *)

Return(what) == result' = what /\ pc' = "done"

\* The subscription starts with the events to come.
Connect ==
    /\ pc = "connect"
    /\ \/ connected' = "yes" /\ pc' = "before" /\ UNCHANGED result
       \/ Return("error") /\ UNCHANGED connected
    /\ UNCHANGED <<session, stream, before, asked, failed, interrupts, halting, late>>

Baseline_Late == {"notice", "prompt"}
Baseline == answered

ReadBefore ==
    /\ pc = "before" /\ before' = Baseline /\ pc' = "submit"
    /\ UNCHANGED <<session, stream, connected, asked, failed, interrupts, halting, late, result>>

Submit ==
    /\ pc = "submit"
    /\ \/ /\ pending' = pending \cup {"prompt"} /\ pc' = "watch"
          /\ late' = (turn # "none" \/ stream # << >> \/ pending # {})
          /\ UNCHANGED result
       \/ Return("error") /\ UNCHANGED <<pending, late>>
    /\ UNCHANGED <<turn, serves, answered, outcome, notices, permission, asks, stream, connected,
                   before, asked, failed, interrupts, halting>>

\* The watch ends with the status idle or error, whosever turn it is about.
Ends == {"idle", "error"}

Receive ==
    /\ pc = "watch" /\ stream # << >>
    /\ stream' = Tail(stream)
    /\ failed' = (failed \/ Head(stream) = "error")
    /\ pc' = IF Head(stream) \in Ends THEN "messages" ELSE "watch"
    /\ UNCHANGED <<session, connected, before, asked, interrupts, halting, late, result>>

Dropped ==
    /\ pc = "watch" /\ connected = "closed" /\ stream = << >> /\ Return("error")
    /\ UNCHANGED <<session, stream, connected, before, asked, failed, interrupts, halting, late>>

\* Each tick lists the requests; the events wait while the user decides.
Tick ==
    /\ pc = "watch" /\ permission # 0 /\ asked' = permission /\ pc' = "decide"
    /\ UNCHANGED <<session, stream, connected, before, failed, interrupts, halting, late, result>>

\* A reply to a request that is over is an error, and ends the watch.
Decide ==
    /\ pc = "decide" /\ asked' = 0
    /\ IF permission = asked THEN permission' = 0 /\ pc' = "watch" /\ UNCHANGED result
       ELSE Return("error") /\ UNCHANGED permission
    /\ UNCHANGED <<turn, pending, serves, answered, outcome, notices, asks, stream, connected,
                   before, failed, interrupts, halting, late>>

\* The first interrupt asks the session to stop; the second one gives up.
InterruptKey ==
    /\ pc \in {"watch", "decide"} /\ interrupts' = interrupts + 1 /\ asked' = 0
    /\ IF interrupts = 0 THEN halting' = 1 /\ pc' = "watch" /\ UNCHANGED result
       ELSE Return("halted") /\ UNCHANGED halting
    /\ UNCHANGED <<session, stream, connected, before, failed, late>>

Interrupt ==
    /\ halting = 1 /\ halting' = 0
    /\ turn' = IF turn = "running" THEN "canceled" ELSE turn
    /\ permission' = IF turn = "running" THEN 0 ELSE permission
    /\ UNCHANGED <<pending, serves, answered, outcome, notices, asks, stream, connected, pc,
                   before, asked, failed, interrupts, late, result>>

\* finishStream prints the assistant messages that were not there before.
Finish ==
    /\ pc = "messages"
    /\ \/ Return(IF failed /\ interrupts = 0 THEN "failed"
                 ELSE IF "prompt" \in answered \ before THEN "answer" ELSE "empty")
       \/ Return("error")
    /\ UNCHANGED <<session, stream, connected, before, asked, failed, interrupts, halting, late>>

Next ==
    \/ Notice \/ StartTurn \/ Promote \/ Reply \/ Ask \/ EndTurn \/ Announce
    \/ Connect \/ ReadBefore \/ Submit \/ Receive \/ Dropped \/ Tick \/ Decide
    \/ InterruptKey \/ Interrupt \/ Finish

Spec == Init /\ [][Next]_vars

\* The session and the client keep going; users and processes need not.
Fairness ==
    /\ WF_vars(StartTurn) /\ WF_vars(Promote) /\ WF_vars(Reply) /\ WF_vars(EndTurn)
    /\ WF_vars(Announce) /\ WF_vars(Connect) /\ WF_vars(ReadBefore) /\ WF_vars(Submit)
    /\ WF_vars(Receive) /\ WF_vars(Dropped) /\ WF_vars(Tick) /\ WF_vars(Decide)
    /\ WF_vars(Interrupt) /\ WF_vars(Finish)

FairSpec == Spec /\ Fairness

-----------------------------------------------------------------------------
TypeOK ==
    /\ turn \in {"none", "running", "canceled", "over"}
    /\ pending \subseteq {"prompt", "notice"} /\ serves \subseteq {"prompt", "notice"}
    /\ Len(stream) <= Capacity /\ interrupts \in 0..2 /\ permission \in 0..MaxAsks
    /\ (result # "none") = (pc = "done")

\* A client that was not interrupted and did not fail prints the answer to its
\* prompt; an empty answer is that of a turn which was under way already
\* (streamTurn, finishStream).
PromptIsAnswered == result = "empty" => late \/ interrupts > 0

\* "The first Ctrl-C requests cancellation and remains in the session": once the
\* session has stopped, the client is back at its prompt.
HaltReturns == interrupts = 1 ~> result # "none"
=============================================================================
