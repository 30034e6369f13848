------------------------------ MODULE ChatInput ------------------------------
(***************************************************************************)
(* What the user enters in the enhanced chat: prompts, which steer a turn   *)
(* that is at work and are pending until it takes them, interrupts, new     *)
(* sessions, and compactions, whose answer races the events of the attempt. *)
(* One loop handles keys, events and ticks; a request to the server is made *)
(* within a step of it.  The event stream, of durable events and live       *)
(* statuses, may end and is connected again.                                *)
(***************************************************************************)
EXTENDS Naturals, Sequences, SequencesExt, FiniteSets

CONSTANTS
    Tasks,       \* what there is to do: numbers of prompts and compaction attempts, and
                 \* inputs that others queue
    MaxTurns,    \* bound on turns
    MaxFailures  \* bound on streams that end

VARIABLES
    task,        \* one of them
    turn,        \* the session's turn is at work
    turns,
    inbox,       \* inputs it has not taken
    log,         \* its durable events
    live,        \* statuses on their way
    attempt,     \* compaction at work, or 0
    ended,       \* attempts that have ended
    here,        \* the first prompt of the session
    entered,     \* prompts sent
    busy, idleSeen, presses, stream, after,
    pending,     \* inputs shown as pending
    shown,       \* inputs committed to the transcript
    calling,     \* a compaction was requested
    serves,      \* the attempt that serves it, or 0
    buffer,      \* its events so far
    tombstones,  \* attempts that were settled by their answer
    rows,        \* compaction rows: running attempts
    reported,    \* attempts reported, in their order
    failures

server == <<turn, turns, inbox, log, live, attempt, ended>>
input == <<here, entered, pending, shown>>
loop == <<busy, idleSeen, presses>>
wire == <<stream, after, failures>>
compaction == <<calling, serves, buffer, tombstones, rows, reported>>
vars == <<task, server, input, loop, wire, compaction>>

Inputs == 1..task.prompts \cup task.notices
E(kind, of) == [kind |-> kind, of |-> of]

Init ==
    /\ task \in Tasks
    /\ turn = FALSE /\ turns = 0 /\ inbox = << >> /\ log = << >> /\ live = << >>
    /\ attempt = 0 /\ ended = 0 /\ here = 1 /\ entered = 0
    /\ busy = FALSE /\ idleSeen = FALSE /\ presses = 0 /\ stream = FALSE /\ after = 0
    /\ pending = << >> /\ shown = << >>
    /\ calling = FALSE /\ serves = 0 /\ buffer = << >> /\ tombstones = {} /\ rows = {} /\ reported = << >>
    /\ failures = 0

Without(list, x) == SelectSeq(list, LAMBDA y : y # x)
Idle == busy' = FALSE /\ idleSeen' = FALSE /\ presses' = 0

-----------------------------------------------------------------------------
(* The session.                                                            *)

\* A status reaches a chat that is connected.
Status(kind) == live' = IF stream' THEN Append(live, kind) ELSE live

Admit(x, kind) ==
    /\ inbox' = Append(inbox, x) /\ log' = Append(log, E(kind, x))
    /\ turn' = TRUE /\ turns' = IF turn THEN turns ELSE turns + 1
    /\ IF turn THEN UNCHANGED live ELSE Status("running")
    /\ UNCHANGED <<attempt, ended>>

\* A notice is admitted as queued input.
Notify ==
    /\ turns < MaxTurns
    /\ \E x \in task.notices :
        /\ \A i \in DOMAIN log : log[i].of # x
        /\ x \notin Range(shown) \cup Range(pending) /\ UNCHANGED wire /\ Admit(x, "queued")
    /\ UNCHANGED <<input, loop, compaction>>

Promote ==
    /\ turn /\ inbox # << >>
    /\ log' = Append(log, E("promoted", Head(inbox))) /\ inbox' = Tail(inbox)
    /\ UNCHANGED <<turn, turns, live, attempt, ended, input, loop, wire, compaction>>

\* A turn that was interrupted or failed leaves what it has not taken.
EndTurn ==
    /\ turn /\ turn' = FALSE /\ UNCHANGED <<stream, after, failures>>
    /\ \/ inbox = << >> /\ Status("idle")
       \/ \E kind \in {"interrupted", "error"} : Status(kind)
    /\ UNCHANGED <<turns, inbox, log, attempt, ended, input, loop, compaction>>

\* Compactions start on the session's own account, or serve the request.
StartAttempt ==
    /\ attempt = 0 /\ ended < task.attempts /\ attempt' = ended + 1
    /\ log' = Append(log, E("started", ended + 1))
    /\ \/ UNCHANGED serves
       \/ calling /\ serves = 0 /\ serves' = ended + 1
    /\ UNCHANGED <<turn, turns, inbox, live, ended, input, loop, wire, calling, buffer, tombstones, rows, reported>>

EndAttempt ==
    /\ attempt > 0 /\ attempt' = 0 /\ ended' = attempt
    /\ log' = Append(log, E("finished", attempt))
    /\ UNCHANGED <<turn, turns, inbox, live, input, loop, wire, compaction>>

-----------------------------------------------------------------------------
(* The stream.                                                             *)

\* reconcileRuntime: the chat is busy while the session's turn is
Reconcile == IF busy /\ ~turn THEN Idle ELSE UNCHANGED loop

\* ensureStream: durable events go on behind the last one that was handled
Connect == stream' = TRUE /\ UNCHANGED <<after, failures>>
StreamEnds ==
    /\ stream /\ failures < MaxFailures /\ failures' = failures + 1
    /\ stream' = FALSE /\ live' = << >> /\ UNCHANGED after
    /\ UNCHANGED <<turn, turns, inbox, log, attempt, ended, input, loop, compaction>>

Tick ==
    /\ busy
    /\ IF stream THEN UNCHANGED wire ELSE Connect \/ UNCHANGED wire
    /\ IF stream' THEN Reconcile ELSE UNCHANGED loop
    /\ UNCHANGED <<server, input, compaction>>

-----------------------------------------------------------------------------
(* Prompts.                                                                *)

\* addPending, promotePending
AddPending(x) == pending' = IF x \in Range(pending) THEN pending ELSE Append(pending, x)
PromotePending(x) ==
    IF x \in Range(pending)
    THEN pending' = Without(pending, x) /\ shown' = Append(shown, x)
    ELSE UNCHANGED <<pending, shown>>

\* While the session is busy a prompt steers it.  Otherwise the stream comes
\* first, and what was sent is shown at once.  A prompt that was not sent stays
\* in the editor.
Submit ==
    /\ entered < task.prompts /\ (turn \/ turns < MaxTurns) /\ entered' = entered + 1
    /\ IF busy
       THEN /\ UNCHANGED <<wire, loop>> /\ AddPending(entered + 1) /\ UNCHANGED shown
       ELSE /\ Connect /\ busy' = TRUE /\ presses' = 0 /\ UNCHANGED idleSeen
            /\ shown' = Append(shown, entered + 1) /\ UNCHANGED pending
    /\ Admit(entered + 1, "admitted")
    /\ UNCHANGED <<here, compaction>>

SubmitFails ==
    /\ entered < task.prompts /\ ~busy /\ ~stream /\ Connect
    /\ UNCHANGED <<server, input, loop, compaction>>

\* A second one ends the chat.
Interrupt ==
    /\ busy /\ presses = 0 /\ presses' = 1
    /\ UNCHANGED <<server, input, busy, idleSeen, wire, compaction>>

\* Unavailable while the agent is working.  The session left behind goes on
\* unseen; what was pending in it stays pending.
New ==
    /\ ~busy /\ entered < task.prompts /\ entered >= here /\ ~calling /\ attempt = 0
    /\ here' = entered + 1 /\ stream' = FALSE /\ after' = 0
    /\ turn' = FALSE /\ inbox' = << >> /\ log' = << >> /\ live' = << >>
    /\ rows' = {}
    /\ UNCHANGED <<turns, attempt, ended, entered, pending, shown, loop, failures, calling, serves, buffer, tombstones, reported>>

-----------------------------------------------------------------------------
(* Events.                                                                 *)

SettleIdle(seen) ==
    IF seen /\ pending' = << >> THEN Idle ELSE idleSeen' = seen /\ UNCHANGED <<busy, presses>>

\* What a compaction event shows: a row, or its end.
Row(event, running) == IF event.kind = "started" THEN running \cup {event.of} ELSE running \ {event.of}
Ends(events) == SelectSeq(events, LAMBDA e : e.kind = "finished")
Told(events) == [i \in DOMAIN Ends(events) |-> Ends(events)[i].of]

\* handleCompactionLifecycleEvent: settled attempts come first
CompactionEvent_Captured(event) ==
    /\ UNCHANGED <<loop, pending, shown, calling, serves, tombstones>>
    /\ IF calling THEN buffer' = Append(buffer, event) /\ UNCHANGED <<rows, reported>>
       ELSE IF event.of \in tombstones THEN UNCHANGED <<buffer, rows, reported>>
       ELSE /\ rows' = Row(event, rows) /\ reported' = reported \o Told(<<event>>) /\ UNCHANGED buffer
CompactionEvent(event) ==
    /\ UNCHANGED <<loop, pending, shown, calling, serves, tombstones>>
    /\ IF event.of \in tombstones THEN UNCHANGED <<buffer, rows, reported>>
       ELSE IF calling THEN buffer' = Append(buffer, event) /\ UNCHANGED <<rows, reported>>
       ELSE /\ rows' = Row(event, rows) /\ reported' = reported \o Told(<<event>>) /\ UNCHANGED buffer

HandleDurable ==
    /\ stream /\ after < Len(log) /\ after' = after + 1
    /\ LET event == log[after + 1] IN
       IF event.kind \in {"started", "finished"} THEN CompactionEvent(event)
       ELSE /\ CASE event.kind = "queued" -> AddPending(event.of) /\ UNCHANGED shown
                 [] event.kind = "promoted" -> PromotePending(event.of)
                 [] OTHER -> UNCHANGED <<pending, shown>>
            /\ SettleIdle(idleSeen) /\ UNCHANGED compaction
    /\ UNCHANGED <<server, here, entered, stream, failures>>

HandleLive ==
    /\ stream /\ live # << >> /\ live' = Tail(live)
    /\ UNCHANGED pending
    /\ CASE Head(live) = "running" -> busy' = TRUE /\ idleSeen' = FALSE /\ UNCHANGED presses
         [] Head(live) = "idle" -> SettleIdle(TRUE)
         [] OTHER -> Idle
    /\ UNCHANGED <<turn, turns, inbox, log, attempt, ended, here, entered, shown, wire, compaction>>

-----------------------------------------------------------------------------
(* Compactions.                                                            *)

StartCompaction ==
    /\ ~calling /\ entered >= here /\ ended + (IF attempt > 0 THEN 1 ELSE 0) < task.attempts
    /\ calling' = TRUE /\ buffer' = << >> /\ serves' = 0
    /\ UNCHANGED <<server, input, loop, wire, tombstones, rows, reported>>

\* settleCompaction: its answer is authoritative for its own attempt, whose
\* events are dropped; those of others were held back and are replayed first.
Settle(own) ==
    LET events == SelectSeq(buffer, LAMBDA e : e.of \notin own) IN
    /\ calling' = FALSE /\ serves' = 0 /\ buffer' = << >> /\ tombstones' = tombstones \cup own
    /\ rows' = FoldLeft(LAMBDA running, event : Row(event, running), rows, events)
    /\ reported' = reported \o Told(events) \o SetToSeq(own)
    /\ UNCHANGED <<server, input, loop, wire>>

Answer == calling /\ serves \in 1..ended /\ Settle({serves})

\* The request fails, and its attempt, if any, is not known to the chat.
AnswerFails == calling /\ Settle({})

Next == UNCHANGED task /\
    \/ Notify \/ Promote \/ EndTurn \/ StartAttempt \/ EndAttempt \/ StreamEnds \/ Tick
    \/ Submit \/ SubmitFails \/ Interrupt \/ New \/ HandleDurable \/ HandleLive
    \/ StartCompaction \/ Answer \/ AnswerFails

Spec == Init /\ [][Next]_vars

-----------------------------------------------------------------------------
TypeOK ==
    /\ inbox \in Seq(Inputs) /\ pending \in Seq(Inputs) /\ shown \in Seq(Inputs)
    /\ after \in 0..Len(log) /\ presses \in 0..1 /\ tombstones \subseteq 1..task.attempts

Once(list) == \A i, j \in DOMAIN list : i # j => list[i] # list[j]
Mine == {x \in Inputs : x \in task.notices \/ x >= here}
Handled(kind) == {log[i].of : i \in {j \in 1..after : log[j].kind = kind}}

\* Every input is in one place, once, and where the events say.
InputsTracked ==
    /\ Once(shown \o pending)
    /\ Handled("promoted") \subseteq Range(shown)
    /\ Handled("promoted") \cap Range(pending) = {}
    /\ Handled("queued") \cup here..entered \subseteq Range(shown \o pending)

\* When all is handled and nothing was missed the chat is not busy any more
\* (it was left in a session where something is pending otherwise).
IdleSettles ==
    stream /\ failures = 0 /\ ~turn /\ live = << >> /\ after = Len(log) /\ inbox = << >>
        => ~busy \/ pending # << >>

\* An attempt that is over was reported once, by its answer or by its events.
AttemptsReported ==
    /\ Once(reported)
    /\ ~calling => Handled("finished") \subseteq Range(reported) /\ rows \cap Range(reported) = {}

\* What was entered is pending or in the transcript, once, as the session took it,
\* and a compaction is reported once, whatever comes first: the answer to a request
\* or its events (addPending, promotePending, settleIdle, settleCompaction).
InputIsTracked == TypeOK /\ InputsTracked /\ IdleSettles /\ AttemptsReported
=============================================================================
