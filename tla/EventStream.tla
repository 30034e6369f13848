----------------------------- MODULE EventStream ----------------------------
(* How the events of a session reach a client: event/repository.go appends     *)
(* durable events and hands them to subscriptions, event/transient_repository  *)
(* publishes live events that are never stored, event/broker.go joins the two  *)
(* for one connection, the events handler of httpapi/server.go writes both to  *)
(* the wire, and the enhanced chat reads it, reconnects behind the last        *)
(* durable event it handled, and shows assistant messages as they grow.        *)
(*                                                                             *)
(* One turn of the session writes the assistant messages 1..n.  Each is *)
(* started and settled by a durable event; its text arrives between the two as *)
(* numbered live deltas.  Meanwhile prompts are admitted, which appends        *)
(* durable events too.  A durable event's sequence is its place in the log.    *)
EXTENDS Integers, Sequences, SequencesExt, FiniteSets

CONSTANT Sizes      \* the turns and connections to look at, see Size

Size == [messages : Nat,        \* assistant messages of the turn
         deltas : Nat,          \* text deltas of one message
         outputs : Nat,         \* live tool output deltas of one message
         prompts : Nat,         \* prompts admitted while the turn runs
         durable : Nat,         \* a durable subscription's buffer
         live : Nat,            \* a live subscription's buffer
         losses : Nat,          \* connections that break
         liveOnly : BOOLEAN]    \* the client asks for what follows the largest integer

ASSUME SizesAssumption == Sizes \subseteq Size

None == 0
Turn == "turn"
Prompt == "prompt"

VARIABLES
    size,           \* which of them it is
    log,            \* the session's durable events
    lock,           \* who holds the session's commit lock, or "free"
    script,         \* [message, step] the turn is at, and whether it is "over"
    prompts,        \* prompts to be admitted, and admitted ones to be announced
    sub,            \* the connection's durable subscription
    live,           \* the connection's live subscription
    evicted,        \* what a publisher took out of a full live buffer, or <<>>
    server,         \* the connection's handler
    wire,           \* events written and not read
    losses,
    client

vars == <<size, log, lock, script, prompts, sub, live, evicted, server, wire, losses, client>>

Ids == 1..size.messages

(* An event: a durable one has its sequence once it is in the log, a delta its *)
(* number within its message.                                                  *)
Event(kind, m) == [kind |-> kind, message |-> m, number |-> 0, sequence |-> 0]
Started(m) == Event("started", m)
Settled(m) == Event("settled", m)
Admitted == Event("admitted", None)
Delta(m, k) == [Event("delta", m) EXCEPT !.number = k]
Output == Event("output", None)
Status(s) == Event(s, None)

(* What the messages API answers: settled messages, and started ones. *)
InLog(kind) == { m \in Ids : \E i \in DOMAIN log : log[i] = Event(kind, m) }
SettledIds == InLog("settled")
ActiveIds == InLog("started") \ SettledIds

NoSub == [open |-> FALSE, queue |-> <<>>, after |-> 0, hand |-> 0, since |-> 0, got |-> 0]
NoLive == [open |-> FALSE, queue |-> <<>>]
NoServer == [place |-> "none", replay |-> <<>>, active |-> None, known |-> FALSE,
             deferred |-> <<>>]

Init ==
    /\ size \in Sizes
    /\ log = <<>> /\ lock = "free"
    /\ script = [message |-> 1, step |-> "start", number |-> 1]
    /\ prompts = [left |-> size.prompts, admitted |-> 0]
    /\ sub = NoSub /\ live = NoLive /\ evicted = <<>>
    /\ server = NoServer /\ wire = <<>> /\ losses = 0
    /\ client = [place |-> "closed", new |-> TRUE, after |-> 0, snapshot |-> {},
                 known |-> {}, unsynced |-> {}, stream |-> None, streamed |-> <<>>,
                 busy |-> TRUE, idleSeen |-> FALSE, shown |-> <<>>]

-----------------------------------------------------------------------------
(* Durable events: AppendBuilt commits under the session's commit lock and     *)
(* publishes before it releases it.                                            *)

Commit(who, event) ==
    /\ lock = "free"
    /\ lock' = who
    /\ log' = Append(log, event)

(* publishLocked: events the subscription has had already are passed over, and *)
(* a full subscription is closed.                                              *)
Offer(s, number) ==
    IF ~s.open \/ number <= s.after THEN s
    ELSE IF Len(s.queue) < size.durable
         THEN [s EXCEPT !.queue = Append(@, number), !.after = number, !.got = @ + 1]
         ELSE [s EXCEPT !.open = FALSE]

Publish(who) ==
    /\ lock = who
    /\ lock' = "free"
    /\ sub' = Offer(sub, Len(log))

AdmitPrompt ==
    /\ prompts.left > 0 /\ script.step # "over"
    /\ Commit(Prompt, Admitted)
    /\ prompts' = [prompts EXCEPT !.left = @ - 1]
    /\ UNCHANGED <<size, script, sub, live, evicted, server, wire, losses, client>>

PublishPrompt ==
    /\ Publish(Prompt)
    /\ prompts' = [prompts EXCEPT !.admitted = @ + 1]
    /\ UNCHANGED <<size, log, script, live, evicted, server, wire, losses, client>>

-----------------------------------------------------------------------------
(* Live events: publish never waits.  A full buffer drops tool output, gives   *)
(* up a tool output it holds for another event, or is closed.                  *)

Disposable(q) == { i \in DOMAIN q : q[i] = Output }

OfferLive(event) ==
    /\ evicted = <<>>
    /\ IF ~live.open \/ (Len(live.queue) = size.live /\ event = Output)
       THEN UNCHANGED <<size, live, evicted>>
       ELSE IF Len(live.queue) < size.live
       THEN live' = [live EXCEPT !.queue = Append(@, event)] /\ UNCHANGED evicted
       ELSE evicted' = <<event>> /\ UNCHANGED live

(* evictDisposableToolOutput empties the buffer one event at a time, while the *)
(* handler may go on reading it.  `evicted` is the event to publish and what   *)
(* has been taken out so far.                                                  *)
Evict ==
    /\ evicted # <<>> /\ live.queue # <<>>
    /\ evicted' = Append(evicted, Head(live.queue))
    /\ live' = [live EXCEPT !.queue = Tail(@)]
    /\ UNCHANGED <<size, log, lock, script, prompts, sub, server, wire, losses, client>>

(* The rest goes back in, without the first tool output, and the event behind  *)
(* it; when there is no room the subscription is closed.                       *)
PutBack ==
    /\ evicted # <<>> /\ live.queue = <<>>
    /\ LET taken == Tail(evicted)
           first == IF Disposable(taken) = {} THEN {}
                    ELSE {CHOOSE i \in Disposable(taken) : \A j \in Disposable(taken) : i <= j}
           kept == [i \in DOMAIN taken |-> IF i \in first THEN <<>> ELSE <<taken[i]>>]
           back == FlattenSeq(kept)
       IN  live' = IF Len(back) < size.live
                   THEN [live EXCEPT !.queue = Append(back, Head(evicted))]
                   ELSE [open |-> FALSE, queue |-> back]
    /\ evicted' = <<>>
    /\ UNCHANGED <<size, log, lock, script, prompts, sub, server, wire, losses, client>>

-----------------------------------------------------------------------------
(* The turn: a drain starts an assistant message, streams its text, runs its   *)
(* tools and settles it, message after message, and then reports idle.         *)

StartAssistant ==
    /\ script.step = "start"
    /\ Commit(Turn, Started(script.message))
    /\ script' = [script EXCEPT !.step = "published"]
    /\ UNCHANGED <<size, prompts, sub, live, evicted, server, wire, losses, client>>

PublishStarted ==
    /\ script.step = "published"
    /\ Publish(Turn)
    /\ script' = [script EXCEPT !.step = "text", !.number = 1]
    /\ UNCHANGED <<size, log, prompts, live, evicted, server, wire, losses, client>>

PublishDelta ==
    /\ script.step = "text" /\ script.number <= size.deltas
    /\ OfferLive(Delta(script.message, script.number))
    /\ script' = [script EXCEPT !.number = @ + 1]
    /\ UNCHANGED <<size, log, lock, prompts, sub, server, wire, losses, client>>

PublishOutput ==
    /\ script.step = "text" /\ script.number \in (size.deltas + 1)..(size.deltas + size.outputs)
    /\ OfferLive(Output)
    /\ script' = [script EXCEPT !.number = @ + 1]
    /\ UNCHANGED <<size, log, lock, prompts, sub, server, wire, losses, client>>

SettleAssistant ==
    /\ script.step = "text" /\ script.number > size.deltas + size.outputs /\ evicted = <<>>
    /\ Commit(Turn, Settled(script.message))
    /\ script' = [script EXCEPT !.step = "settled"]
    /\ UNCHANGED <<size, prompts, sub, live, evicted, server, wire, losses, client>>

PublishSettled ==
    /\ script.step = "settled"
    /\ Publish(Turn)
    /\ script' = IF script.message < size.messages
                 THEN [message |-> script.message + 1, step |-> "start", number |-> 1]
                 ELSE [script EXCEPT !.step = "ending"]
    /\ UNCHANGED <<size, log, prompts, live, evicted, server, wire, losses, client>>

(* SubmitPrompt reports the session as running once the prompt is admitted,    *)
(* which may be after the turn that took it has ended.                         *)
PublishRunning ==
    /\ prompts.admitted > 0
    /\ OfferLive(Status("running"))
    /\ prompts' = [prompts EXCEPT !.admitted = @ - 1]
    /\ UNCHANGED <<size, log, lock, script, sub, server, wire, losses, client>>

(* LifecycleComplete; the session is no longer active. *)
PublishIdle ==
    /\ script.step = "ending"
    /\ OfferLive(Status("idle"))
    /\ script' = [script EXCEPT !.step = "over"]
    /\ UNCHANGED <<size, log, lock, prompts, sub, server, wire, losses, client>>

-----------------------------------------------------------------------------
(* The connection.  The broker subscribes to live events first; then           *)
(* ReplayAndSubscribe lists the log and subscribes in one critical section,    *)
(* which publication shares.                                                   *)

SubscribeLive ==
    /\ client.place = "opening" /\ server.place = "none"
    /\ evicted = <<>>
    /\ live' = [open |-> TRUE, queue |-> <<>>]
    /\ server' = [NoServer EXCEPT !.place = "subscribing"]
    /\ UNCHANGED <<size, log, lock, script, prompts, sub, evicted, wire, losses, client>>

(* streamTurn asks for what follows the largest integer, the enhanced chat for *)
(* what follows the last durable event it has handled.                         *)
After == IF size.liveOnly THEN 2 * size.messages + size.prompts + 1 ELSE client.after

(* replayAssistantState: the message that is active at the end of the replay,  *)
(* and whether the replay tells.                                               *)
Lifecycle(replay) ==
    LET told == { i \in DOMAIN replay : log[replay[i]].kind \in {"started", "settled"} }
        last == log[replay[CHOOSE i \in told : \A j \in told : j <= i]]
    IN  IF told = {} THEN [active |-> None, known |-> FALSE]
        ELSE [active |-> IF last.kind = "started" THEN last.message ELSE None, known |-> TRUE]

\* Mutant: the log is listed before the subscription is made.
ReplayAndSubscribe_TwoSteps ==
    /\ server.place = "subscribing"
    /\ \E upTo \in 0..Len(log) :
         LET replay == [i \in 1..upTo |-> i]
             lacking == SelectSeq(replay, LAMBDA i : i > After)
         IN  /\ sub' = [NoSub EXCEPT !.open = TRUE, !.since = Len(log),
                                     !.after = IF lacking = <<>> THEN After ELSE upTo]
             /\ server' = [server EXCEPT !.place = "replaying", !.replay = lacking,
                                         !.active = Lifecycle(lacking).active,
                                         !.known = Lifecycle(lacking).known]
    /\ UNCHANGED <<size, log, lock, script, prompts, live, evicted, wire, losses, client>>

ReplayAndSubscribe ==
    /\ server.place = "subscribing"
    /\ LET replay == [i \in 1..Len(log) |-> i]
           lacking == SelectSeq(replay, LAMBDA i : i > After)
       IN  /\ sub' = [NoSub EXCEPT !.open = TRUE, !.since = Len(log),
                                   !.after = IF lacking = <<>> THEN After ELSE Len(log)]
           /\ server' = [server EXCEPT !.place = "replaying", !.replay = lacking,
                                       !.active = Lifecycle(lacking).active,
                                       !.known = Lifecycle(lacking).known]
    /\ UNCHANGED <<size, log, lock, script, prompts, live, evicted, wire, losses, client>>

Durable(i) == [log[i] EXCEPT !.sequence = i]

WriteReplay ==
    /\ server.place = "replaying"
    /\ wire' = wire \o [i \in DOMAIN server.replay |-> Durable(server.replay[i])]
    /\ server' = [server EXCEPT !.place = "serving", !.replay = <<>>]
    /\ UNCHANGED <<size, log, lock, script, prompts, sub, live, evicted, losses, client>>

(* The broker's goroutine carries one event from the subscription's buffer to  *)
(* the handler.                                                                *)
Forward ==
    /\ sub.queue # <<>> /\ sub.hand = 0
    /\ sub' = [sub EXCEPT !.hand = Head(sub.queue), !.queue = Tail(@)]
    /\ UNCHANGED <<size, log, lock, script, prompts, live, evicted, server, wire, losses, client>>

(* Live events that belong to another message than the active one wait. *)
Direct(event, m) == event.message \in {None, m}

(* A durable event.  Before one that settles a message the live events that    *)
(* are ready are drained; those of the message are written before it.          *)
HandleDurable ==
    /\ server.place = "serving" /\ sub.hand # 0
    /\ LET event == Durable(sub.hand)
           m == event.message
           ready == IF event.kind = "settled" THEN live.queue ELSE <<>>
           led == SelectSeq(ready, LAMBDA e : Direct(e, m))
           deferred == server.deferred \o SelectSeq(ready, LAMBDA e : ~Direct(e, m))
           freed == IF event.kind = "started"
                    THEN SelectSeq(deferred, LAMBDA e : e.message = m) ELSE <<>>
           closed == event.kind = "settled" /\ ~live.open
       IN  /\ wire' = wire \o led \o (IF closed THEN <<>> ELSE <<event>> \o freed)
           /\ server' = [server EXCEPT
                !.place = IF closed THEN "ended" ELSE @,
                !.deferred = IF event.kind = "started"
                             THEN SelectSeq(deferred, LAMBDA e : e.message # m) ELSE deferred,
                !.active = IF event.kind = "started" THEN m
                           ELSE IF event.kind = "settled" /\ @ = m THEN None ELSE @,
                !.known = @ \/ event.kind \in {"started", "settled"}]
           /\ live' = IF event.kind = "settled" THEN [live EXCEPT !.queue = <<>>] ELSE live
    /\ sub' = [sub EXCEPT !.hand = 0]
    /\ UNCHANGED <<size, log, lock, script, prompts, evicted, losses, client>>

(* A live event: written when it belongs to the active message or to none, or  *)
(* when the handler cannot know which message is active and takes its word.    *)
HandleLive ==
    /\ server.place = "serving" /\ live.queue # <<>>
    /\ LET event == Head(live.queue)
           adopt == server.active = None /\ ~server.known
       IN  IF Direct(event, server.active) \/ adopt
           THEN /\ wire' = Append(wire, event)
                /\ server' = IF event.message = None THEN server
                             ELSE [server EXCEPT !.active = event.message, !.known = TRUE]
           ELSE /\ server' = [server EXCEPT !.deferred = Append(@, event)]
                /\ UNCHANGED wire
    /\ live' = [live EXCEPT !.queue = Tail(@)]
    /\ UNCHANGED <<size, log, lock, script, prompts, sub, evicted, losses, client>>

Closed(s) == ~s.open /\ s.queue = <<>>

(* A subscription that was closed ends the response once its buffer is empty. *)
EndResponse ==
    /\ server.place = "serving"
    /\ Closed(live) \/ (Closed(sub) /\ sub.hand = 0)
    /\ server' = [server EXCEPT !.place = "ended"]
    /\ UNCHANGED <<size, log, lock, script, prompts, sub, live, evicted, wire, losses, client>>

(* The connection breaks; what is not read yet may be lost, from some event on. *)
Break ==
    /\ server.place \in {"subscribing", "replaying", "serving"} /\ losses < size.losses
    /\ losses' = losses + 1
    /\ server' = [server EXCEPT !.place = "ended"]
    /\ \E n \in 0..Len(wire) : wire' = SubSeq(wire, 1, n)
    /\ UNCHANGED <<size, log, lock, script, prompts, sub, live, evicted, client>>

-----------------------------------------------------------------------------
(* The enhanced chat.                                                          *)

(* commitCompletedAssistants: every settled message of `which` that is not     *)
(* known yet goes to the transcript, in the order of the messages; the growing *)
(* text is dropped when its message is settled.                                *)
CommitCompleted(c, which) ==
    LET new == (SettledIds \cap which) \ c.known
        done == c.stream \in SettledIds \cup {None} /\ (which = Ids \/ c.stream \in which)
    IN  [c EXCEPT !.shown = @ \o SetToSortSeq(new, <), !.known = @ \cup new,
                  !.unsynced = @ \ new,
                  !.stream = IF done THEN None ELSE @,
                  !.streamed = IF done THEN <<>> ELSE @]

(* settleIdle *)
SettleIdle(c) ==
    IF c.idleSeen
    THEN [CommitCompleted(c, Ids) EXCEPT !.busy = FALSE, !.idleSeen = FALSE]
    ELSE c

(* beginAssistantMessage: another message is taken only when the one before it *)
(* is settled.                                                                 *)
Begin(c, m) ==
    LET before == IF c.stream \in {None, m} THEN c ELSE CommitCompleted(c, {c.stream})
    IN  IF before.stream = None THEN [before EXCEPT !.stream = m, !.streamed = <<>>]
        ELSE before

Grow(c, event) ==
    IF event.message \in c.known \cup c.unsynced THEN c
    ELSE LET begun == Begin(c, event.message)
         IN  IF begun.stream = event.message
             THEN [begun EXCEPT !.streamed = Append(@, event.number)] ELSE begun

(* handleEvent; the cursor moves to a durable event once it is handled. *)
Handled(event) ==
    LET c == client
        after == CASE event.kind = "delta"   -> Grow(c, event)
                   [] event.kind = "started" -> Begin(c, event.message)
                   [] event.kind = "settled" -> CommitCompleted(c, {event.message})
                   [] event.kind = "idle"    -> [c EXCEPT !.idleSeen = TRUE]
                   [] event.kind = "running" -> [c EXCEPT !.idleSeen = FALSE, !.busy = TRUE]
                   [] OTHER -> c
    IN  [SettleIdle(after) EXCEPT !.after = IF event.sequence > 0 THEN event.sequence ELSE @]

Handle ==
    /\ client.place = "reading" /\ wire # <<>>
    /\ client' = Handled(Head(wire))
    /\ wire' = Tail(wire)
    /\ UNCHANGED <<size, log, lock, script, prompts, sub, live, evicted, server, losses>>

StreamEnds ==
    /\ client.place \in {"opening", "reading"} /\ server.place = "ended" /\ wire = <<>>
    /\ client' = [client EXCEPT !.place = "closed"]
    /\ server' = NoServer /\ sub' = NoSub /\ live' = NoLive
    /\ UNCHANGED <<size, log, lock, script, prompts, evicted, wire, losses>>

(* ensureStream, up to the request: the first time it takes its cursor from    *)
(* the messages there are; messages that are active will not be streamed.      *)
Connect ==
    /\ client.place = "closed" /\ client.busy /\ evicted = <<>>
    /\ LET opened == IF client.new
                     THEN [client EXCEPT
                             !.new = FALSE, !.known = SettledIds,
                             !.shown = SetToSortSeq(SettledIds, <),
                             !.after = LET i == { j \in DOMAIN log : log[j].kind = "started" }
                                       IN  IF i = {} THEN 0
                                           ELSE CHOOSE j \in i : \A k \in i : k <= j]
                     ELSE client
       IN  client' = [opened EXCEPT !.place = "opening",
                                    !.snapshot = SettledIds \cup ActiveIds,
                                    !.unsynced = @ \cup ActiveIds]
    /\ UNCHANGED <<size, log, lock, script, prompts, sub, live, evicted, server, wire, losses>>

(* The response has begun; messages that appeared since are not streamed. *)
CheckSnapshot ==
    /\ client.place = "opening" /\ server.place \in {"replaying", "serving"}
    /\ client' = [client EXCEPT
                    !.place = "reconciling",
                    !.unsynced = @ \cup ((SettledIds \cup ActiveIds) \ client.snapshot)]
    /\ UNCHANGED <<size, log, lock, script, prompts, sub, live, evicted, server, wire, losses>>

(* reconcileRuntime: a session that is not active any more has settled all its *)
(* messages.                                                                   *)
Reconciled(c) ==
    IF c.busy /\ script.step = "over"
    THEN [CommitCompleted(c, Ids) EXCEPT !.busy = FALSE, !.idleSeen = FALSE]
    ELSE c

Reconcile ==
    /\ client.place \in {"reconciling", "reading"}
    /\ client' = [Reconciled(client) EXCEPT !.place = "reading"]
    /\ UNCHANGED <<size, log, lock, script, prompts, sub, live, evicted, server, wire, losses>>

-----------------------------------------------------------------------------

Session ==
    \/ AdmitPrompt \/ PublishPrompt \/ PublishRunning
    \/ StartAssistant \/ PublishStarted \/ PublishDelta \/ PublishOutput
    \/ SettleAssistant \/ PublishSettled \/ PublishIdle \/ Evict \/ PutBack

Connection ==
    \/ SubscribeLive \/ ReplayAndSubscribe \/ WriteReplay \/ Forward
    \/ HandleDurable \/ HandleLive \/ EndResponse

Client == Handle \/ StreamEnds \/ Connect \/ CheckSnapshot \/ Reconcile

Next == Session \/ Connection \/ Client \/ Break

Spec == Init /\ [][Next]_vars

-----------------------------------------------------------------------------

TypeOK ==
    /\ ToSet(log) \subseteq {Started(m) : m \in Ids} \cup {Settled(m) : m \in Ids} \cup {Admitted}
    /\ lock \in {"free", Turn, Prompt}
    /\ Len(sub.queue) <= size.durable /\ Len(live.queue) <= size.live
    /\ sub.hand \in 0..Len(log) /\ client.after \in 0..Len(log)
    /\ client.known \cup client.unsynced \subseteq Ids
    /\ losses \in 0..size.losses

(* The client handles every durable event after its cursor, in the order of    *)
(* the log and each once, across replays, overflows and broken connections     *)
(* (commitLock, ReplayAndSubscribe, publishLocked, eventAfter).                *)
NoGapNoRepeat ==
    client.place = "reading" /\ wire # <<>> =>
        LET durable == SelectSeq(wire, LAMBDA e : e.sequence > 0)
        IN  \A i \in DOMAIN durable : durable[i].sequence = client.after + i

(* "every commit after the replay query is either present in replay or         *)
(* delivered through the subscription" (event/repository.go:251).              *)
HandoffIsComplete ==
    sub.open /\ lock = "free" => sub.got = Len(log) - sub.since

(* The text that grows on the screen is the beginning of its message: "their   *)
(* deltas would form only a suffix (or contain a gap ...)" is what ensureStream *)
(* and the handler's deferral are there to prevent.                            *)
ShownIsPrefix ==
    \A i \in DOMAIN client.streamed : client.streamed[i] = i

(* The transcript has the settled messages in their order, each once, whatever *)
(* order durable and live events arrive in (commitCompletedAssistants).        *)
TranscriptInOrder ==
    client.shown = [i \in DOMAIN client.shown |-> i]

(* When the turn is over and the chat is no longer busy, every message is in   *)
(* the transcript.                                                             *)
IdleShowsAll ==
    script.step = "over" /\ ~client.busy => ToSet(client.shown) = Ids

(* What the client shows of a turn is the turn: each message is in its place,  *)
(* grows from its beginning, and is there when the session is idle; and replay *)
(* and subscription leave no gap.                                              *)
TranscriptIsFaithful ==
    HandoffIsComplete /\ ShownIsPrefix /\ TranscriptInOrder /\ IdleShowsAll
=============================================================================
