---------------------------- MODULE ActivityTree ----------------------------
(***************************************************************************)
(* The rows a chat shows for child sessions and processes.  Turns and      *)
(* processes publish lifecycle, progress and usage events; the durable     *)
(* events of their messages and tool calls are forwarded by a goroutine of *)
(* their own; a delayed progress event may come at any time.  The tracker  *)
(* of a client folds all of them, in the order in which they arrive, into  *)
(* a tree of activities, and says which rows are live and which settle.    *)
(***************************************************************************)
EXTENDS Naturals, Sequences, FiniteSets, FiniteSetsExt

CONSTANTS
    Root,       \* the session of the chat
    Sessions,   \* the child sessions
    Shells,     \* the processes that run in them
    Above,      \* the session an activity belongs to
    Modeline,   \* the sessions whose tool calls show in their status row
    Loads,      \* what to look at, see Load
    Capacity    \* durable events that may wait for the forwarder

Activities == Sessions \cup Shells

ASSUME ActivitiesAssumption ==
    /\ Root \notin Activities /\ Sessions \cap Shells = {} /\ Modeline \subseteq Sessions

(* What the activities do: the sessions with messages and tool calls, the      *)
(* processes, and bounds on the turns of a session and on its usage.           *)
Load == [talkers : SUBSET Sessions, shells : SUBSET Shells, turns : [Sessions -> Nat], spent : Nat]

ASSUME LoadsAssumption == Loads \subseteq Load
    /\ Above \in [Activities -> Sessions \cup {Root}]

VARIABLES
    load,       \* which of them it is
    attached,   \* the client receives events
    phase,      \* of a session's turn, or of a process
    turns,      \* turns of a session so far
    step,       \* of the turn: its message is open, settled, its call runs, ended
    spent,      \* usage the client was told of
    captured,   \* sessions with a running progress that is yet to be published
    backlog,    \* durable events of a session, yet to be forwarded
    forwarding, \* the sessions whose durable events are forwarded
    node,       \* the tracker's nodes
    rows,       \* live rows: <<activity, row>>
    settled,    \* how often a status row of the activity's generation settled
    rushed      \* the activities that settled above one that was at work

producers == <<load, phase, turns, step, spent, captured, backlog, forwarding>>
vars == <<attached, producers, node, rows, settled, rushed>>

Unknown ==
    [known |-> FALSE, status |-> "", progress |-> "none", open |-> FALSE, flushed |-> FALSE,
     finished |-> FALSE, ended |-> FALSE, modeline |-> {}, said |-> {}, thinking |-> {},
     done |-> {}, calls |-> {}, outputs |-> {}, doneCalls |-> {}, direct |-> 0, pending |-> 0]

Init ==
    /\ load \in Loads
    /\ attached = FALSE /\ phase = [a \in Activities |-> "idle"]
    /\ turns = [s \in Sessions |-> 0] /\ step = [s \in Sessions |-> "none"]
    /\ spent = [s \in Sessions |-> 0] /\ captured = {}
    /\ backlog = [s \in Sessions |-> << >>] /\ forwarding = Sessions
    /\ node = [a \in Activities |-> Unknown] /\ rows = {}
    /\ settled = [a \in Activities |-> [lifecycle |-> 0, status |-> 0]]
    /\ rushed = {}

-----------------------------------------------------------------------------
(* The tree.                                                               *)

Known(N) == {a \in Activities : N[a].known}

\* A process counts what its session owns as its own children.
Owner(a) == IF a \in Shells THEN Above[a] ELSE a
ChildrenOf(N, s) == {a \in Known(N) : Above[a] = s}

\* What a depth-first walk from the node visits.
Reach(N, a) ==
    LET visit[i \in 0..Cardinality(Activities)] ==
            IF i = 0 THEN {a}
            ELSE visit[i - 1] \cup UNION {ChildrenOf(N, Owner(b)) : b \in visit[i - 1]}
    IN visit[Cardinality(Activities)]

SelfActive(n) ==
    IF n.progress # "none" THEN n.progress # "done" \/ n.modeline # {}
    ELSE n.status = "working" \/ n.modeline # {}

Active(N, a) == \E b \in Reach(N, a) : SelfActive(N[b])

\* No child is active and no tool of its own runs.
Quiet(N, a) == (\A b \in ChildrenOf(N, a) : ~Active(N, b)) /\ N[a].modeline = {}

\* The known sessions from the activity up to the root.
Walk(N, a) == {s \in Known(N) \cap Sessions : N[a].known /\ a \in Reach(N, s)}

Lifecycle(N, a) ==
    N[a].progress = "none" /\ N[a].finished /\ ~N[a].ended /\ Quiet(N, a)
Status(N, a) == N[a].progress # "none" /\ ~N[a].flushed
Terminal(N, a) == Status(N, a) /\ N[a].progress = "done" /\ Quiet(N, a)

\* activityStatusReports, and what the chat makes of it.  R are the live rows
\* without those the event itself took away.
Reports(N, R, a) ==
    LET walk == Walk(N, a) IN
    /\ node' = [b \in Activities |->
         IF b \notin walk THEN N[b]
         ELSE [N[b] EXCEPT !.ended = @ \/ Lifecycle(N, b), !.flushed = @ \/ Terminal(N, b)]]
    /\ rows' = (R \cup {<<b, "status">> : b \in {b \in walk : Status(N, b)}})
                 \ ({<<b, "status">> : b \in {b \in walk : Terminal(N, b)}}
                    \cup {<<b, "lifecycle">> : b \in {b \in walk : Lifecycle(N, b)}})
    /\ settled' = [b \in Activities |->
         IF b \notin walk THEN settled[b]
         ELSE [lifecycle |-> settled[b].lifecycle + (IF Lifecycle(N, b) THEN 1 ELSE 0),
               status |-> settled[b].status + (IF Terminal(N, b) THEN 1 ELSE 0)]]
    /\ rushed' = rushed \cup {b \in walk : /\ Lifecycle(N, b) \/ Terminal(N, b)
                                          /\ \E c \in ChildrenOf(N, b) : phase'[c] = "working"}

Ignored == UNCHANGED <<node, rows, settled, rushed>>

-----------------------------------------------------------------------------
(* The tracker's answer to an event.                                       *)

\* agent_session.start, before every turn, and process.start
Registered(n) == [n EXCEPT !.known = TRUE, !.direct = @ + n.pending, !.pending = 0,
                           !.status = "working", !.open = TRUE]
Start(a) ==
    IF ~attached THEN Ignored
    ELSE LET N == [node EXCEPT ![a] = Registered(@)] IN
         Reports(N, rows \cup (IF a \in Shells THEN {<<a, "lifecycle">>} ELSE {}), a)

\* agent_session.working opens a generation.
Opened(n) == [n EXCEPT !.status = "working", !.progress = "none", !.modeline = {}, !.open = TRUE,
                       !.flushed = FALSE, !.finished = FALSE, !.ended = FALSE]
Working(s) ==
    IF ~attached \/ ~node[s].known THEN Ignored
    ELSE /\ node' = [node EXCEPT ![s] = Opened(@)]
         /\ settled' = [settled EXCEPT ![s] = [lifecycle |-> 0, status |-> 0]]
         /\ UNCHANGED <<rows, rushed>>

\* A process settles its own row; a session's is a matter of its progress.
Finished(a) ==
    IF ~attached \/ ~node[a].known THEN Ignored
    ELSE LET N == [node EXCEPT ![a].status = "over", ![a].finished = TRUE,
                               ![a].ended = a \in Shells] IN
         Reports(N, rows \ (IF a \in Shells THEN {<<a, "lifecycle">>} ELSE {}), a)

\* Delayed running events cannot resurrect a generation that has finished.
Closed_Resurrects(n, what) == ~n.open   \* mutant

Closed(n, what) == ~n.open \/ (n.finished /\ what = "running")

Progress(s, what) ==
    IF ~attached \/ ~node[s].known \/ Closed(node[s], what) THEN Ignored
    ELSE LET N == [node EXCEPT ![s].progress = what, ![s].open = (what = "running")] IN
         Reports(N, rows, s)

\* AddUsage keeps what arrives before the session is registered.
Usage(s, amount) ==
    IF ~attached THEN UNCHANGED node
    ELSE node' = IF node[s].known THEN [node EXCEPT ![s].direct = @ + amount]
                 ELSE [node EXCEPT ![s].pending = @ + amount]

\* message.part.delta
Text(s, m) ==
    IF ~attached \/ ~node[s].known \/ m \in node[s].done THEN UNCHANGED <<node, rows>>
    ELSE node' = [node EXCEPT ![s].said = @ \cup {m}] /\ rows' = rows \cup {<<s, "response">>}

\* A part that is complete settles its row at once; a later one opens it again.
Thought(s, m, complete) ==
    IF ~attached \/ ~node[s].known \/ m \in node[s].done THEN UNCHANGED <<node, rows>>
    ELSE IF complete
         THEN node' = [node EXCEPT ![s].thinking = @ \ {m}] /\ rows' = rows \ {<<s, "reasoning">>}
         ELSE node' = [node EXCEPT ![s].thinking = @ \cup {m}] /\ rows' = rows \cup {<<s, "reasoning">>}

\* tool.output.delta, kept until the call is known
Output(s, c) ==
    IF ~attached \/ ~node[s].known \/ c \in node[s].doneCalls THEN UNCHANGED <<node, rows>>
    ELSE IF c \in node[s].calls THEN rows' = rows \cup {<<s, "tool">>} /\ UNCHANGED node
         ELSE node' = [node EXCEPT ![s].outputs = @ \cup {c}] /\ UNCHANGED rows

\* The durable events: the message is complete, the call is pending, it ended.
Completed(s, m) ==
    /\ node' = [node EXCEPT ![s].done = @ \cup {m}, ![s].said = @ \ {m}, ![s].thinking = @ \ {m}]
    /\ rows' = rows \ ({<<s, "response">>}
                        \cup (IF m \in node[s].thinking THEN {<<s, "reasoning">>} ELSE {}))
    /\ UNCHANGED <<settled, rushed>>

Pending(s, c) ==
    LET N == [node EXCEPT ![s].calls = @ \cup {c}, ![s].outputs = @ \ {c}] IN
    IF s \in Modeline THEN Reports([N EXCEPT ![s].modeline = @ \cup {c}], rows, s)
    ELSE node' = N /\ rows' = rows \cup {<<s, "tool">>} /\ UNCHANGED <<settled, rushed>>

\* Its name is that of the pending event.
Ended(s, c) ==
    LET N == [node EXCEPT ![s].calls = @ \ {c}, ![s].outputs = @ \ {c}, ![s].doneCalls = @ \cup {c}]
        R == rows \ {<<s, "tool">>}
    IN IF s \in Modeline /\ c \in node[s].calls
       THEN Reports([N EXCEPT ![s].modeline = @ \ {c}], R, s)
       ELSE node' = N /\ rows' = R /\ UNCHANGED <<settled, rushed>>

Apply(s, event) ==
    IF ~attached \/ ~node[s].known THEN Ignored
    ELSE \/ event[1] = "complete" /\ Completed(s, event[2])
         \/ event[1] = "pending" /\ Pending(s, event[2])
         \/ event[1] = "ended" /\ Ended(s, event[2])

-----------------------------------------------------------------------------
(* What turns and processes publish.                                       *)

Attach == ~attached /\ attached' = TRUE /\ UNCHANGED <<producers, node, rows, settled, rushed>>

\* A child is created by a turn of its parent.
Begin(s) ==
    /\ phase[s] = "idle" /\ turns[s] < load.turns[s]
    /\ turns[s] = 0 /\ Above[s] # Root => phase[Above[s]] = "working"
    /\ turns' = [turns EXCEPT ![s] = @ + 1] /\ step' = [step EXCEPT ![s] = "none"]
    /\ \/ phase' = [phase EXCEPT ![s] = "started"] /\ Start(s)
       \/ phase' = [phase EXCEPT ![s] = "finished"] /\ Finished(s)   \* interrupted before
    /\ UNCHANGED <<attached, load, spent, captured, backlog, forwarding>>

Work(s) ==
    /\ phase[s] = "started"
    /\ \/ phase' = [phase EXCEPT ![s] = "working"] /\ Working(s)
       \/ phase' = [phase EXCEPT ![s] = "finished"] /\ Finished(s)
    /\ UNCHANGED <<attached, load, turns, step, spent, captured, backlog, forwarding>>

\* The usage of a turn is progress of the turns above it too.
Spend(s) ==
    /\ phase[s] = "working"
    /\ \E amount \in 0..1 :
        /\ spent[s] + amount <= load.spent /\ (amount > 0 => attached)
        /\ spent' = [spent EXCEPT ![s] = @ + amount] /\ Usage(s, amount)
    /\ captured' = captured \cup
         {t \in Sessions : phase[t] = "working" /\ (t = s \/ Above[s] = t)}
    /\ UNCHANGED <<attached, load, phase, turns, step, backlog, forwarding, rows, settled, rushed>>

\* A progress event is published after the session's lock is released.
Report(s) ==
    /\ s \in captured /\ captured' = captured \ {s}
    /\ UNCHANGED <<attached, load, phase, turns, step, spent, backlog, forwarding>>
    /\ Progress(s, "running")

Publish(s, kind) ==
    IF s \notin forwarding THEN UNCHANGED <<backlog, forwarding>>
    ELSE IF Len(backlog[s]) < Capacity
         THEN backlog' = [backlog EXCEPT ![s] = Append(@, <<kind, turns[s]>>)] /\ UNCHANGED forwarding
         ELSE forwarding' = forwarding \ {s} /\ UNCHANGED backlog

\* A message is settled before its calls run.
Script == [none |-> "open", open |-> "settled", settled |-> "calling", calling |-> "ended"]
Event == [settled |-> "complete", calling |-> "pending", ended |-> "ended"]
Step(s) ==
    /\ phase[s] = "working" /\ s \in load.talkers /\ step[s] \in DOMAIN Script
    /\ step' = [step EXCEPT ![s] = Script[@]]
    /\ IF step'[s] = "open" THEN UNCHANGED <<backlog, forwarding>> ELSE Publish(s, Event[step'[s]])
    /\ UNCHANGED <<attached, load, phase, turns, spent, captured, node, rows, settled, rushed>>

Delta(s) ==
    /\ phase[s] = "working"
    /\ \/ step[s] = "open" /\ Text(s, turns[s])
       \/ step[s] = "open" /\ \E complete \in BOOLEAN : Thought(s, turns[s], complete)
       \/ step[s] = "calling" /\ Output(s, turns[s])
    /\ UNCHANGED <<attached, producers, settled, rushed>>

Forward(s) ==
    /\ backlog[s] # << >> /\ backlog' = [backlog EXCEPT ![s] = Tail(@)]
    /\ UNCHANGED <<attached, load, phase, turns, step, spent, captured, forwarding>>
    /\ Apply(s, Head(backlog[s]))

Finish(s) ==
    /\ phase[s] = "working" /\ step[s] \in {"none", "settled", "ended"}
    /\ phase' = [phase EXCEPT ![s] = "finished"] /\ Finished(s)
    /\ UNCHANGED <<attached, load, turns, step, spent, captured, backlog, forwarding>>

\* TurnFinished publishes a progress with the turn's outcome behind the event.
Conclude(s) ==
    /\ phase[s] = "finished" /\ phase' = [phase EXCEPT ![s] = "idle"] /\ Progress(s, "done")
    /\ UNCHANGED <<attached, load, turns, step, spent, captured, backlog, forwarding>>

StartProcess(h) ==
    /\ h \in load.shells /\ phase[h] = "idle" /\ phase[Above[h]] = "working"
    /\ phase' = [phase EXCEPT ![h] = "working"] /\ Start(h)
    /\ UNCHANGED <<attached, load, turns, step, spent, captured, backlog, forwarding>>

FinishProcess(h) ==
    /\ phase[h] = "working" /\ phase' = [phase EXCEPT ![h] = "over"] /\ Finished(h)
    /\ UNCHANGED <<attached, load, turns, step, spent, captured, backlog, forwarding>>

Next ==
    \/ Attach
    \/ \E s \in Sessions :
        \/ Begin(s) \/ Work(s) \/ Spend(s) \/ Report(s) \/ Step(s) \/ Delta(s)
        \/ Forward(s) \/ Finish(s) \/ Conclude(s)
    \/ \E h \in Shells : StartProcess(h) \/ FinishProcess(h)

Spec == Init /\ [][Next]_vars

-----------------------------------------------------------------------------
TypeOK ==
    /\ captured \subseteq Sessions /\ forwarding \subseteq Sessions
    /\ \A s \in Sessions : Len(backlog[s]) <= Capacity /\ turns[s] <= load.turns[s]

AtRest ==
    /\ \A a \in Activities : phase[a] \in {"idle", "over"}
    /\ captured = {} /\ \A s \in Sessions : backlog[s] = << >>

OncePerGeneration ==
    \A a \in Activities : settled[a].lifecycle <= 1 /\ settled[a].status <= 1

\* What the mode line shows: the root and everything under it.
CumulativeUsage(N, a) == MapThenSumSet(LAMBDA b : N[b].direct, Reach(N, a) \ {Root})

UsageIsWhole ==
    /\ \A s \in Sessions : spent[s] = IF node[s].known THEN node[s].direct ELSE node[s].pending
    /\ Sessions \subseteq Known(node) =>
         CumulativeUsage(node, Root) = MapThenSumSet(LAMBDA s : spent[s], Sessions)

\* "Once that generation reports a terminal status, delayed running events cannot
\* resurrect it; a new agent_session.working is required."
NotResurrected ==
    \A s \in Sessions : phase[s] \in {"idle", "started"} /\ node[s].finished =>
        node[s].progress # "running"

\* Each generation of an activity settles once, and not before those under it;
\* when everything has stopped, nothing is shown as if it still ran, whatever
\* came late; usage is counted once, whether it came before its session or
\* after (RuntimeActivityTracker).
RowsSettle ==
    /\ OncePerGeneration /\ rushed = {} /\ NotResurrected /\ UsageIsWhole
    /\ AtRest /\ forwarding = Sessions =>
        /\ rows = {}
        /\ \A s \in Sessions : node[s].known => ~Active(node, s)
=============================================================================
