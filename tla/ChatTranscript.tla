--------------------------- MODULE ChatTranscript ---------------------------
(***************************************************************************)
(* What the enhanced chat shows of a turn.  Reasoning, text and tool output *)
(* arrive as live events, messages and tool calls as durable ones; the     *)
(* handler of the connection writes both to the wire.  The chat keeps live *)
(* rows of what is under way, and makes them permanent: the summaries of a *)
(* message, its answer, then the reports of the tool calls.  The messages  *)
(* themselves it reads from the session when it needs to.                  *)
(***************************************************************************)
EXTENDS Naturals, Sequences, SequencesExt, FiniteSets

CONSTANTS
    Messages,   \* messages of the turn: 1..Messages
    MaxDeltas   \* bound on the live deltas of each message

VARIABLES
    at,         \* the turn: the message it is at, and its step
    emitted,    \* deltas of the message so far
    parts,      \* parts of its summary that are done
    repository, \* [status, text, error] of each message
    durable,    \* durable events the handler has not taken
    live,       \* live events the handler has not taken
    active,     \* activeAssistant: the message the handler lets through, or 0
    adopted,    \* lifecycleKnown
    deferred,   \* live events the handler holds back
    wire,       \* events written and not handled
    stream,     \* streamMessageID, or 0
    streamed,   \* text of it has been buffered
    summarized, \* reasoningSummary
    toolInput,  \* toolInput
    idle,       \* idleSeen
    known,      \* knownMessages
    rows,       \* live rows of messages, in their order: [message, part, kind]
    tools,      \* live rows of tool calls
    outputs,    \* pendingToolOutput
    completed,  \* completedActivities
    over,       \* completedToolIDs
    transcript, \* what has become permanent, and text that may have
    late        \* messages that were announced when they had been shown

producer == <<at, emitted, parts, repository>>
handler == <<active, adopted, deferred>>
chat == <<stream, streamed, summarized, toolInput, idle, known, rows, tools, outputs, completed, over, transcript, late>>
vars == <<producer, durable, live, handler, wire, chat>>

Ids == 1..Messages
Parts == 1..2
None == 0

Init ==
    /\ at = <<1, "start">> /\ emitted = 0 /\ parts = {}
    /\ repository = [m \in Ids |-> [status |-> "none", text |-> FALSE, error |-> FALSE]]
    /\ durable = << >> /\ live = << >> /\ active = None /\ adopted = FALSE /\ deferred = << >>
    /\ wire = << >> /\ stream = None /\ streamed = FALSE /\ summarized = FALSE /\ toolInput = FALSE
    /\ idle = FALSE /\ known = {} /\ rows = << >> /\ tools = {} /\ outputs = {}
    /\ completed = << >> /\ over = {} /\ transcript = << >> /\ late = {}

-----------------------------------------------------------------------------
(* The turn.  An event is <<kind, message, part>>; every message but the    *)
(* last one calls a tool, which runs when the message is settled.           *)

Event(kind, m) == <<kind, m, None>>

Start ==
    /\ at[2] = "start" /\ at' = <<at[1], "open">> /\ emitted' = 0 /\ parts' = {}
    /\ repository' = [repository EXCEPT ![at[1]].status = "active"]
    /\ durable' = Append(durable, Event("started", at[1]))
    /\ UNCHANGED <<live, handler, wire, chat>>

Emit(kind, p) ==
    /\ live' = Append(live, <<kind, at[1], p>>) /\ emitted' = emitted + 1
    /\ repository' = [repository EXCEPT ![at[1]].text = @ \/ kind = "text"]
    /\ UNCHANGED <<at, durable, handler, wire, chat>>

Kinds == {"raw", "text", "tool input", "usage"}
Delta ==
    /\ at[2] = "open" /\ emitted < MaxDeltas[at[1]]
    /\ \/ (\E kind \in Kinds : Emit(kind, None))
          /\ UNCHANGED parts
       \/ \E p \in Parts \ parts : Emit("summary", p) /\ UNCHANGED parts
       \/ \E p \in Parts \ parts : Emit("summary done", p) /\ parts' = parts \cup {p}

\* A message that calls a tool has had a live event, that of its usage at least.
Settle ==
    /\ at[2] = "open" /\ (emitted > 0 \/ at[1] = Messages)
    /\ at' = <<at[1], IF at[1] < Messages THEN "call" ELSE "end">>
    /\ \E failed \in {FALSE, at[1] = Messages} :
        repository' = [repository EXCEPT ![at[1]].status = "settled", ![at[1]].error = failed]
    /\ durable' = Append(durable, Event("settled", at[1]))
    /\ UNCHANGED <<emitted, parts, live, handler, wire, chat>>

Call ==
    /\ at[2] = "call" /\ at' = <<at[1], "run">>
    /\ durable' = Append(durable, Event("pending", at[1]))
    /\ live' = Append(live, Event("output", at[1]))
    /\ UNCHANGED <<emitted, parts, repository, handler, wire, chat>>

Return ==
    /\ at[2] = "run" /\ at' = <<at[1] + 1, "start">>
    /\ \E kind \in {"ended", "ended quietly"} : durable' = Append(durable, Event(kind, at[1]))
    /\ UNCHANGED <<emitted, parts, repository, live, handler, wire, chat>>

EndTurn ==
    /\ at[2] = "end" /\ at' = <<Messages, "over">> /\ live' = Append(live, Event("idle", None))
    /\ UNCHANGED <<emitted, parts, repository, durable, handler, wire, chat>>

-----------------------------------------------------------------------------
(* The handler of the connection.                                          *)

\* The message a live event is about; outputs and statuses have none.
Scope(event) == IF event[1] \in {"output", "idle"} THEN None ELSE event[2]

OfScope(m, e) == Scope(e) \in {None, m}

\* deferOrWriteLive
TakeLive ==
    /\ wire = << >> /\ live # << >> /\ live' = Tail(live)
    /\ LET m == Scope(Head(live)) IN
       IF m = None \/ m = active
       THEN wire' = <<Head(live)>> /\ UNCHANGED handler
       ELSE IF active = None /\ ~adopted
       THEN wire' = <<Head(live)>> /\ active' = m /\ adopted' = TRUE /\ UNCHANGED deferred
       ELSE deferred' = Append(deferred, Head(live)) /\ UNCHANGED <<wire, active, adopted>>
    /\ UNCHANGED <<producer, durable, chat>>

\* The live events of a message are written before it is settled, those of a
\* later one when it has started.
TakeDurable ==
    /\ wire = << >> /\ durable # << >> /\ durable' = Tail(durable)
    /\ LET event == Head(durable)  m == event[2] IN
       CASE event[1] = "settled" ->
              /\ wire' = Append(SelectSeq(live, LAMBDA e : OfScope(m, e)), event)
              /\ deferred' = deferred \o SelectSeq(live, LAMBDA e : ~OfScope(m, e))
              /\ live' = << >> /\ adopted' = TRUE
              /\ active' = IF active = m THEN None ELSE active
         [] event[1] = "started" ->
              /\ active' = m /\ adopted' = TRUE
              /\ wire' = <<event>> \o SelectSeq(deferred, LAMBDA e : Scope(e) = m)
              /\ deferred' = SelectSeq(deferred, LAMBDA e : Scope(e) # m)
              /\ UNCHANGED live
         [] OTHER -> wire' = <<event>> /\ UNCHANGED <<live, handler>>
    /\ UNCHANGED <<producer, chat>>

-----------------------------------------------------------------------------
(* The chat: its state is a record while an event is handled.               *)

Chat == [stream |-> stream, streamed |-> streamed, summarized |-> summarized,
         toolInput |-> toolInput, idle |-> idle, known |-> known, rows |-> rows, tools |-> tools,
         outputs |-> outputs, completed |-> completed, over |-> over, transcript |-> transcript, late |-> late]

Becomes(c) ==
    /\ stream' = c.stream /\ streamed' = c.streamed /\ summarized' = c.summarized
    /\ toolInput' = c.toolInput /\ idle' = c.idle /\ known' = c.known /\ rows' = c.rows
    /\ tools' = c.tools /\ outputs' = c.outputs /\ completed' = c.completed /\ over' = c.over
    /\ transcript' = c.transcript /\ late' = c.late

Of(m, row) == row.message = m
Summaries(c, m) == SelectSeq(c.rows, LAMBDA row : Of(m, row) /\ row.kind = "summary")
Shown(some) == [i \in DOMAIN some |-> <<"summary", some[i].message, some[i].part>>]

\* flushCompletedActivities: not into the middle of an answer
Flush(c) ==
    IF c.stream # None \/ c.streamed THEN c
    ELSE [c EXCEPT !.transcript = @ \o [i \in DOMAIN c.completed |-> Event("tool", c.completed[i])],
                   !.completed = << >>]

\* finishAssistantActivity and what follows it, for a settled message
Placeholder(c, m) ==
    IF ~repository[m].text /\ \E i \in DOMAIN c.rows : Of(m, c.rows[i]) /\ c.rows[i].kind = "thinking"
    THEN <<Event("note", m)>> ELSE << >>

Answer(c, m) ==
    IF repository[m].text \/ (~repository[m].error /\ c.stream = m /\ ~c.toolInput)
    THEN <<Event("answer", m)>> ELSE << >>

Commit(c, m) ==
    [c EXCEPT !.transcript = @ \o Shown(Summaries(c, m)) \o Placeholder(c, m) \o Answer(c, m)
                               \o (IF repository[m].error THEN <<Event("error", m)>> ELSE << >>),
              !.rows = SelectSeq(@, LAMBDA row : ~Of(m, row)),
              !.known = @ \cup {m}]

\* commitCompletedAssistants, of one message or of all
Settled(c, S) == {m \in S : repository[m].status = "settled" /\ m \notin c.known}
CommitAll(c, S) ==
    LET commit[i \in 0..Messages] ==
            IF i = 0 THEN c
            ELSE IF i \in Settled(c, S) THEN Commit(commit[i - 1], i) ELSE commit[i - 1]
        d == commit[Messages]
    IN Flush(IF (d.stream = None \/ repository[d.stream].status # "active") /\ (S = Ids \/ d.stream \in S)
             THEN [d EXCEPT !.stream = None, !.streamed = FALSE, !.summarized = FALSE, !.toolInput = FALSE]
             ELSE d)

\* beginAssistantMessage: the message before is settled from the session, and
\* an event that is about another one while it is active is stale.
Prior(c, m) == IF c.stream \in {None, m} THEN c ELSE CommitAll(c, {c.stream})
Accepts(c, m) == Prior(c, m).stream \in {None, m}
Begin(c, m) ==
    IF c.stream = m THEN c
    ELSE [Prior(c, m) EXCEPT !.stream = m, !.streamed = FALSE, !.summarized = FALSE, !.toolInput = FALSE]

\* startAssistantActivity
StartRow(c, m) ==
    IF c.summarized \/ \E i \in DOMAIN c.rows : Of(m, c.rows[i]) THEN c
    ELSE [c EXCEPT !.rows = Append(@, [message |-> m, part |-> None, kind |-> "thinking"]),
                   !.late = IF m \in c.known THEN @ \cup {m} ELSE @]

\* startReasoningActivity: the first part takes over the message's own row.
RowOf(c, m, p) == SelectInSeq(c.rows, LAMBDA row : row.message = m /\ row.part = p)
Reasoning(c, m, p, kind) ==
    LET row == [message |-> m, part |-> p, kind |-> kind]
        i == IF RowOf(c, m, p) > 0 THEN RowOf(c, m, p) ELSE RowOf(c, m, None)
    IN IF i > 0 THEN [c EXCEPT !.rows[i] = row] ELSE [c EXCEPT !.rows = Append(@, row)]

\* finishReasoningSummaryPart
FinishPart(c, m, p) ==
    LET i == RowOf(c, m, p) IN
    [c EXCEPT !.rows = RemoveAt(@, i), !.transcript = Append(@, <<"summary", m, p>>)]

\* flushReasoningBeforeAnswer, at the first text
FlushReasoning(c, m) ==
    [c EXCEPT !.transcript = @ \o Shown(Summaries(c, m)),
              !.rows = SelectSeq(@, LAMBDA row : ~(Of(m, row) /\ row.kind # "thinking"))]

Text(c, m) ==
    IF c.streamed THEN c
    ELSE [FlushReasoning(c, m) EXCEPT !.streamed = TRUE, !.transcript = Append(@, Event("text", m))]

\* Once answer text has started, a summary can no longer be placed before it.
DeltaOf(c, kind, m, p) ==
    CASE kind = "text" -> Text(c, m)
      [] kind = "tool input" -> [c EXCEPT !.toolInput = TRUE]
      [] kind = "raw" -> IF c.summarized THEN c ELSE Reasoning(c, m, None, "raw")
      [] kind = "summary" ->
           IF c.streamed THEN c ELSE Reasoning([c EXCEPT !.summarized = TRUE], m, p, "summary")
      [] kind = "summary done" ->
           IF c.streamed THEN c
           ELSE FinishPart(Reasoning([c EXCEPT !.summarized = TRUE], m, p, "summary"), m, p)

\* handleToolActivity and updateToolOutput
ToolEnded(c, t, quietly) ==
    LET d == [c EXCEPT !.tools = @ \ {t}, !.outputs = @ \ {t}, !.over = @ \cup {t}] IN
    IF quietly THEN d ELSE Flush([d EXCEPT !.completed = Append(@, t)])

Output_Late(c, t) == [c EXCEPT !.outputs = @ \cup {t}]   \* mutant

Output(c, t) ==
    IF t \in c.over \/ t \in c.tools THEN c ELSE [c EXCEPT !.outputs = @ \cup {t}]

\* handleEvent, up to its settleIdle
Handled(c, event) ==
    LET kind == event[1]  m == event[2] IN
    CASE kind = "started" -> IF Accepts(c, m) THEN StartRow(Begin(c, m), m) ELSE Prior(c, m)
      [] kind = "settled" -> CommitAll(c, {m})
      [] kind = "pending" -> [c EXCEPT !.tools = @ \cup {m}, !.outputs = @ \ {m}]
      [] kind = "ended" -> ToolEnded(c, m, FALSE)
      [] kind = "ended quietly" -> ToolEnded(c, m, TRUE)
      [] kind = "output" -> Output(c, m)
      [] kind = "idle" -> [c EXCEPT !.idle = TRUE]
      [] kind = "usage" -> c
      [] OTHER -> IF m \in c.known THEN c
                  ELSE IF Accepts(c, m) THEN DeltaOf(Begin(c, m), kind, m, event[3]) ELSE Prior(c, m)

SettleIdle(c) == IF c.idle THEN [CommitAll(c, Ids) EXCEPT !.idle = FALSE] ELSE c

Handle ==
    /\ wire # << >> /\ wire' = Tail(wire) /\ Becomes(SettleIdle(Handled(Chat, Head(wire))))
    /\ UNCHANGED <<producer, durable, live, handler>>

Next ==
    \/ Start \/ Delta \/ Settle \/ Call \/ Return \/ EndTurn
    \/ TakeLive \/ TakeDurable \/ Handle

Spec == Init /\ [][Next]_vars

-----------------------------------------------------------------------------
TypeOK ==
    /\ stream \in 0..Messages /\ active \in 0..Messages /\ known \subseteq Ids
    /\ late \subseteq known /\ (streamed => stream # None)

Place(entry) == IF Contains(transcript, entry) THEN SelectInSeq(transcript, LAMBDA e : e = entry) ELSE 0
Before(first, second) == Place(first) > 0 /\ Place(second) > 0 => Place(first) < Place(second)

\* The summaries of a message, its answer, then the tools; each of them once.
InOrder ==
    /\ IsInjective(transcript)
    /\ \A m \in Ids :
        /\ \A p \in Parts, kind \in {"text", "answer"} : Before(<<"summary", m, p>>, Event(kind, m))
        /\ Place(Event("text", m)) > 0 /\ Place(Event("answer", m)) > 0 =>
             Place(Event("answer", m)) = Place(Event("text", m)) + 1
        /\ Before(Event("answer", m), Event("tool", m))
        /\ \A n \in Ids : m < n => Before(Event("answer", m), Event("answer", n))

AtRest == at[2] = "over" /\ live = << >> /\ durable = << >> /\ wire = << >>

\* The transcript is in the order of the turn, each part of it once, and an
\* answer is not split by the reports of tools; at the end everything is in it
\* and nothing is left among the live rows, but for messages that were
\* announced after they had been shown (handleEvent, commitCompletedAssistants).
TranscriptIsWhole ==
    /\ InOrder
    /\ AtRest =>
        /\ known = Ids /\ stream = None /\ completed = << >> /\ tools = {} /\ outputs = {}
        /\ \A i \in DOMAIN rows : rows[i].message \in late

\* A late start of an assistant message does not recreate its activity.
LateStartIsIgnored == AtRest => rows = << >>
=============================================================================
