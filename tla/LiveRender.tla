----------------------------- MODULE LiveRender -----------------------------
(***************************************************************************)
(* The live region of the terminal.  Below the permanent transcript the    *)
(* renderer keeps rows it redraws: the unfinished end of a streamed answer, *)
(* what is going on, and the input.  Complete lines of the answer are      *)
(* promoted to the transcript; other reports are committed to it.  It      *)
(* writes relative to where it believes the cursor to be, on a terminal    *)
(* that may be resized in between, and a write may fail.                   *)
(***************************************************************************)
EXTENDS Naturals, Sequences, SequencesExt, FiniteSets

CONSTANTS
    Script,     \* the lines of each streamed message: "plain", "wide", "fence", "code"
    Extras,     \* what else is committed, in this order: "compact", "block", "user", "error"
    MaxRows,    \* rows of the live region, without the input
    MaxResizes, \* bound on changes of the terminal's width
    MaxFailures \* bound on writes that fail

VARIABLES
    width,      \* columns of the terminal: 1, or 2 as wide rows need
    resizes,
    failures,
    screen,     \* rows of the terminal, permanent ones first
    cursor,     \* its cursor: a row, and whether it is in that row's second half
    columns,    \* the renderer's columns
    rows,       \* the live rows it believes to be there
    place,      \* the cursor in them
    rendered,   \* columns they were drawn for
    stream,     \* the stream it has begun: id, or 0, and text
    committed,  \* "none", or kind of the last commit
    gap,        \* committedGap
    block,      \* streamBlock
    closed,
    message,    \* the message the chat streams
    units,      \* of its text: every line is two of them, the second is its end
    reports,    \* reports committed
    shown,      \* lines of each message in the transcript, in their order
    finals,     \* text they were settled with, or 0
    broken      \* messages whose stream was left open

terminal == <<width, resizes, failures, screen, cursor>>
layout == <<columns, rows, place, rendered, stream, committed, gap, block>>
renderer == <<layout, closed>>
chat == <<message, units, reports, shown, finals, broken>>
vars == <<terminal, renderer, chat>>

Messages == 1..Len(Script)
Row(kind, of, line, part, wide) == [kind |-> kind, of |-> of, line |-> line, part |-> part, wide |-> wide]
Gap == Row("gap", 0, 0, 0, FALSE)
NoStream == [id |-> 0, text |-> 0]

Init ==
    /\ width = 2 /\ resizes = 0 /\ failures = 0 /\ screen = << >>
    /\ cursor = [row |-> 1, far |-> FALSE]
    /\ columns = 2 /\ rows = << >> /\ place = [row |-> 1, far |-> FALSE] /\ rendered = 0
    /\ stream = NoStream /\ committed = "none" /\ gap = FALSE /\ block = FALSE /\ closed = FALSE
    /\ message = 1 /\ units = 0 /\ reports = 0
    /\ shown = [m \in Messages |-> << >>] /\ finals = [m \in Messages |-> 0] /\ broken = {}

-----------------------------------------------------------------------------
(* Layout.                                                                 *)

\* Text wraps at the renderer's columns.
Layout(kind, of, line, wide, w) ==
    IF wide /\ w = 1
    THEN <<Row(kind, of, line, 1, FALSE), Row(kind, of, line, 2, FALSE)>>
    ELSE <<Row(kind, of, line, 0, wide)>>

Sorted(m, S) == SelectSeq([i \in DOMAIN Script[m] |-> i], LAMBDA i : i \in S)
LinesOf(m, S, w) ==
    LET upto[i \in 0..Len(Script[m])] ==
          IF i = 0 THEN << >>
          ELSE upto[i - 1] \o (IF i \in S THEN Layout("stream", m, i, Script[m][i] = "wide", w) ELSE << >>)
    IN upto[Len(Script[m])]

Height(some, w) == Len(some) + (IF w = 1 THEN Len(SelectSeq(some, LAMBDA row : row.wide)) ELSE 0)

\* physicalCursorRow: rows above the cursor, as the terminal has reflowed them
RowsAbove_Logical(some, at, w) == at.row - 1
RowsAbove(some, at, w) ==
    Height(SubSeq(some, 1, at.row - 1), w)
    + (IF at.far /\ w = 1 /\ some[at.row].wide THEN 1 ELSE 0)

TailRows(some, n) == SubSeq(some, Len(some) - (IF n < Len(some) THEN n ELSE Len(some)) + 1, Len(some))

-----------------------------------------------------------------------------
(* The terminal, which reflows rows that do not fit.                       *)

Resize ==
    /\ resizes < MaxResizes /\ resizes' = resizes + 1 /\ width' = 3 - width
    /\ UNCHANGED <<failures, screen, cursor, renderer, chat>>

\* The hard row at a physical distance from the top, 0 if it is within a row.
Boundary(physical) ==
    LET at == {i \in 1..(Len(screen) + 1) : Height(SubSeq(screen, 1, i - 1), width) = physical}
    IN IF at = {} THEN 0 ELSE CHOOSE i \in at : TRUE

\* From `up` rows above the cursor, count rows are erased and the new ones are
\* written.  A row that is hit in its middle, or missed, is stale.
Stale == Row("stale", 0, 0, 0, FALSE)
Redrawn(up, count, new) ==
    LET here == Height(SubSeq(screen, 1, cursor.row - 1), width)
                + (IF cursor.far /\ width = 1 /\ cursor.row <= Len(screen) /\ screen[cursor.row].wide THEN 1 ELSE 0)
        top == IF up <= here THEN Boundary(here - up) ELSE 0
        rest == IF top = 0 THEN 0 ELSE Height(SubSeq(screen, top, Len(screen)), width)
    IN IF top = 0 THEN <<Stale>> \o new
       ELSE SubSeq(screen, 1, top - 1) \o new \o (IF rest > count THEN <<Stale>> ELSE << >>)

\* What erasing its live region takes, by the renderer's own account.
Up(w) == IF rows = << >> THEN 0 ELSE RowsAbove(rows, place, w)
Erased(new, w) == IF Height(rows, w) > Len(new) THEN Height(rows, w) ELSE Len(new)

\* Permanent rows, then the live ones with the cursor in them.
Write(permanent, live, at, w) ==
    /\ columns' = w /\ screen' = Redrawn(Up(w), Erased(permanent \o live, w), permanent \o live)
    /\ cursor' = [row |-> Len(screen') - Len(live) + at.row, far |-> at.far]
    /\ rows' = live /\ place' = at /\ UNCHANGED <<width, resizes, failures>>

\* A write that fails: what was decided for it is taken back.
Fails(w) ==
    /\ failures < MaxFailures /\ failures' = failures + 1 /\ columns' = w
    /\ UNCHANGED <<width, resizes, screen, cursor, rows, place, rendered, stream, committed, gap, block>>

Start == [row |-> 1, far |-> FALSE]

-----------------------------------------------------------------------------
(* The renderer.                                                           *)

\* Lines that are permanent once so many are complete: a fence holds its code
\* back until it is closed or the message ends, and stands for itself without any.
Opens(m, i) == Script[m][i] = "fence" /\ Cardinality({j \in 1..i : Script[m][j] = "fence"}) % 2 = 1
Released(m, n, complete) ==
    {i \in 1..n :
        CASE Script[m][i] = "code" -> complete \/ \E j \in i..n : Script[m][j] = "fence"
          [] Script[m][i] = "fence" ->
               Opens(m, i) /\ IF i = n THEN complete ELSE Script[m][i + 1] = "fence"
          [] OTHER -> TRUE}

\* advanceStream: the lines that become permanent, and those to preview
Lines(text) == text \div 2
Promoted(m, text, complete) ==
    Released(m, IF complete THEN (text + 1) \div 2 ELSE Lines(text), complete)
        \ (IF stream.id = m THEN Released(m, Lines(stream.text), FALSE) ELSE {})
Preview(m, text) ==
    Released(m, (text + 1) \div 2, TRUE) \ Released(m, Lines(text), FALSE)

\* Begins or continues the stream.
Accepts(m, text) == stream.id \in {0, m} /\ (stream.id = m => text >= stream.text)
Space(yes) == IF yes THEN <<Gap>> ELSE << >>

\* frame: the preview comes first, then activity, as far as there is room; the
\* input is not clipped.
Room(taken) == IF MaxRows > taken THEN MaxRows - taken ELSE 0
Frame(m, text, activity, wide) ==
    LET new == IF m = 0 THEN {} ELSE Promoted(m, text, FALSE)
        permanent == IF new = {} THEN << >> ELSE Space(~block /\ ~gap) \o LinesOf(m, new, width)
        preview == IF m = 0 THEN << >> ELSE TailRows(LinesOf(m, Preview(m, text), width), MaxRows)
        spaced == ~gap /\ ~block /\ new = {} /\ preview # << >>
        fitting == TailRows(preview, IF spaced THEN (IF MaxRows > 1 THEN MaxRows - 1 ELSE 1) ELSE MaxRows)
        busy == TailRows([i \in 1..activity |-> Row("activity", 0, i, 0, FALSE)],
                         Room(Len(fitting) + (IF spaced THEN 1 ELSE 0)))
        input == Layout("input", 0, 0, wide, width)
        live == Space(spaced \/ (~block /\ new = {} /\ ~gap /\ committed = "block"))
                  \o fitting \o busy \o input
        at == [row |-> Len(live), far |-> wide /\ width = 2]
    IN IF new = {} /\ rendered = width /\ rows = live /\ place = at
       THEN columns' = width /\ UNCHANGED <<terminal, rows, place, rendered>> /\ UNCHANGED <<block, gap, shown>>
       ELSE /\ Write(permanent, live, at, width) /\ rendered' = width
            /\ IF new = {} THEN UNCHANGED <<block, gap, shown>>
               ELSE /\ block' = TRUE /\ gap' = FALSE
                    /\ shown' = [shown EXCEPT ![m] = @ \o Sorted(m, new)]

\* A frame.  One that cannot be drawn ends the chat, which leaves the screen as it is.
Render ==
    /\ LET m == IF message \in Messages /\ units > 0 THEN message ELSE 0 IN
       /\ m # 0 => Accepts(m, units)
       /\ \/ /\ \E activity \in 0..MaxRows, wide \in BOOLEAN : Frame(m, units, activity, wide)
             /\ stream' = IF m = 0 THEN stream ELSE [id |-> m, text |-> units]
             /\ UNCHANGED committed
             /\ UNCHANGED closed
          \/ Fails(width) /\ closed' = TRUE /\ UNCHANGED shown
    /\ UNCHANGED <<message, units, reports, finals, broken>>

\* commitRowsRich: the live region is erased, and not drawn again.
Commit(some, kind, space) ==
    /\ Write(some, << >>, Start, width) /\ UNCHANGED rendered
    /\ committed' = kind /\ gap' = space

\* commitStream of the suffix, with a blank row before the answer and behind it
CommitStream(m, text) ==
    LET new == Promoted(m, text, TRUE) IN
    /\ Accepts(m, text)
    /\ Commit(Space(~block /\ ~gap) \o LinesOf(m, new, width) \o <<Gap>>, "block", TRUE)
    /\ stream' = NoStream /\ block' = FALSE
    /\ shown' = [shown EXCEPT ![m] = @ \o Sorted(m, new)] /\ finals' = [finals EXCEPT ![m] = text]

\* commitRowsAsRich, CommitUserMessage
CommitReport(n) ==
    LET kind == Extras[n]
        spaced == IF kind = "user" THEN ~gap
                  ELSE committed # "none" /\ ~gap /\ (committed = "block" \/ kind = "block")
    IN /\ Commit(Space(spaced) \o Layout(kind, 0, n, TRUE, width),
                 IF kind \in {"compact", "error"} THEN "compact" ELSE "block", FALSE)
       /\ UNCHANGED <<stream, block, shown>>

-----------------------------------------------------------------------------
(* The chat.                                                               *)

Delta ==
    /\ message \in Messages /\ units < 2 * Len(Script[message]) /\ units' = units + 1
    /\ UNCHANGED <<terminal, renderer, message, reports, shown, finals, broken>>

\* The message is settled: its text extends what was streamed, differs from it,
\* or was lost, when only its error is shown.
Settle ==
    /\ message \in Messages /\ UNCHANGED closed
    /\ \/ /\ \E text \in units..(2 * Len(Script[message])) : text > 0 /\ CommitStream(message, text)
          /\ message' = message + 1 /\ units' = 0 /\ UNCHANGED <<reports, broken>>
       \/ /\ stream.id = message /\ CommitStream(message, stream.text)
          /\ message' = message + 1 /\ units' = 0 /\ UNCHANGED <<reports, broken>>
       \/ /\ message' = message + 1 /\ units' = 0
          /\ broken' = IF stream.id = message THEN broken \cup {message} ELSE broken
          /\ UNCHANGED <<terminal, columns, rows, place, rendered, stream, committed, gap, block, reports, shown, finals>>
       \/ Fails(width) /\ UNCHANGED chat

\* Reports wait for an answer that is open, errors do not.
Report ==
    /\ reports < Len(Extras)
    /\ Extras[reports + 1] # "error" => units = 0
    /\ \/ CommitReport(reports + 1) /\ reports' = reports + 1
       \/ Fails(width) /\ UNCHANGED <<reports, shown>>
    /\ UNCHANGED <<closed, message, units, finals, broken>>

\* The only operation that does not ask for the columns first.
Close ==
    /\ closed' = TRUE
    /\ IF rows = << >> THEN UNCHANGED <<terminal, columns, rows, place>>
       ELSE Write(<< >>, << >>, Start, columns)
    /\ UNCHANGED <<rendered, stream, committed, gap, block, chat>>

Next == ~closed /\ (Resize \/ Delta \/ Render \/ Settle \/ Report \/ Close)

Spec == Init /\ [][Next]_vars

-----------------------------------------------------------------------------
TypeOK ==
    /\ width \in 1..2 /\ columns \in 1..2 /\ message \in 1..(Len(Script) + 1)
    /\ stream.id \in 0..Len(Script) /\ committed \in {"none", "compact", "block"}

Permanent == SubSeq(screen, 1, Len(screen) - Len(rows))

\* The screen is what the renderer believes.  (It may have been resized before
\* the last write of Close.)
ScreenAsBelieved ==
    (closed => columns = width) =>
        /\ Len(rows) <= Len(screen) /\ TailRows(screen, Len(rows)) = rows
        /\ \A i \in DOMAIN screen : screen[i].kind # "stale"
        /\ \A i \in DOMAIN Permanent : Permanent[i].kind \notin {"activity", "input"}

\* Every line of an answer once, in its order, whatever was promoted before.
LinesOnce ==
    \A m \in Messages :
        /\ \A i, j \in DOMAIN shown[m] : i < j => shown[m][i] < shown[m][j]
        /\ finals[m] > 0 => Range(shown[m]) = Released(m, (finals[m] + 1) \div 2, TRUE)

\* Two blank rows never follow each other, and a block does not touch another.
Spaced == broken = {} =>
    \A i \in 1..(Len(Permanent) - 1) :
        LET x == Permanent[i]  y == Permanent[i + 1] IN
        /\ ~(x.kind = "gap" /\ y.kind = "gap")
        /\ x.kind \in {"block", "user", "stream"} /\ y.kind \in {"compact", "block", "user", "stream"} =>
             x.kind = y.kind /\ x.of = y.of /\ (x.kind = "stream" \/ x.line = y.line)

LiveFits == Len(SelectSeq(rows, LAMBDA row : row.kind # "input")) <= MaxRows + 1

\* A stream is not refused unless the text of the one before was lost.
NotRefused == message \in Messages /\ units > 0 => broken # {} \/ Accepts(message, units)

\* What the terminal shows is what was committed to it, whole and once, and below
\* it the live region, through resizes and failed writes (promoteAndRedraw,
\* commitStream, buildRedrawRich).
ScreenIsTrue == TypeOK /\ ScreenAsBelieved /\ LinesOnce /\ Spaced /\ LiveFits /\ NotRefused
=============================================================================
