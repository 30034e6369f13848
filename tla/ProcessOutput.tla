---------------------------- MODULE ProcessOutput ----------------------------
(***************************************************************************)
(* What a command writes, and who gets it: the live stream of a call, the    *)
(* bounded buffer that a poll drains, the stored file and its end, the last  *)
(* lines.  A "managed" command outlives its first call; a "foreground" one   *)
(* is waited for, and stopped when its call is cancelled or takes too long.  *)
(* Both are a shell, a child in its process group and a daemon that has left *)
(* it, and all of them hold the pipe.                                       *)
(***************************************************************************)
EXTENDS Naturals, Sequences, SequencesExt, FiniteSets

CONSTANTS
    MaxBytes,   \* bound on what is written
    HeadBudget, TailBudget, \* persistentOutputBytes, in halves
    Budget,     \* MaxOutputBytes (even), and the tokens of a result
    MaxLines,   \* outputTailLines
    MaxCalls    \* bound on polls

VARIABLES
    kind, text,       \* the character of each byte
    alive, stubborn,  \* processes; those that ignore SIGTERM
    written, read,    \* bytes so far: bytes are numbered
    reading,          \* the pipe is read
    stored, broken,   \* the file; a write to it has failed
    buffer, taken,    \* since the last drain, which was at `taken`
    lines, pending, carriage,  \* lineTail
    call, stream,     \* "none", "collecting" or "over"; what the call has streamed
    since,            \* read when the call began
    results,
    waiter            \* steps of the goroutine that waits, or of run

pipe == <<written, read, reading>>
file == <<stored, broken>>
tail == <<lines, pending, carriage>>
calls == <<call, stream, since, results>>
vars == <<kind, text, alive, stubborn, pipe, file, buffer, taken, tail, calls, waiter>>

Group == {"shell", "child"}
Foreground == kind = "foreground"
Bytes(from, to) == [i \in 1..(to - from) |-> from + i]
Last_(s, n) == SubSeq(s, Len(s) - n + 1, Len(s))
Empty == [head |-> << >>, tail |-> << >>, omitted |-> 0]

Init ==
    /\ kind \in {"managed", "foreground"}
    /\ text \in [1..MaxBytes -> {"x", "lf", "cr"}] /\ (kind = "managed" => \A i \in 1..MaxBytes : text[i] = "x")
    /\ alive \in {{"shell"}, {"shell", "child"}, {"shell", "child", "daemon"}}
    /\ stubborn \in SUBSET {"child"} /\ stubborn \subseteq alive
    /\ (kind = "foreground" /\ \E i \in 1..MaxBytes : text[i] # "x") => alive = {"shell"}
    /\ written = 0 /\ read = 0 /\ reading = TRUE
    /\ stored = << >> /\ broken = FALSE /\ buffer = Empty /\ taken = 0
    /\ lines = << >> /\ pending = << >> /\ carriage = FALSE
    /\ call = "collecting" /\ stream = << >> /\ since = 0 /\ results = << >>
    /\ waiter = "waits"

-----------------------------------------------------------------------------
(* Processes.                                                              *)

Write ==
    /\ alive # {} /\ written < MaxBytes /\ written' = written + 1
    /\ UNCHANGED <<kind, text, alive, stubborn, read, reading, file, buffer, taken, tail, calls, waiter>>

\* A daemon stays.
Exit ==
    /\ \E p \in alive \ {"daemon"} : alive' = alive \ {p}
    /\ UNCHANGED <<kind, text, stubborn, pipe, file, buffer, taken, tail, calls, waiter>>

Terminated == alive \ (Group \ stubborn)
Killed == alive \ Group

-----------------------------------------------------------------------------
(* The reader.                                                             *)

\* headTailBuffer.push
Push_Resets(b, bytes) ==
    LET room == HeadBudget - Len(b.head)
        n == IF Len(bytes) < room THEN Len(bytes) ELSE room
        more == b.tail \o SubSeq(bytes, n + 1, Len(bytes))
        excess == IF Len(more) > TailBudget THEN Len(more) - TailBudget ELSE 0
    IN [head |-> b.head \o SubSeq(bytes, 1, n), tail |-> Last_(more, Len(more) - excess),
        omitted |-> IF excess > 0 THEN excess ELSE b.omitted]
Push(b, bytes) ==
    LET room == HeadBudget - Len(b.head)
        n == IF Len(bytes) < room THEN Len(bytes) ELSE room
        more == b.tail \o SubSeq(bytes, n + 1, Len(bytes))
        excess == IF Len(more) > TailBudget THEN Len(more) - TailBudget ELSE 0
    IN [head |-> b.head \o SubSeq(bytes, 1, n), tail |-> Last_(more, Len(more) - excess),
        omitted |-> b.omitted + excess]

\* lineTail.Write of a byte; a carriage return starts its line again, unless the
\* line ends with it.
TailByte(t, byte) ==
    LET kept == IF t.carriage /\ text[byte] # "lf" THEN << >> ELSE t.pending IN
    CASE text[byte] = "lf" -> [lines |-> Append(t.lines, kept), pending |-> << >>, carriage |-> FALSE]
      [] text[byte] = "cr" -> [t EXCEPT !.pending = kept, !.carriage = TRUE]
      [] OTHER -> [t EXCEPT !.pending = Append(kept, byte), !.carriage = FALSE]
Bounded(all) == IF Len(all) > MaxLines THEN Last_(all, MaxLines) ELSE all

\* The file may be full: a managed command goes on without what was not written,
\* a foreground one ends with an error and stores nothing behind it.
Stores(bytes) ==
    \/ ~(Foreground /\ broken) /\ stored' = stored \o bytes /\ UNCHANGED broken
    \/ ~Foreground /\ ~broken /\ broken' = TRUE /\ UNCHANGED stored
    \/ Foreground /\ broken' = TRUE /\ UNCHANGED stored

Read ==
    /\ reading /\ read < written
    /\ \E n \in 1..(written - read) :
        LET bytes == Bytes(read, read + n)
            t == FoldLeft(TailByte, [lines |-> lines, pending |-> pending, carriage |-> carriage], bytes)
        IN /\ read' = read + n /\ Stores(bytes)
           /\ stream' = IF call = "collecting" THEN stream \o bytes ELSE stream
           /\ IF Foreground
              THEN /\ lines' = Bounded(t.lines) /\ pending' = t.pending /\ carriage' = t.carriage
                   /\ UNCHANGED buffer
              ELSE buffer' = Push(buffer, bytes) /\ UNCHANGED tail
    /\ UNCHANGED <<kind, text, alive, stubborn, written, reading, taken, call, since, results, waiter>>

\* Nobody holds the pipe any more.
Eof ==
    /\ reading /\ alive = {} /\ read = written /\ reading' = FALSE
    /\ UNCHANGED <<kind, text, alive, stubborn, written, read, file, buffer, taken, tail, calls, waiter>>

-----------------------------------------------------------------------------
(* The end of a managed command: the rest of its group is terminated, and    *)
(* what the pipe still holds when it is closed is not read.                 *)

Waiter(from, to) == ~Foreground /\ waiter = from /\ waiter' = to
Quiet == UNCHANGED <<kind, text, stubborn, written, read, file, buffer, taken, tail, calls>>

Waited == "shell" \notin alive /\ Waiter("waits", "group") /\ alive' = Terminated /\ UNCHANGED reading /\ Quiet
GroupGone == alive \cap Group = {} /\ Waiter("group", "closes") /\ UNCHANGED <<alive, reading>> /\ Quiet
GroupKilled == Waiter("group", "closes") /\ alive' = Killed /\ UNCHANGED reading /\ Quiet
CloseReader == Waiter("closes", "finalizes") /\ reading' = FALSE /\ UNCHANGED alive /\ Quiet
Finalize == Waiter("finalizes", "finished") /\ UNCHANGED <<alive, reading>> /\ Quiet

\* terminatePersistent, whoever asks for it
Terminate == ~Foreground /\ waiter = "waits" /\ alive' \in {Terminated, Killed} /\ alive' # alive
             /\ UNCHANGED <<reading, waiter>> /\ Quiet

-----------------------------------------------------------------------------
(* Interacts of a managed command.                                             *)

Interacts(next) ==
    /\ ~Foreground /\ call' = next
    /\ UNCHANGED <<kind, text, alive, stubborn, pipe, file, tail, waiter>>

Call ==
    /\ call = "none" /\ Len(results) < MaxCalls /\ Interacts("collecting")
    /\ stream' = << >> /\ since' = read /\ UNCHANGED <<buffer, taken, results>>

\* persistentResult: with the rest of the budget in the middle, or at the end
Middle(s) == IF Len(s) <= Budget THEN s ELSE SubSeq(s, 1, Budget \div 2) \o Last_(s, Budget - (Budget \div 2))
Tail_(s) == IF Len(s) <= Budget THEN s ELSE Last_(s, Budget)
Result(more, shown, whole) ==
    [more |-> more, chunk |-> buffer, from |-> taken, to |-> read, shown |-> shown, truncated |-> ~whole,
     errors |-> broken]
Drain(result) ==
    buffer' = Empty /\ taken' = read /\ results' = Append(results, result) /\ UNCHANGED <<stream, since>>

Yield ==
    LET all == buffer.head \o buffer.tail IN
    /\ call = "collecting" /\ waiter # "finished" /\ Interacts("none")
    /\ Drain(Result(TRUE, Middle(all), buffer.omitted = 0 /\ Len(all) <= Budget))

Ends ==
    /\ call = "collecting" /\ waiter = "finished" /\ Interacts("over")
    /\ Drain(Result(FALSE, Tail_(stored), Len(stored) <= Budget))

\* The context of a call ends: it takes nothing.
GiveUp ==
    /\ call = "collecting" /\ Interacts(IF results = << >> THEN "over" ELSE "none")
    /\ UNCHANGED <<buffer, taken, stream, since, results>>

-----------------------------------------------------------------------------
(* A foreground command: it ends, or its call is cancelled or times out.    *)

Step(from, to) ==
    /\ Foreground /\ waiter = from /\ waiter' = to
    /\ UNCHANGED <<kind, text, stubborn, pipe, file, buffer, taken, tail, calls>>
Waitable == "shell" \notin alive /\ ~reading

CommandEnds == Waitable /\ Step("waits", "returns") /\ UNCHANGED alive
Stop == Step("waits", "terminates") /\ alive' = Terminated
\* terminate: the wait is over, and the group is watched, or the wait goes on.
StopEnds == Waitable /\ Step("terminates", "watches") /\ UNCHANGED alive
StopKills == Step("terminates", "reaps") /\ alive' = Killed
WatchEnds == alive \cap Group = {} /\ Step("watches", "returns") /\ UNCHANGED alive
WatchKills == Step("watches", "returns") /\ alive' = Killed
Reaped == Waitable /\ Step("reaps", "returns") /\ UNCHANGED alive

\* readStoredOutputWithBudget
Halves(s) == LET half == Budget \div 2 IN
    IF Len(s) <= Budget THEN [shown |-> s, omitted |-> 0]
    ELSE [shown |-> SubSeq(s, 1, half) \o Last_(s, half), omitted |-> Len(s) - Budget]

Return ==
    LET both == Halves(stored) IN
    /\ Foreground /\ waiter = "returns" /\ waiter' = "finished" /\ call' = "over"
    /\ results' = <<[Result(FALSE, both.shown, both.omitted = 0) EXCEPT !.chunk.omitted = both.omitted]>>
    /\ UNCHANGED <<kind, text, alive, stubborn, pipe, file, buffer, taken, tail, stream, since>>

Next ==
    \/ Write \/ Exit \/ Read \/ Eof
    \/ Waited \/ GroupGone \/ GroupKilled \/ CloseReader \/ Finalize \/ Terminate
    \/ Call \/ Yield \/ Ends \/ GiveUp
    \/ CommandEnds \/ Stop \/ StopEnds \/ StopKills \/ WatchEnds \/ WatchKills \/ Reaped \/ Return

Spec == Init /\ [][Next]_vars

-----------------------------------------------------------------------------
TypeOK ==
    /\ read \in 0..written /\ written \in 0..MaxBytes /\ taken \in 0..read
    /\ Len(buffer.head) <= HeadBudget /\ Len(buffer.tail) <= TailBudget /\ Len(lines) <= MaxLines

\* A chunk is all of what was read in between, or says how much is missing of it.
Covers(chunk, from, to) ==
    LET h == Len(chunk.head)  t == Len(chunk.tail) IN
    /\ h + chunk.omitted + t = to - from
    /\ chunk.head = Bytes(from, from + h) /\ chunk.tail = Bytes(to - t, to)
ChunksCover ==
    ~Foreground =>
        /\ Covers(buffer, taken, read)
        /\ \A i \in DOMAIN results :
            /\ Covers(results[i].chunk, results[i].from, results[i].to)
            /\ results[i].from = IF i = 1 THEN 0 ELSE results[i - 1].to

\* The file is what was read, in order, and what is shown of it is its end.
FileIsWhole ==
    /\ ~broken => stored = Bytes(0, read)
    /\ broken /\ Foreground => \E n \in 0..read : stored = Bytes(0, n)
    /\ \A i \in DOMAIN results :
        LET r == results[i] IN
        /\ r.truncated <=> (IF r.more THEN Len(r.shown) < r.to - r.from ELSE Len(r.shown) < Len(stored))
        /\ ~r.more /\ ~Foreground => IsSuffix(r.shown, stored)
        /\ Foreground => Len(r.shown) + r.chunk.omitted = Len(stored)

\* A call streams what is read while it lasts.
StreamIsWhole == call = "collecting" => stream = Bytes(since, read)

\* The last lines, as a terminal would show them.
LineAt(i) == {j \in 1..(i - 1) : text[j] = "lf"}
Shown(from, to) ==
    LET end == IF to > from /\ text[to] = "cr" THEN to - 1 ELSE to
        returns == {j \in (from + 1)..end : text[j] = "cr"}
        start == IF returns = {} THEN from ELSE CHOOSE j \in returns : \A k \in returns : k <= j
    IN Bytes(start, end)
LinesAreShown ==
    Foreground =>
        LET feeds == {j \in 1..read : text[j] = "lf"}
            From(j) == LET before == {k \in feeds : k < j} IN
                       IF before = {} THEN 0 ELSE CHOOSE k \in before : \A l \in before : l <= k
            ended == SetToSortSeq(feeds, <)
        IN /\ lines = Bounded([i \in 1..Len(ended) |-> Shown(From(ended[i]), ended[i] - 1)])
           /\ pending = Shown(From(read + 1), read)

\* No process of the group outlives the command that was stopped, or the result of
\* a managed one.
GroupEnds == waiter = "finished" => alive \cap Group = {}

\* Each byte that is read is in the file, in the stream of the call that lasts, and
\* in one chunk or counted in it (persistentOutputWriter, headTailBuffer, lineTail).
OutputAccounted ==
    TypeOK /\ ChunksCover /\ FileIsWhole /\ StreamIsWhole /\ LinesAreShown /\ GroupEnds

\* What a command wrote before it exited is in the file.  It is not: the pipe is
\* closed when the process is gone, whether or not its reader has emptied it.
NothingLost == waiter = "finished" /\ alive = {} => read = written
=============================================================================
