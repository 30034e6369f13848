------------------------------ MODULE Compaction ------------------------------
(***************************************************************************)
(* The compaction of a session's model history: Service.Compact with the   *)
(* plan and the safe cut, the transactions of its Repository, the repair   *)
(* of attempts whose process died, and the drain step that compacts        *)
(* between two provider requests.  A forced compaction of a client runs    *)
(* beside a drain: the handler looks for an active turn only before it     *)
(* begins.  A message's position stands for its sequence number.           *)
(***************************************************************************)
EXTENDS Naturals, Sequences, FiniteSetsExt

CONSTANTS
    Turn,            \* the caller that is the session's drain
    Clients,         \* callers of the compact handler, each makes one call
    RecentMessages,  \* complete messages a compaction prefers to retain
    MaxMessages      \* bound on the history

Callers == {Turn} \cup Clients

VARIABLES
    history,   \* messages: kind, status, number of calls, message a result is of
    epochs,    \* the history cutoffs of the compaction epochs, oldest first
    records,   \* completed compactions
    attempts,  \* the row of a caller's last attempt: "none", "active" or its end
    alive,     \* the process of a caller lives (clients may be of another one)
    kpc, plan, status,  \* per caller: step, plan, status of the last call
    dpc,       \* step of the drain
    epoch,     \* the epoch the drain holds
    request,   \* the messages of the drain's request: first and last position
    rounds     \* compactions of the drain for the request at hand

calls == <<kpc, plan, status>>
vars == <<history, epochs, records, attempts, alive, calls, dpc, epoch, request, rounds>>

NoPlan == [source |-> 0, from |-> 0, cut |-> 0]

Init ==
    /\ history = << >> /\ epochs = <<1>> /\ records = {}
    /\ attempts = [c \in Callers |-> "none"] /\ alive = [c \in Callers |-> TRUE]
    /\ kpc = [c \in Callers |-> "idle"] /\ plan = [c \in Callers |-> NoPlan]
    /\ status = [c \in Callers |-> "none"]
    /\ dpc = "idle" /\ epoch = 1 /\ request = <<1, 0>> /\ rounds = 0

-----------------------------------------------------------------------------
(* The history, as the drain writes it.                                    *)

Message(kind, st, of) == [kind |-> kind, status |-> st, calls |-> 0, of |-> of]
ResultsOf(i) == {j \in 1..Len(history) : history[j].of = i}
Unanswered == {i \in 1..Len(history) : Cardinality(ResultsOf(i)) < history[i].calls}
Streaming == \E i \in 1..Len(history) : history[i].status = "active"

Grow(message) ==
    /\ Len(history) < MaxMessages /\ history' = Append(history, message)
    /\ UNCHANGED <<epochs, records, attempts, alive, calls, dpc, epoch, request, rounds>>

\* A drain first closes what an earlier one left open, then promotes prompts,
\* also after it has read the epoch.
Promote ==
    /\ dpc \in {"idle", "history"} /\ ~Streaming /\ Unanswered = {}
    /\ Grow(Message("user", "complete", 0))

\* The provider's message is a text, or calls up to two tools; it ends
\* complete, or interrupted by a cancellation or a repair after a crash.
CloseAssistant ==
    /\ dpc = "idle"
    /\ \E i \in 1..Len(history), st \in {"complete", "interrupted"}, n \in 0..2 :
          /\ history[i].status = "active"
          /\ history' = [history EXCEPT ![i].status = st, ![i].calls = n]
    /\ UNCHANGED <<epochs, records, attempts, alive, calls, dpc, epoch, request, rounds>>

AppendResult ==
    /\ dpc = "idle" /\ \E i \in Unanswered : Grow(Message("result", "complete", i))

-----------------------------------------------------------------------------
(* SafeCut on the messages from a position on.                             *)

\* The last position that leaves `recent` complete messages behind it.
Preferred(first, recent) ==
    {i \in first..Len(history) :
        Cardinality({j \in i..Len(history) : history[j].status = "complete"}) = recent
        /\ history[i].status = "complete"}

\* A message that is not complete stays, and so does all behind it.
BeforeOpen(first, i) ==
    Min({i} \cup {j \in first..i : history[j].status # "complete"})

\* A call stays with its results.  Calls are answered before the next prompt,
\* so that groups do not overlap and the order they are visited in is immaterial.
BeforeGroups(first, i) ==
    Min({i} \cup {g \in first..(i - 1) :
            history[g].calls > 0 /\ (g \in Unanswered \/ \E j \in ResultsOf(g) : i <= j)})

SafeCut(first, recent) ==
    {i \in {BeforeGroups(first, BeforeOpen(first, p)) : p \in Preferred(first, recent)} :
        first < i /\ i <= Len(history)}

\* The plan: the preferred cut, or for a forced compaction the latest one.
Cuts(first, force) ==
    LET preferred == SafeCut(first, RecentMessages)
    IN  IF preferred = {} /\ force /\ RecentMessages > 1 /\ Len(history) - first + 1 > 2
        THEN SafeCut(first, 1) ELSE preferred

-----------------------------------------------------------------------------
(* Compact.                                                                *)

Step(c, from, to) == alive[c] /\ kpc[c] = from /\ kpc' = [kpc EXCEPT ![c] = to]
End(c, from, st) == Step(c, from, "done") /\ status' = [status EXCEPT ![c] = st]

\* The state is loaded and planned for: under budget or without a safe cut
\* nothing is done.
Load(c, force) ==
    /\ UNCHANGED <<history, epochs, records, attempts, alive, epoch, request>>
    /\ LET first == epochs[Len(epochs)]
       IN  \/ /\ ~force \/ Cuts(first, force) = {}
              /\ End(c, "idle", "skipped") /\ UNCHANGED plan
           \/ \E cut \in Cuts(first, force) :
                 /\ Step(c, "idle", "planned") /\ UNCHANGED status
                 /\ plan' = [plan EXCEPT ![c] =
                       [source |-> Len(epochs), from |-> first, cut |-> cut]]

Completed(p) == p \in records

FindCompleted(c) ==
    /\ IF Completed(plan[c]) THEN End(c, "planned", "complete")
       ELSE Step(c, "planned", "begin") /\ UNCHANGED status
    /\ UNCHANGED <<history, epochs, records, attempts, alive, plan, dpc, epoch, request, rounds>>

Begin(c) ==
    /\ \/ Step(c, "begin", "summarize") /\ attempts' = [attempts EXCEPT ![c] = "active"]
          /\ UNCHANGED status
       \/ End(c, "begin", "failed") /\ UNCHANGED attempts
    /\ UNCHANGED <<history, epochs, records, alive, plan, dpc, epoch, request, rounds>>

\* The summarizer answers, or fails, or the context ends.
Summarize(c) ==
    /\ \/ Step(c, "summarize", "complete")
       \/ Step(c, "summarize", "fail")
    /\ UNCHANGED <<history, epochs, records, attempts, alive, plan, status, dpc, epoch, request, rounds>>

\* One transaction: the attempt is still active and the source epoch is still
\* the current one; it writes the epoch, the record and the attempt's end.
Complete(c) ==
    /\ \/ /\ attempts[c] = "active" /\ plan[c].source = Len(epochs)
          /\ ~Completed(plan[c])
          /\ End(c, "complete", "complete")
          /\ epochs' = Append(epochs, plan[c].cut) /\ records' = records \cup {plan[c]}
          /\ attempts' = [attempts EXCEPT ![c] = "completed"]
       \/ /\ Step(c, "complete", "lookup") /\ UNCHANGED <<status, epochs, records, attempts>>
    /\ UNCHANGED <<history, alive, plan, dpc, epoch, request, rounds>>

\* After a refused completion another call's record of the same range counts.
Lookup(c) ==
    /\ \/ /\ Completed(plan[c]) /\ End(c, "lookup", "complete")
          /\ attempts' = [attempts EXCEPT ![c] = IF @ = "active" THEN "failed" ELSE @]
       \/ Step(c, "lookup", "fail") /\ UNCHANGED <<status, attempts>>
    /\ UNCHANGED <<history, epochs, records, alive, plan, dpc, epoch, request, rounds>>

\* Marking the attempt may fail too and leaves it active.
Fail(c) ==
    /\ End(c, "fail", "failed")
    /\ \/ attempts' = [attempts EXCEPT ![c] = IF @ = "active" THEN "failed" ELSE @]
       \/ UNCHANGED attempts
    /\ UNCHANGED <<history, epochs, records, alive, plan, dpc, epoch, request, rounds>>

ClientCompacts(c) == c \in Clients /\ Load(c, TRUE) /\ UNCHANGED <<dpc, rounds>>

\* A process that owns a client's call stops; the session's next binding
\* interrupts attempts whose owner is known dead.
Crash(c) ==
    /\ c \in Clients /\ alive[c] /\ kpc[c] \notin {"idle", "done"}
    /\ alive' = [alive EXCEPT ![c] = FALSE]
    /\ UNCHANGED <<history, epochs, records, attempts, calls, dpc, epoch, request, rounds>>

RepairActive(c) ==
    /\ ~alive[c] /\ attempts[c] = "active"
    /\ attempts' = [attempts EXCEPT ![c] = "interrupted"]
    /\ UNCHANGED <<history, epochs, records, alive, calls, dpc, epoch, request, rounds>>

-----------------------------------------------------------------------------
(* The drain between two provider requests.                                *)

ReadEpoch ==
    /\ dpc = "idle" /\ ~Streaming /\ Unanswered = {} /\ Len(history) < MaxMessages
    /\ history # << >> /\ epoch' = Len(epochs) /\ dpc' = "history" /\ rounds' = 0
    /\ UNCHANGED <<history, epochs, records, attempts, alive, calls, request>>

ListModelHistory(next) ==
    /\ request' = <<epochs[epoch], Len(history)>> /\ dpc' = next
    /\ UNCHANGED <<history, epochs, records, attempts, alive, calls, epoch, rounds>>

ReadHistory == dpc = "history" /\ ListModelHistory("compact")

\* The drain compacts when the estimate says so; and once more, by force, after
\* an overflow that the provider reported before it answered.
DrainCompacts ==
    /\ dpc = "compact" /\ dpc' = "compacting" /\ rounds' = rounds + 1
    /\ Load(Turn, rounds = 1)

\* After a completed compaction the epoch and the history are read again; one
\* that was skipped leaves the request as it is, or the overflow as the turn's
\* error; a failed one ends the turn.
Compacted ==
    /\ dpc = "compacting" /\ kpc[Turn] = "done"
    /\ kpc' = [kpc EXCEPT ![Turn] = "idle"]
    /\ dpc' = CASE status[Turn] = "complete" -> "reread"
                [] status[Turn] = "skipped" /\ rounds = 1 -> "send" [] OTHER -> "idle"
    /\ UNCHANGED <<history, epochs, records, attempts, alive, plan, status, epoch, request, rounds>>

RereadEpoch_KeepsHistory ==
    /\ dpc = "reread" /\ epoch' = Len(epochs) /\ dpc' = "send"
    /\ UNCHANGED <<history, epochs, records, attempts, alive, calls, request, rounds>>

RereadEpoch ==
    /\ dpc = "reread" /\ epoch' = Len(epochs) /\ dpc' = "rehistory"
    /\ UNCHANGED <<history, epochs, records, attempts, alive, calls, request, rounds>>

RereadHistory == dpc = "rehistory" /\ ListModelHistory("send")

\* The request goes out: an overflow leads to a forced compaction, anything
\* else to an assistant message.
Send ==
    /\ dpc = "send"
    /\ \/ dpc' = "compact" /\ rounds = 1 /\ UNCHANGED history
       \/ dpc' = "idle" /\ rounds = 2 /\ UNCHANGED history
       \/ dpc' = "idle" /\ history' = Append(history, Message("assistant", "active", 0))
    /\ UNCHANGED <<epochs, records, attempts, alive, calls, epoch, request, rounds>>

Next ==
    \/ Promote \/ CloseAssistant \/ AppendResult
    \/ ReadEpoch \/ ReadHistory \/ DrainCompacts \/ Compacted
    \/ RereadEpoch \/ RereadHistory \/ Send
    \/ \E c \in Callers :
          \/ ClientCompacts(c) \/ FindCompleted(c) \/ Begin(c) \/ Summarize(c)
          \/ Complete(c) \/ Lookup(c) \/ Fail(c) \/ Crash(c) \/ RepairActive(c)

Spec == Init /\ [][Next]_vars

-----------------------------------------------------------------------------
\* No request of the drain has a tool result without its call, whatever was
\* compacted meanwhile (SafeCut: "backs up over tool-call groups").
NoSplitCall ==
    dpc = "send" =>
        \A i \in request[1]..request[2] :
            history[i].kind = "result" => history[i].of >= request[1]

\* A request carries every message once: what the epoch's summaries cover ends
\* where its messages begin (drainOnce reads epoch and history again).
RequestWhole == dpc = "send" => request = <<epochs[epoch], Len(history)>>

\* The summaries cover the history without a gap or an overlap: each epoch but
\* the first comes from one record, which starts where the epoch before began.
CoveredOnce ==
    /\ Cardinality(records) = Len(epochs) - 1
    /\ \A r \in records :
          /\ r.source < Len(epochs) /\ r.from = epochs[r.source]
          /\ r.cut = epochs[r.source + 1] /\ r.from < r.cut
          /\ \A i \in r.from..(r.cut - 1) : history[i].status = "complete"

\* Epoch, summaries and messages of a request fit together (Service.Compact,
\* drainOnce).
SummariesFit == NoSplitCall /\ RequestWhole /\ CoveredOnce
=============================================================================
