---------------------------- MODULE SessionDrain ----------------------------
(***************************************************************************)
(* One session's durable history and the drain that extends it             *)
(* (session/service.go, session/runtime.go, drainOnce and executeTools in  *)
(* agent/agent_session.go).                                                *)
(*                                                                         *)
(* A drain promotes admitted prompts, calls the provider, records the tool *)
(* calls it asked for, runs them and appends their results, until nothing  *)
(* is left to do.  Each action is one transaction of the session's store   *)
(* or one step of a goroutine between two; the process may crash between   *)
(* any two steps, a store call may fail, and the turn may be cancelled at  *)
(* any time.  AgentTurn shows that one drain runs at a time.  Compaction   *)
(* is left out: the whole history is sent to the provider.                 *)
(***************************************************************************)
EXTENDS Integers, Sequences, FiniteSets, SequencesExt

CONSTANTS Prompts,       \* idempotency keys of user prompts
          Notices,       \* items of a monitored queue
          Observer,      \* a status observer is configured
          MaxRounds,     \* profile.MaxTurns: provider turns of one drain
          MaxTools,      \* MaxConcurrentTools
          MaxBatch,      \* bound: tool calls of one provider turn
          MaxCalls,      \* bound: tool calls in all
          MaxAssistants, \* bound: provider turns in all
          MaxCrashes,    \* bound: process restarts
          None

ASSUME DrainAssumption ==
    /\ IsFiniteSet(Prompts) /\ IsFiniteSet(Notices)
    /\ Prompts \cap Notices = {}
    /\ None \notin Prompts \cup Notices
    /\ Observer \in BOOLEAN
    /\ {MaxRounds, MaxTools} \subseteq Nat \ {0}
    /\ {MaxBatch, MaxCalls, MaxAssistants, MaxCrashes} \subseteq Nat

Calls == 1..MaxCalls

VARIABLES
    admitted,   \* session_input in admission order
    promoted,   \* the prompts whose input is promoted
    queue,      \* items of the monitored queue
    history,    \* session_message in sequence order
    calls,      \* status of each row of session_tool_call
    statusDue,  \* StatusPromptPending
    pc,         \* where the drain is
    cancelled,  \* its context is done
    cutoff,     \* LatestSequence, as a position in admitted
    fresh,      \* PromoteSteers returned messages
    rounds,     \* provider turns of this drain
    batch,      \* calls of this provider turn, in order
    tool,       \* per call of the batch: its goroutine in executeTools
    answered,   \* results of the batch appended so far
    ran,        \* per call: how often its tool was executed
    crashes     \* process restarts so far

durable == <<admitted, promoted, queue, history, calls, statusDue>>
volatile == <<cancelled, cutoff, fresh, rounds, batch, tool, answered>>
counters == <<ran, crashes>>
vars == <<durable, pc, volatile, counters>>

Places == {"idle", "repair", "cutoff", "promote", "ready", "status", "provide",
    "stream", "record", "tools", "cleanup", "results", "drained", "notified",
    "renotified", "goal"}

Row == [role: {"user"}, of: Prompts \cup Notices \cup {None}]
    \cup [role: {"system"}]
    \cup [role: {"assistant"}, status: {"active", "complete", "error", "interrupted"},
          text: BOOLEAN, calls: Seq(Calls)]
    \cup [role: {"tool"}, of: Calls]

\* The values of a function of numbers in the order of its arguments.
InOrder(f) ==
    [j \in 1..Cardinality(DOMAIN f) |->
        f[CHOOSE i \in DOMAIN f : Cardinality({h \in DOMAIN f : h <= i}) = j]]

User(x) == [role |-> "user", of |-> x]
Result(k) == [role |-> "tool", of |-> k]
Assistant(status, text, ks) ==
    [role |-> "assistant", status |-> status, text |-> text, calls |-> ks]

Live == {"pending", "running"}
Terminal == {"settled", "interrupted"}

TypeOK ==
    /\ admitted \in Seq(Prompts) /\ promoted \subseteq Prompts
    /\ queue \in Seq(Notices)
    /\ history \in Seq(Row)
    /\ calls \in [Calls -> Live \cup Terminal \cup {"none"}]
    /\ statusDue \in BOOLEAN
    /\ pc \in Places
    /\ cancelled \in BOOLEAN /\ fresh \in BOOLEAN
    /\ cutoff \in Nat /\ rounds \in 0..MaxRounds
    /\ batch \in Seq(Calls) /\ answered \in 0..Len(batch)
    /\ tool \in [Calls -> {"none", "waiting", "started", "executed", "done", "lost"}]
    /\ ran \in [Calls -> Nat]
    /\ crashes \in 0..MaxCrashes

Init ==
    /\ admitted = << >> /\ promoted = {} /\ queue = << >> /\ history = << >>
    /\ calls = [k \in Calls |-> "none"]
    /\ statusDue = TRUE
    /\ pc = "idle" /\ cancelled = FALSE /\ cutoff = 0 /\ fresh = FALSE
    /\ rounds = 0 /\ batch = << >> /\ answered = 0
    /\ tool = [k \in Calls |-> "none"]
    /\ ran = [k \in Calls |-> 0]
    /\ crashes = 0

-----------------------------------------------------------------------------
(* The model history: ListModelHistory and repairToolHistory.              *)

Rows(role) == {i \in DOMAIN history : history[i].role = role}
ActiveRows == {i \in Rows("assistant") : history[i].status = "active"}
HasResult(k) == \E i \in Rows("tool") : history[i].of = k

\* Calls that stay in the request: answered ones, and those that can be.
Kept(k) == HasResult(k) \/ calls[k] \in Terminal

\* What a durable row contributes: an assistant keeps its answerable calls and
\* is followed by the results that were never appended; rows without content
\* are dropped.
Projection(row) ==
    IF row.role # "assistant" THEN <<row>>
    ELSE IF row.status = "active" THEN << >>
    ELSE LET kept == SelectSeq(row.calls, Kept)
             missing == SelectSeq(kept, LAMBDA k : ~HasResult(k))
             message == Assistant("complete", row.text, kept)
         IN (IF row.text \/ kept # << >> THEN <<message>> ELSE << >>)
              \o [i \in DOMAIN missing |-> Result(missing[i])]

ModelHistory_Unrepaired ==
    SelectSeq(history, LAMBDA row : row.role # "assistant" \/ row.status # "active")

ModelHistory == FlattenSeq([i \in DOMAIN history |-> Projection(history[i])])

\* Someone waits for the assistant: the drain's own test, ...
EndsIn(roles) ==
    ModelHistory # << >> /\ Last(ModelHistory).role \in roles
Ready == fresh \/ EndsIn({"user", "tool"})

Append1(row) == history' = Append(history, row)

-----------------------------------------------------------------------------
(* Around the drain.                                                       *)

\* Admit of a new idempotency key; a known one changes nothing.
Admit(m) ==
    /\ ~Contains(admitted, m)
    /\ admitted' = Append(admitted, m)
    /\ UNCHANGED <<promoted, queue, history, calls, statusDue, pc, volatile, counters>>

Noticed(n) == \E i \in Rows("user") : history[i].of = n

\* Somebody enqueues an item.
Offer(n) ==
    /\ ~Contains(queue, n) /\ ~Noticed(n)
    /\ queue' = Append(queue, n)
    /\ UNCHANGED <<admitted, promoted, history, calls, statusDue, pc, volatile, counters>>

Forget ==
    /\ cancelled' = FALSE /\ cutoff' = 0 /\ fresh' = FALSE /\ rounds' = 0
    /\ batch' = << >> /\ answered' = 0
    /\ tool' = [k \in Calls |-> "none"]

Begin ==
    /\ pc = "idle"
    /\ pc' = "repair"
    /\ UNCHANGED <<durable, volatile, counters>>

Cancel ==
    /\ pc # "idle" /\ ~cancelled
    /\ cancelled' = TRUE
    /\ UNCHANGED <<durable, pc, cutoff, fresh, rounds, batch, tool, answered, counters>>

\* The drain returns, with an error unless it was drained.
End == pc' = "idle" /\ Forget

\* The process stops; only the store survives.
Crash ==
    /\ crashes < MaxCrashes
    /\ crashes' = crashes + 1
    /\ End
    /\ UNCHANGED <<durable, ran>>

\* A step before or between transactions fails: reading the store, preparing
\* the request, compaction, goal accounting, a cancelled context.
DrainFails ==
    /\ pc \in {"repair", "cutoff", "promote", "ready", "status", "provide",
               "record", "results", "notified", "renotified", "goal", "drained"}
    /\ End
    /\ UNCHANGED <<durable, counters>>

-----------------------------------------------------------------------------
(* drainOnce.                                                              *)

\* RepairActive settles what a stopped process left active.
Repair ==
    /\ pc = "repair"
    /\ calls' = [k \in Calls |-> IF calls[k] \in Live THEN "interrupted" ELSE calls[k]]
    /\ history' = [i \in DOMAIN history |->
                     IF i \in ActiveRows
                     THEN Assistant("interrupted", FALSE, << >>) ELSE history[i]]
    /\ pc' = "cutoff" /\ rounds' = 0
    /\ UNCHANGED <<admitted, promoted, queue, statusDue, cancelled, cutoff, fresh,
                   batch, tool, answered, counters>>

ReadCutoff ==
    /\ pc = "cutoff" /\ ~cancelled
    /\ cutoff' = Len(admitted)
    /\ pc' = "promote"
    /\ UNCHANGED <<durable, cancelled, fresh, rounds, batch, tool, answered, counters>>

\* The admitted prompts up to n that are still to be promoted, by position.
Unpromoted(n) == [i \in {k \in 1..n : admitted[k] \notin promoted} |-> admitted[i]]

Promote_Again ==
    LET taken == SubSeq(admitted, 1, cutoff)
    IN
    /\ pc = "promote"
    /\ promoted' = promoted \cup ToSet(taken)
    /\ history' = history \o [i \in DOMAIN taken |-> User(taken[i])]
    /\ fresh' = (taken # << >>) /\ cutoff' = 0 /\ pc' = "ready"
    /\ UNCHANGED <<admitted, queue, calls, statusDue, counters,
                   cancelled, rounds, batch, tool, answered>>

\* PromoteSteers: one transaction, which may commit and still report an error.
Promote ==
    LET taken == InOrder(Unpromoted(cutoff))
    IN
    /\ pc = "promote"
    /\ promoted' = promoted \cup ToSet(taken)
    /\ history' = history \o [i \in DOMAIN taken |-> User(taken[i])]
    /\ UNCHANGED <<admitted, queue, calls, statusDue, counters>>
    /\ \/ /\ fresh' = (taken # << >>)
          /\ cutoff' = 0
          /\ pc' = "ready"
          /\ UNCHANGED <<cancelled, rounds, batch, tool, answered>>
       \/ taken # << >> /\ End

CheckReady_FreshOnly ==
    /\ pc = "ready"
    /\ pc' = IF ~fresh THEN "drained" ELSE "provide"
    /\ UNCHANGED <<durable, volatile, counters>>

\* Nobody admits inputs for queue delivery, so PromoteNextQueue finds none and a
\* drain that is not ready is over.
CheckReady ==
    /\ pc = "ready"
    /\ pc' = IF ~Ready THEN "drained"
             ELSE IF rounds = 0 /\ Observer /\ statusDue THEN "status" ELSE "provide"
    /\ UNCHANGED <<durable, volatile, counters>>

\* The status prompt, unless the observer has nothing to say.
AppendStatus ==
    /\ pc = "status"
    /\ pc' = "provide"
    /\ \/ Append1([role |-> "system"]) /\ statusDue' = FALSE
       \/ UNCHANGED <<history, statusDue>>
    /\ UNCHANGED <<admitted, promoted, queue, calls, volatile, counters>>

\* StartAssistant and the request.
StartAssistant ==
    /\ pc = "provide"
    /\ Cardinality(Rows("assistant")) < MaxAssistants
    /\ rounds' = rounds + 1
    /\ Append1(Assistant("active", FALSE, << >>))
    /\ pc' = "stream"
    /\ UNCHANGED <<admitted, promoted, queue, calls, statusDue, cancelled, cutoff,
                   fresh, batch, tool, answered, counters>>

\* FinishAssistant for the active row.
FinishAs(row) ==
    history' = [i \in DOMAIN history |-> IF i \in ActiveRows THEN row ELSE history[i]]

\* Call IDs the provider has used.
Used == Cardinality(UNION {ToSet(history[i].calls) : i \in Rows("assistant")})

NewBatch(n) == [i \in 1..n |-> Used + i]
BatchSizes == {n \in 0..MaxBatch : Used + n <= MaxCalls}

StreamCompletes(n, text) ==
    /\ pc = "stream" /\ ~cancelled
    /\ text \/ n > 0
    /\ FinishAs(Assistant("complete", text, NewBatch(n)))
    /\ batch' = NewBatch(n)
    /\ pc' = "record"
    /\ UNCHANGED <<admitted, promoted, queue, calls, statusDue, cancelled, cutoff,
                   fresh, rounds, tool, answered, counters>>

\* The provider fails or the turn is cancelled: the row is closed on a cleanup
\* context, without the calls of a stream that broke off and with those of one
\* that was complete, or the cleanup fails too and the row stays active.
StreamFails(n, text) ==
    /\ pc = "stream"
    /\ \/ n = 0 /\ FinishAs(Assistant("error", text, << >>))
       \/ cancelled /\ FinishAs(Assistant("interrupted", text, NewBatch(n)))
       \/ n = 0 /\ UNCHANGED history
    /\ End
    /\ UNCHANGED <<admitted, promoted, queue, calls, statusDue, counters>>

\* AddToolCall for each call in turn, ...
AddToolCall ==
    /\ pc = "record"
    /\ \E i \in DOMAIN batch :
         /\ calls[batch[i]] = "none"
         /\ \A j \in 1..(i - 1) : calls[batch[j]] # "none"
         /\ calls' = [calls EXCEPT ![batch[i]] = "pending"]
    /\ UNCHANGED <<admitted, promoted, queue, history, statusDue, pc, volatile, counters>>

\* ... then their execution, an error if this provider turn had to be the last
\* (MaxTurns, or the goal ended during earlier tools), or the end of the drain.
Recorded ==
    /\ pc = "record"
    /\ \A i \in DOMAIN batch : calls[batch[i]] # "none"
    /\ \/ batch = << >> /\ pc' = "drained" /\ UNCHANGED volatile
       \/ batch # << >> /\ (rounds = MaxRounds \/ rounds > 1) /\ End
       \/ /\ batch # << >> /\ rounds < MaxRounds
          /\ pc' = "tools"
          /\ tool' = [k \in Calls |-> IF Contains(batch, k) THEN "waiting" ELSE "none"]
          /\ answered' = 0
          /\ UNCHANGED <<cancelled, cutoff, fresh, rounds, batch>>
    /\ UNCHANGED <<durable, counters>>

-----------------------------------------------------------------------------
(* executeTools.                                                           *)

ToolGoes(k, from, to) == pc = "tools" /\ tool[k] = from /\ tool' = [tool EXCEPT ![k] = to]

KeptByTools == <<admitted, promoted, queue, history, statusDue, pc, cancelled,
    cutoff, fresh, rounds, batch, answered, crashes>>

StartTool_Unrecorded(k) ==
    /\ Cardinality({j \in Calls : tool[j] \in {"started", "executed"}}) < MaxTools
    /\ ToolGoes(k, "waiting", "started")
    /\ UNCHANGED <<KeptByTools, calls, ran>>

StartTool(k) ==
    /\ Cardinality({j \in Calls : tool[j] \in {"started", "executed"}}) < MaxTools
    /\ ToolGoes(k, "waiting", "started")
    /\ calls[k] = "pending"
    /\ calls' = [calls EXCEPT ![k] = "running"]
    /\ UNCHANGED <<KeptByTools, ran>>

RunTool(k) ==
    /\ ToolGoes(k, "started", "executed")
    /\ ran' = [ran EXCEPT ![k] = @ + 1]
    /\ UNCHANGED <<KeptByTools, calls>>

SettleTool(k) ==
    /\ ToolGoes(k, "executed", "done")
    /\ calls[k] \in Live
    /\ calls' = [calls EXCEPT ![k] = IF cancelled THEN "interrupted" ELSE "settled"]
    /\ UNCHANGED <<KeptByTools, ran>>

\* A call is cancelled before its turn, or its row cannot be written.
LoseTool(k) ==
    /\ \/ ToolGoes(k, "waiting", "lost")
       \/ ToolGoes(k, "executed", "lost")
    /\ UNCHANGED <<KeptByTools, calls, ran>>

ToolsDone ==
    /\ pc = "tools"
    /\ \A i \in DOMAIN batch : tool[batch[i]] \in {"done", "lost"}
    /\ \/ cancelled /\ pc' = "cleanup" /\ UNCHANGED volatile
       \/ ~cancelled /\ (\E k \in Calls : tool[k] = "lost") /\ End
       \/ /\ ~cancelled /\ \A k \in Calls : tool[k] # "lost"
          /\ pc' = "results"
          /\ UNCHANGED volatile
    /\ UNCHANGED <<durable, counters>>

\* After a cancellation the unsettled calls are settled on a cleanup context,
\* which may fail as well, ...
CleanUp(k) ==
    /\ pc = "cleanup" /\ tool[k] = "lost"
    /\ tool' = [tool EXCEPT ![k] = "done"]
    /\ \/ calls[k] \in Live /\ calls' = [calls EXCEPT ![k] = "interrupted"]
       \/ UNCHANGED calls
    /\ UNCHANGED <<KeptByTools, ran>>

\* ... and all calls are answered in order, on the cleanup context (where one
\* failure does not stop the rest) or on the turn's.
AppendResult ==
    /\ \/ pc = "results"
       \/ pc = "cleanup" /\ \A k \in Calls : tool[k] # "lost"
    /\ answered < Len(batch)
    /\ \/ Append1(Result(batch[answered + 1]))
       \/ pc = "cleanup" /\ UNCHANGED history
    /\ answered' = answered + 1
    /\ UNCHANGED <<admitted, promoted, queue, calls, statusDue, pc, cancelled,
                   cutoff, fresh, rounds, batch, tool, counters>>

Answered ==
    /\ answered = Len(batch)
    /\ \/ /\ pc = "results"
          /\ pc' = "cutoff"
          /\ batch' = << >> /\ answered' = 0
          /\ tool' = [k \in Calls |-> "none"]
          /\ fresh' = FALSE
          /\ UNCHANGED <<cancelled, cutoff, rounds>>
       \/ /\ pc = "cleanup" /\ \A k \in Calls : tool[k] # "lost"
          /\ End
    /\ UNCHANGED <<durable, counters>>

-----------------------------------------------------------------------------
(* After a successful drain: prepareQueueNotification, prepareContinuation.*)

PendingInputs == \E i \in DOMAIN admitted : admitted[i] \notin promoted

\* An assistant row follows the notice: it needs no processing.
Responded(n) ==
    \E i \in Rows("user"), j \in Rows("assistant") : history[i].of = n /\ i < j

\* AppendMessageIfNoPendingInputs under the lock of the queue.
AppendNotice ==
    LET n == Head(queue) IN
    /\ pc = "drained" /\ ~cancelled /\ queue # << >>
    /\ \/ /\ Noticed(n)
          /\ pc' = IF Responded(n) THEN "renotified" ELSE "notified"
          /\ UNCHANGED history
       \/ /\ ~Noticed(n) /\ PendingInputs
          /\ pc' = "goal"
          /\ UNCHANGED history
       \/ /\ ~Noticed(n) /\ ~PendingInputs
          /\ Append1(User(n))
          /\ pc' = "notified"
    /\ UNCHANGED <<admitted, promoted, queue, calls, statusDue, volatile, counters>>

\* The item leaves the queue, and its message starts another drain unless it
\* was answered before a restart.
DropNotice ==
    /\ pc \in {"notified", "renotified"}
    /\ queue' = Tail(queue)
    /\ pc' = IF pc = "notified" THEN "repair" ELSE "goal"
    /\ UNCHANGED <<admitted, promoted, history, calls, statusDue, volatile, counters>>

NoNotice ==
    /\ pc = "drained" /\ ~cancelled /\ queue = << >>
    /\ pc' = "goal"
    /\ UNCHANGED <<durable, volatile, counters>>

\* An active goal goes on by a message of its own; otherwise the drain is over.
ContinueGoal ==
    /\ pc = "goal"
    /\ \/ Append1(User(None)) /\ pc' = "repair" /\ UNCHANGED volatile
       \/ End /\ UNCHANGED history
    /\ UNCHANGED <<admitted, promoted, queue, calls, statusDue, counters>>

-----------------------------------------------------------------------------

Drain ==
    \/ Repair \/ ReadCutoff \/ Promote \/ CheckReady \/ AppendStatus
    \/ StartAssistant
    \/ \E n \in BatchSizes, text \in BOOLEAN :
         StreamCompletes(n, text) \/ StreamFails(n, text)
    \/ AddToolCall \/ Recorded
    \/ \E k \in Calls :
         StartTool(k) \/ RunTool(k) \/ SettleTool(k) \/ LoseTool(k) \/ CleanUp(k)
    \/ ToolsDone \/ AppendResult \/ Answered
    \/ AppendNotice \/ DropNotice \/ NoNotice \/ ContinueGoal
    \/ DrainFails

Next ==
    \/ \E m \in Prompts : Admit(m)
    \/ \E n \in Notices : Offer(n)
    \/ Begin \/ Cancel \/ Crash
    \/ Drain

Spec == Init /\ [][Next]_vars

-----------------------------------------------------------------------------
(* Properties.                                                             *)

\* Every call of the request has exactly one result, after it, and every result
\* has its call: a provider rejects anything else (repairToolHistory), whatever
\* crashed, was cancelled or could not be written before.
RequestWellFormed ==
    pc = "stream" =>
      LET Has(i, k) == ModelHistory[i].role = "assistant"
                         /\ Contains(ModelHistory[i].calls, k)
          Answers(i, k) == ModelHistory[i] = Result(k)
          At(Test(_, _), k) == {i \in DOMAIN ModelHistory : Test(i, k)}
      IN \A k \in Calls :
           LET asked == At(Has, k)
               results == At(Answers, k)
           IN \/ asked = {} /\ results = {}
              \/ /\ Cardinality(asked) = 1 /\ Cardinality(results) = 1
                 /\ \A i \in asked, j \in results : i < j

\* A tool is executed at most once, and only when its call is recorded as
\* running, also across restarts (docs/architecture.md, principle 5; StartTool,
\* RepairActive).
ToolRunsOnce ==
    \A k \in Calls :
      /\ ran[k] <= 1
      /\ ran[k] = 1 => calls[k] \in Terminal \cup {"running"}

\* Settled calls and closed messages never change, and messages keep their
\* place: what a provider or a user has seen stays (the WHERE clauses of
\* transitionTool and FinishAssistant).
PastIsFixed ==
    [][/\ \A k \in Calls : calls[k] \in Terminal => calls'[k] = calls[k]
       /\ Len(history) <= Len(history')
       /\ \A i \in DOMAIN history :
            i \notin ActiveRows => history'[i] = history[i]]_vars

\* A queue item reaches the history at most once, whatever happens between its
\* message and its removal from the queue (DeliverMonitored,
\* AppendMessageIfNoPendingInputs).
NoticeOnce ==
    \A n \in Notices : Cardinality({i \in Rows("user") : history[i].of = n}) <= 1

\* What has been done is neither done again nor undone.
DoneOnce == [](ToolRunsOnce /\ NoticeOnce) /\ PastIsFixed

\* What the last message that is not a status prompt asks for.
Unanswered ==
    LET asked == SelectSeq(ModelHistory, LAMBDA row : row.role # "system")
    IN asked # << >> /\ Last(asked).role \in {"user", "tool"}

\* A drain that ends well leaves no prompt and no tool result that the model has
\* not reacted to: /resume takes up what an interruption or a crash left
\* (drainOnce's ready test).
DrainAnswers == pc = "drained" => ~Unanswered

\* The abstract inbox: see Inbox.
PromptRows == {i \in Rows("user") : history[i].of \in Prompts}
Inbox == INSTANCE Inbox WITH
    waiting <- InOrder(Unpromoted(Len(admitted))),
    taken <- InOrder([i \in PromptRows |-> history[i].of])

\* Prompts reach the history in the order of their admission, each once
\* (promote's ORDER BY and its status check), across failures and restarts.
ImplementsInbox == Inbox!Spec
=============================================================================
