---------------------------- MODULE ToolAssembly ----------------------------
(***************************************************************************)
(* The two parsers of provider streams: the tool calls of a response       *)
(* arrive in pieces, those of several calls interleaved, and become one    *)
(* complete event each, before the event that finishes the response.  The  *)
(* Responses wire names an item by its own id, by the id of its call, or   *)
(* by both; the Chat Completions wire numbers the calls.  A piece of input *)
(* is its number, and an input is valid JSON when all its pieces are there *)
(* in order.                                                               *)
(***************************************************************************)
EXTENDS Naturals, Sequences, FiniteSets, SequencesExt

CONSTANTS
    Calls,     \* tool calls of the response: 1..n
    MaxParts   \* pieces of the input of a call

Wires == {"responses", "chat"}
Whole == [i \in 1..MaxParts |-> i]

VARIABLES
    wire,      \* which parser reads the stream
    sent,      \* per call: what the server has sent of it
    closing,   \* what the server has sent of the end: "no", "finish", "usage"
    tools,     \* Parser.tools: by key, the accumulators
    aliases,   \* responses.Parser.aliases: identifier to key
    finish,    \* chatcompletions.Parser.finish is set
    terminal,  \* chatcompletions.Parser.terminal
    ending,    \* Parser.done, or how Next failed: "no", "done", "failed"
    out        \* the complete tool calls, usage and finish events, in order

server == <<wire, sent, closing>>
parser == <<tools, aliases, finish, terminal, ending, out>>
vars == <<server, parser>>

None == <<"none", 0>>
ItemID(c) == <<"item", c>>
CallID(c) == <<"call", c>>
Index(c) == <<"index", c>>
Blank == [itemID |-> None, callID |-> None, name |-> FALSE, input |-> << >>, final |-> FALSE]
NotSent == [announced |-> FALSE, parts |-> 0, args |-> FALSE, done |-> FALSE]

Init ==
    /\ wire \in Wires /\ closing = "no"
    /\ sent = [c \in Calls |-> NotSent]
    /\ tools = << >> /\ aliases = << >> /\ finish = FALSE /\ terminal = FALSE
    /\ ending = "no" /\ out = << >>

Complete(item) == [type |-> "call", input |-> item.input,
                   id |-> IF item.callID # None THEN item.callID ELSE item.itemID]
Finished == [type |-> "finish", input |-> << >>, id |-> None]
Usage == [type |-> "usage", input |-> << >>, id |-> None]

Open(w) == wire = w /\ ending = "no" /\ closing = "no"
Put(key, item) == [k \in DOMAIN tools \cup {key} |-> IF k = key THEN item ELSE tools[k]]

-----------------------------------------------------------------------------
(* The Responses wire.                                                     *)

\* findTool: the first identifier known, as an alias or as a key.
Key(item, call) ==
    IF item \in DOMAIN aliases THEN aliases[item]
    ELSE IF call \in DOMAIN aliases THEN aliases[call]
    ELSE IF item # None THEN item ELSE call

\* addTool: fills what the accumulator lacks, and records both identifiers.
Added(item, call, name, input) ==
    LET key == Key(item, call)
        old == IF key \in DOMAIN tools THEN tools[key] ELSE Blank
    IN /\ tools' = Put(key, [itemID |-> IF old.itemID = None THEN item ELSE old.itemID,
                             callID |-> IF old.callID = None THEN call ELSE old.callID,
                             name |-> old.name \/ name,
                             input |-> IF old.input = << >> THEN input ELSE old.input,
                             final |-> old.final])
       /\ aliases' = [id \in DOMAIN aliases \cup ({item, call} \ {None}) |->
                          IF id \in {item, call} THEN key ELSE aliases[id]]

\* response.output_item.added; a server may announce a call more than once, and
\* may put the whole input into it.
Announce(c) ==
    /\ Open("responses") /\ ~sent[c].done
    /\ \E input \in {<< >>, Whole} :
          /\ input = Whole => sent[c].parts = 0
          /\ sent' = [sent EXCEPT ![c].announced = TRUE,
                                  ![c].parts = IF input = Whole THEN MaxParts ELSE @]
          /\ Added(ItemID(c), CallID(c), TRUE, input)
    /\ UNCHANGED <<wire, closing, finish, terminal, ending, out>>

\* Later records carry either identifier, or both.
Identifiers(c) == {<<ItemID(c), None>>, <<None, CallID(c)>>, <<ItemID(c), CallID(c)>>}

\* response.function_call_arguments.delta
Delta(c) ==
    /\ Open("responses") /\ sent[c].announced /\ ~sent[c].args /\ ~sent[c].done
    /\ sent[c].parts < MaxParts
    /\ \E id \in Identifiers(c) :
          LET key == Key(id[1], id[2]) IN
          /\ tools' = [tools EXCEPT ![key].input = Append(@, sent[c].parts + 1)]
    /\ sent' = [sent EXCEPT ![c].parts = @ + 1]
    /\ UNCHANGED <<wire, closing, aliases, finish, terminal, ending, out>>

\* response.function_call_arguments.done, with the whole input or without.
Arguments(c) ==
    /\ Open("responses") /\ sent[c].announced /\ ~sent[c].args /\ ~sent[c].done
    /\ \E id \in Identifiers(c), input \in {<< >>, Whole} :
          LET key == Key(id[1], id[2]) IN
          /\ tools' = IF input = << >> THEN tools ELSE [tools EXCEPT ![key].input = input]
    /\ sent' = [sent EXCEPT ![c].args = TRUE]
    /\ UNCHANGED <<wire, closing, aliases, finish, terminal, ending, out>>

Valid(item) == item.input = Whole /\ item.name

\* finalize: once.
Finalize(ts, key) == IF ts[key].final THEN << >> ELSE <<Complete(ts[key])>>

\* response.output_item.done
ItemDone(c) ==
    /\ Open("responses") /\ sent[c].announced /\ ~sent[c].done
    /\ \E id \in Identifiers(c), input \in {<< >>, Whole} :
          LET key == Key(id[1], id[2])
              item == IF input = << >> THEN tools[key] ELSE [tools[key] EXCEPT !.input = input]
          IN /\ IF item.final \/ Valid(item)
                THEN /\ tools' = Put(key, [item EXCEPT !.final = TRUE])
                     /\ out' = out \o Finalize(Put(key, item), key)
                     /\ UNCHANGED ending
                ELSE ending' = "failed" /\ UNCHANGED <<tools, out>>
    /\ sent' = [sent EXCEPT ![c].done = TRUE]
    /\ UNCHANGED <<wire, closing, aliases, finish, terminal>>

\* finalizeAll goes through the keys in the order of the identifiers; one call
\* that is not whole fails the stream.
FinalizeAll ==
    LET order == SetToSortSeq({c \in Calls : ItemID(c) \in DOMAIN tools}, <)
        events == FlattenSeq([i \in DOMAIN order |-> Finalize(tools, ItemID(order[i]))])
    IN [whole |-> \A k \in DOMAIN tools : tools[k].final \/ Valid(tools[k]), events |-> events]

\* response.completed and response.incomplete, with or without usage.
Completed ==
    /\ Open("responses") /\ closing' = "finish"
    /\ IF FinalizeAll.whole
       THEN \E usage \in {<< >>, <<Usage>>} :
               out' = out \o FinalizeAll.events \o usage \o <<Finished>> /\ ending' = "done"
       ELSE ending' = "failed" /\ UNCHANGED out
    /\ UNCHANGED <<wire, sent, tools, aliases, finish, terminal>>

-----------------------------------------------------------------------------
(* The Chat Completions wire.                                              *)

\* A delta of tool_calls: the first carries id and name, later ones may.
ToolDelta(c) ==
    /\ Open("chat") /\ sent[c].parts < MaxParts
    /\ LET old == IF Index(c) \in DOMAIN tools THEN tools[Index(c)] ELSE Blank IN
       \E named \in BOOLEAN :
          /\ ~sent[c].announced => named
          /\ tools' = Put(Index(c), [old EXCEPT !.callID = IF named THEN CallID(c) ELSE @,
                                                !.name = @ \/ named,
                                                !.input = Append(@, sent[c].parts + 1)])
    /\ sent' = [sent EXCEPT ![c].announced = TRUE, ![c].parts = @ + 1]
    /\ UNCHANGED <<wire, closing, aliases, finish, terminal, ending, out>>

\* The accumulators are dropped once their calls are complete.
Cleared_Kept == tools
Cleared == << >>

\* finish_reason, which a server may repeat until it has sent the usage; the
\* finish event waits for the usage or the end of the stream.
FinishReason ==
    /\ wire = "chat" /\ ending = "no" /\ closing \in {"no", "finish"}
    /\ closing' = "finish"
    /\ LET order == SetToSortSeq({c \in Calls : Index(c) \in DOMAIN tools}, <) IN
       IF \A k \in DOMAIN tools : Valid(tools[k])
       THEN /\ out' = out \o [i \in DOMAIN order |-> Complete(tools[Index(order[i])])]
            /\ tools' = Cleared /\ finish' = TRUE /\ UNCHANGED ending
       ELSE ending' = "failed" /\ UNCHANGED <<out, tools, finish>>
    /\ UNCHANGED <<wire, sent, aliases, terminal>>

\* Usage flushes the finish event it follows; some servers send it before as well.
UsageChunk ==
    /\ wire = "chat" /\ ending = "no" /\ closing # "usage"
    /\ Len(SelectSeq(out, LAMBDA e : e.type = "usage")) < 2
    /\ closing' = IF closing = "finish" THEN "usage" ELSE closing
    /\ out' = out \o <<Usage>> \o (IF finish THEN <<Finished>> ELSE << >>)
    /\ finish' = FALSE /\ terminal' = (terminal \/ finish)
    /\ UNCHANGED <<wire, sent, tools, aliases, ending>>

-----------------------------------------------------------------------------
(* The end of the stream.                                                  *)

\* "[DONE]" or the end of the body.  The Responses parser takes neither for the
\* end of a response.
Eof ==
    /\ ending = "no"
    /\ IF wire = "chat" /\ (finish \/ terminal)
       THEN /\ ending' = "done" /\ finish' = FALSE /\ terminal' = TRUE
            /\ out' = IF finish THEN Append(out, Finished) ELSE out
       ELSE ending' = "failed" /\ UNCHANGED <<finish, terminal, out>>
    /\ UNCHANGED <<server, tools, aliases>>

\* The connection breaks, the decoder fails, or the provider reports an error.
Broken ==
    /\ ending = "no" /\ ending' = "failed"
    /\ UNCHANGED <<server, tools, aliases, finish, terminal, out>>

Next ==
    \/ \E c \in Calls : Announce(c) \/ Delta(c) \/ Arguments(c) \/ ItemDone(c) \/ ToolDelta(c)
    \/ Completed \/ FinishReason \/ UsageChunk \/ Eof \/ Broken

Spec == Init /\ [][Next]_vars

-----------------------------------------------------------------------------
TypeOK ==
    /\ wire \in Wires /\ closing \in {"no", "finish", "usage"}
    /\ ending \in {"no", "done", "failed"}
    /\ \A c \in Calls : sent[c].parts \in 0..MaxParts
    /\ \A id \in DOMAIN aliases : aliases[id] \in DOMAIN tools

Events(type) == {i \in DOMAIN out : out[i].type = type}
CompleteOf(c) == {i \in Events("call") : out[i].id = CallID(c)}

\* A call is complete once, under its own id and with its whole input, and every
\* call of a response is complete before the response finishes; a response that
\* ends without an error has finished (Parser.finalize, Parser.finalizeTools).
CallsAreWhole ==
    /\ \A i \in Events("call") : out[i].input = Whole /\ \E c \in Calls : i \in CompleteOf(c)
    /\ \A c \in Calls : Cardinality(CompleteOf(c)) <= 1
    /\ \A f \in Events("finish"), c \in Calls :
          sent[c].announced => \E i \in CompleteOf(c) : i < f
    /\ Cardinality(Events("finish")) <= 1
    /\ ending = "done" => Events("finish") # {}
=============================================================================
