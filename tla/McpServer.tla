----------------------------- MODULE McpServer -----------------------------
(***************************************************************************)
(* One server of the MCP manager and the calls of its tools: the lazy      *)
(* start, the monitor of each connection, request and response matching,   *)
(* cancellation, and the one restart after a request that was not sent.    *)
(* Every start makes a connection of its own, numbered from 1.             *)
(***************************************************************************)
EXTENDS Naturals, FiniteSets

CONSTANTS
    Calls,          \* calls of tools
    MaxConnections  \* bound on the starts

ASSUME ConnectionsAssumption == MaxConnections \in Nat

Connections == 1..MaxConnections
Transports == {"stdio", "http"}

VARIABLES
    transport,  \* Config.Transport
    starts,     \* number of connections made
    client,     \* managedServer.client: a connection, or 0
    closed,     \* Manager.closed, and whether Close has returned
    peer,       \* connections whose endpoint is open
    process,    \* connections whose server process runs
    watched,    \* connections whose monitor has not returned
    nextID,     \* per connection: rpcPeer.nextID
    waiting,    \* rpcPeer.pending: <<connection, id, call>>
    pc,         \* per call: the place
    at,         \* per call: the connection it uses
    retried,    \* calls that have restarted the server
    writes,     \* frames whose writer has not returned: <<connection, id, call>>
    wrote,      \* calls whose writer has returned: "sent", "none" or "part"
    inbox,      \* requests the server has received and not answered
    executed,   \* per call: how often the server has executed it
    result      \* per call: whose answer it got, or "error"

manager == <<transport, starts, client, closed, peer, process, watched>>
rpc == <<nextID, waiting, writes, wrote, inbox, executed>>
calls == <<pc, at, retried, result>>
vars == <<manager, rpc, calls>>

Init ==
    /\ transport \in Transports /\ starts = 0 /\ client = 0 /\ closed = "no"
    /\ peer = {} /\ process = {} /\ watched = {}
    /\ nextID = [k \in Connections |-> 0]
    /\ waiting = {} /\ writes = {} /\ inbox = {}
    /\ wrote = [c \in Calls |-> "no"] /\ executed = [c \in Calls |-> 0]
    /\ pc = [c \in Calls |-> "start"] /\ at = [c \in Calls |-> 0]
    /\ retried = {} /\ result = [c \in Calls |-> "none"]

Go(c, place) == pc' = [pc EXCEPT ![c] = place]
Return(c, what) == Go(c, "done") /\ result' = [result EXCEPT ![c] = what]

-----------------------------------------------------------------------------
(* The manager.  Start and Stop hold the server's lock from end to end.    *)

\* A running server is used; any other is started.  A start that fails closes
\* its endpoint again.
Start(c) ==
    /\ pc[c] = "start"
    /\ IF closed # "no" THEN Return(c, "error") /\ UNCHANGED manager
       ELSE IF client # 0 THEN Go(c, "get") /\ UNCHANGED <<manager, result>>
       ELSE \/ /\ starts < MaxConnections
               /\ starts' = starts + 1 /\ client' = starts + 1
               /\ peer' = peer \cup {starts + 1} /\ watched' = watched \cup {starts + 1}
               /\ process' = IF transport = "stdio" THEN process \cup {starts + 1} ELSE process
               /\ Go(c, "get") /\ UNCHANGED <<transport, closed, result>>
            \/ Return(c, "error") /\ UNCHANGED manager
    /\ UNCHANGED <<rpc, at, retried>>

CurrentClient(c) ==
    /\ pc[c] = "get"
    /\ IF client = 0 THEN Return(c, "error") /\ UNCHANGED at
       ELSE Go(c, "call") /\ at' = [at EXCEPT ![c] = client] /\ UNCHANGED result
    /\ UNCHANGED <<manager, rpc, retried>>

\* rpcPeer.close answers everything that waits.
ClosePeer(k) ==
    /\ peer' = peer \ {k}
    /\ waiting' = {w \in waiting : w[1] # k}
    /\ result' = [c \in Calls |->
            IF \E w \in waiting : w[1] = k /\ w[3] = c /\ result[c] = "none"
            THEN "error" ELSE result[c]]

\* Stop closes the endpoint: the process is ended and awaited.
StopServer ==
    /\ IF client = 0 THEN UNCHANGED <<peer, waiting, result, process>>
       ELSE ClosePeer(client) /\ process' = process \ {client}
    /\ client' = 0

Restart(c) ==
    /\ pc[c] = "restart" /\ StopServer
    /\ Go(c, "start") /\ retried' = retried \cup {c}
    /\ wrote' = [wrote EXCEPT ![c] = "no"]
    /\ UNCHANGED <<transport, starts, closed, watched, nextID, writes, inbox, executed, at>>

\* The endpoint is done: the monitor forgets the client, if it is still its own.
Monitor(k) ==
    /\ k \in watched \ peer /\ watched' = watched \ {k}
    /\ client' = IF client = k THEN 0 ELSE client
    /\ UNCHANGED <<transport, starts, closed, peer, process, rpc, calls>>

Close ==
    /\ \/ closed = "no" /\ closed' = "closing"
          /\ UNCHANGED <<client, peer, process, waiting, result>>
       \/ closed = "closing" /\ closed' = "done" /\ StopServer
    /\ UNCHANGED <<transport, starts, watched, nextID, writes, wrote, inbox, executed,
                   pc, at, retried>>

-----------------------------------------------------------------------------
(* A call of the connection.                                               *)

\* A request that was not dispatched is repeated once on a new connection.
NotDispatched(c) ==
    IF c \in retried THEN Return(c, "error") ELSE Go(c, "restart") /\ UNCHANGED result

NextRequest(k) == nextID[k] + 1

Register(c) ==
    /\ pc[c] = "call"
    /\ IF at[c] \notin peer
       THEN NotDispatched(c) /\ UNCHANGED <<nextID, waiting, writes>>
       ELSE LET request == <<at[c], NextRequest(at[c]), c>> IN
            /\ nextID' = [nextID EXCEPT ![at[c]] = @ + 1]
            /\ waiting' = waiting \cup {request}
            /\ writes' = writes \cup {request}
            /\ Go(c, "write") /\ UNCHANGED result
    /\ UNCHANGED <<manager, wrote, inbox, executed, at, retried>>

\* The writer has a goroutine of its own, which outlives a cancelled call.  It
\* writes the whole frame, a part of it, or nothing: the pipe is closed, or the
\* context ended while it waited for its turn.
Write(w) ==
    /\ w \in writes /\ writes' = writes \ {w}
    /\ \E outcome \in {"sent", "part", "none"} :
          /\ outcome = "part" => transport = "http" \/ w[1] \notin process
          /\ wrote' = [wrote EXCEPT ![w[3]] = IF pc[w[3]] = "write" /\ at[w[3]] = w[1]
                                              THEN outcome ELSE @]
          /\ \/ outcome # "none" /\ inbox' = inbox \cup {w}
             \/ outcome # "sent" /\ UNCHANGED inbox
    /\ UNCHANGED <<manager, nextID, waiting, executed, calls>>

Forget(c) == waiting' = {w \in waiting : w[3] # c}

Safe_Any(c) == wrote[c] # "sent"
Safe(c) == wrote[c] = "none"

\* The outcome of the write.  With HTTP "none" is a failed dial, and "part" any
\* other failure, after which the request may have arrived.
Written(c) ==
    /\ pc[c] = "write" /\ wrote[c] # "no"
    /\ IF wrote[c] = "sent" THEN Go(c, "wait") /\ UNCHANGED <<waiting, result>>
       ELSE /\ Forget(c)
            /\ IF Safe(c) THEN NotDispatched(c) ELSE Return(c, "error")
    /\ UNCHANGED <<manager, nextID, writes, wrote, inbox, executed, at, retried>>

\* The call's context ends, or the connection's done channel is closed.
GiveUp(c) ==
    /\ pc[c] \in {"write", "wait"}
    /\ Forget(c) /\ Return(c, "error")
    /\ UNCHANGED <<manager, nextID, writes, wrote, inbox, executed, at, retried>>

Receive(c) ==
    /\ pc[c] = "wait" /\ result[c] # "none" /\ Go(c, "done")
    /\ UNCHANGED <<manager, rpc, at, retried, result>>

-----------------------------------------------------------------------------
(* The server.                                                             *)

Execute(w) ==
    /\ w[1] \in process \/ transport = "http"
    /\ executed' = [executed EXCEPT ![w[3]] = @ + 1]
    /\ inbox' = inbox \ {w}
    \* handleResponse: the answer goes to whoever waits for its number.
    /\ \/ /\ w[1] \in peer
          /\ LET taker == {v \in waiting : v[1] = w[1] /\ v[2] = w[2]} IN
             /\ waiting' = waiting \ taker
             /\ result' = [c \in Calls |-> IF \E v \in taker : v[3] = c THEN w[3] ELSE result[c]]
       \/ UNCHANGED <<waiting, result>>
    /\ UNCHANGED <<manager, nextID, writes, wrote, pc, at, retried>>

\* It exits, or it breaks the protocol: then only the connection is closed.
Breaks(k) ==
    /\ transport = "stdio" /\ k \in peer
    /\ process' = process \ {k} \/ process' = process
    /\ ClosePeer(k)
    /\ UNCHANGED <<transport, starts, client, closed, watched, nextID, writes, wrote,
                   inbox, executed, pc, at, retried>>

Next ==
    \/ \E c \in Calls : Start(c) \/ CurrentClient(c) \/ Restart(c) \/ Register(c)
                        \/ Written(c) \/ GiveUp(c) \/ Receive(c)
    \/ \E k \in Connections : Monitor(k) \/ Breaks(k)
    \/ \E w \in writes : Write(w)
    \/ \E w \in inbox : Execute(w)
    \/ Close

Spec == Init /\ [][Next]_vars

-----------------------------------------------------------------------------
\* "Exactly one reconnect is allowed, and only when the transport proved no request
\* bytes were dispatched": the server executes no call twice.
ExecutedOnce == \A c \in Calls : executed[c] <= 1

\* A call gets its own answer, also when requests before it were cancelled and are
\* answered late (rpcPeer.pending).
AnswerIsOwn == \A c \in Calls : result[c] \in {"none", "error", c}

\* A connection that works is the current one: it is not forgotten, with its
\* process running on, because the monitor of an older one returns late.
NewestIsKept == starts # 0 /\ starts \in peer => client = starts

\* Nothing runs after Close.  It fails when the server breaks the protocol: see
\* the README.
NoServerLeft == closed = "done" => process = {}

\* Calls and connections match, whatever restarts, cancellations and late answers
\* come between them (Manager, rpcPeer).
ExchangeHolds == ExecutedOnce /\ AnswerIsOwn /\ NewestIsKept
=============================================================================
