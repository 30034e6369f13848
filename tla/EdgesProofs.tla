---------------------------- MODULE EdgesProofs -----------------------------
(***************************************************************************)
(* Proofs about components of MCEdges: the exchange with MCP servers, tool *)
(* calls, credentials and the line client, each for any values of its      *)
(* constants.                                                              *)
(***************************************************************************)
EXTENDS MCEdges, SequenceTheorems, TLAPS

edgesVars == <<which, vars, toolsVars, streamVars, partsVars, credentialsVars, lineVars,
               outputVars, catalogVars>>

-----------------------------------------------------------------------------
(* The exchange with an MCP server (McpServer).                            *)


Requests == Connections \X Nat \X Calls

Types ==
    /\ transport \in Transports /\ starts \in 0..MaxConnections
    /\ client \in 0..MaxConnections /\ closed \in {"no", "closing", "done"}
    /\ peer \subseteq Connections /\ process \subseteq Connections
    /\ watched \subseteq Connections
    /\ nextID \in [Connections -> Nat]
    /\ waiting \subseteq Requests /\ writes \subseteq Requests /\ inbox \subseteq Requests
    /\ wrote \in [Calls -> {"no", "sent", "none", "part"}]
    /\ executed \in [Calls -> Nat]
    /\ pc \in [Calls -> {"start", "get", "call", "write", "wait", "restart", "done"}]
    /\ at \in [Calls -> 0..MaxConnections]
    /\ retried \subseteq Calls
    /\ result \in [Calls -> Calls \cup {"none", "error"}]

\* Where a request is on its way to the server.
OnItsWay == writes \cup inbox

\* A number names one request of its connection, wherever copies of it are
\* (rpcPeer.nextID), and no number was given out beyond the last one.
NumbersAreUnique ==
    /\ \A v, w \in waiting \cup OnItsWay : v[1] = w[1] /\ v[2] = w[2] => v = w
    /\ \A w \in waiting \cup OnItsWay : w[2] <= nextID[w[1]]

\* A call that has to be dispatched yet, or whose writer has proved that it was
\* not, has left no trace.
Untouched(c) == executed[c] = 0 /\ \A w \in OnItsWay : w[3] # c

\* A call has one request on its way, or the server has executed it once.
OneRequest ==
    \A c \in Calls :
      /\ executed[c] <= 1
      /\ executed[c] = 1 => \A w \in OnItsWay : w[3] # c
      /\ \A v, w \in OnItsWay : v[3] = c /\ w[3] = c => v = w
      /\ \A w \in writes : w[3] = c => w \notin inbox
      /\ pc[c] \in {"start", "get", "call", "restart"} => Untouched(c)
      /\ pc[c] \in {"start", "get", "call"} => wrote[c] = "no"
      /\ pc[c] = "write" =>
           /\ \A w \in writes : w[3] = c => w[1] = at[c] /\ wrote[c] = "no"
           /\ wrote[c] = "none" => Untouched(c)

\* The inductive invariant.
IInv == Types /\ NumbersAreUnique /\ OneRequest /\ AnswerIsOwn /\ NewestIsKept

-----------------------------------------------------------------------------

\* The steps of a call, of its connection and of the server, as cases of Next.
LEMMA NextCases ==
  ASSUME Next
  PROVE  \/ \E c \in Calls : Start(c)
         \/ \E c \in Calls : CurrentClient(c)
         \/ \E c \in Calls : Restart(c)
         \/ \E c \in Calls : Register(c)
         \/ \E c \in Calls : Written(c)
         \/ \E c \in Calls : GiveUp(c)
         \/ \E c \in Calls : Receive(c)
         \/ \E k \in Connections : Monitor(k)
         \/ \E k \in Connections : Breaks(k)
         \/ \E w \in writes : Write(w)
         \/ \E w \in inbox : Execute(w)
         \/ Close
  BY DEF Next

LEMMA TypesInit == Init => Types
  BY ConnectionsAssumption DEF Init, Types, Transports, Connections

\* Closing an endpoint answers calls and forgets requests, no more.
LEMMA ClosePeerTypes ==
  ASSUME Types, NEW k, ClosePeer(k)
  PROVE  /\ peer' \subseteq Connections /\ waiting' \subseteq Requests
         /\ result' \in [Calls -> Calls \cup {"none", "error"}]
  BY DEF ClosePeer, Types

LEMMA StopServerTypes ==
  ASSUME Types, StopServer
  PROVE  /\ peer' \subseteq Connections /\ waiting' \subseteq Requests
         /\ result' \in [Calls -> Calls \cup {"none", "error"}]
         /\ process' \subseteq Connections /\ client' \in 0..MaxConnections
  BY ClosePeerTypes, ConnectionsAssumption DEF StopServer, Types

LEMMA TypesStep == Types /\ Next => Types'
  <1> SUFFICES ASSUME Types, Next PROVE Types'
    OBVIOUS
  <1> USE ConnectionsAssumption DEF Types, Requests, Connections, rpc, calls, manager
  <1>1. ASSUME NEW c \in Calls, Start(c) PROVE Types'
    <2>1. /\ pc' \in [Calls -> {"start", "get", "call", "write", "wait", "restart", "done"}]
          /\ result' \in [Calls -> Calls \cup {"none", "error"}]
      BY <1>1 DEF Start, Return, Go
    <2>2. CASE UNCHANGED manager
      BY <1>1, <2>1, <2>2 DEF Start
    <2>3. CASE ~UNCHANGED manager
      <3>1. /\ starts < MaxConnections
            /\ starts' = starts + 1 /\ client' = starts + 1
            /\ peer' = peer \cup {starts + 1} /\ watched' = watched \cup {starts + 1}
            /\ process' \subseteq process \cup {starts + 1}
            /\ UNCHANGED <<transport, closed>>
        BY <1>1, <2>3 DEF Start
      <3>2. starts + 1 \in 1..MaxConnections /\ starts + 1 \in 0..MaxConnections
        BY <3>1
      <3> QED
        BY <1>1, <2>1, <3>1, <3>2 DEF Start
    <2> QED
      BY <2>2, <2>3
  <1>2. ASSUME NEW c \in Calls, CurrentClient(c) PROVE Types'
    BY <1>2 DEF CurrentClient, Return, Go
  <1>3. ASSUME NEW c \in Calls, Restart(c) PROVE Types'
    BY <1>3, StopServerTypes DEF Restart, Go
  <1>4. ASSUME NEW c \in Calls, Register(c) PROVE Types'
    <2>1. CASE at[c] \notin peer
      BY <1>4, <2>1 DEF Register, NotDispatched, Return, Go
    <2>2. CASE at[c] \in peer
      <3>1. at[c] \in Connections /\ NextRequest(at[c]) \in Nat
        BY <2>2 DEF NextRequest
      <3>2. <<at[c], NextRequest(at[c]), c>> \in Requests
        BY <3>1
      <3>3. /\ nextID' = [nextID EXCEPT ![at[c]] = @ + 1]
            /\ waiting' = waiting \cup {<<at[c], NextRequest(at[c]), c>>}
            /\ writes' = writes \cup {<<at[c], NextRequest(at[c]), c>>}
            /\ pc' = [pc EXCEPT ![c] = "write"] /\ result' = result
        BY <1>4, <2>2 DEF Register, Go
      <3>4. /\ nextID' \in [Connections -> Nat]
            /\ waiting' \subseteq Requests /\ writes' \subseteq Requests
        BY <3>1, <3>2, <3>3, SMTT(20)
      <3> QED
        BY <1>4, <3>3, <3>4 DEF Register
    <2> QED
      BY <2>1, <2>2
  <1>5. ASSUME NEW c \in Calls, Written(c) PROVE Types'
    BY <1>5 DEF Written, Forget, NotDispatched, Return, Go
  <1>6. ASSUME NEW c \in Calls, GiveUp(c) PROVE Types'
    BY <1>6 DEF GiveUp, Forget, Return, Go
  <1>7. ASSUME NEW c \in Calls, Receive(c) PROVE Types'
    BY <1>7 DEF Receive, Go
  <1>8. ASSUME NEW k \in Connections, Monitor(k) PROVE Types'
    BY <1>8, SMTT(20) DEF Monitor
  <1>9. ASSUME NEW k \in Connections, Breaks(k) PROVE Types'
    BY <1>9 DEF Breaks, ClosePeer
  <1>10. ASSUME NEW w \in writes, Write(w) PROVE Types'
    <2>1. inbox' \subseteq inbox \cup {w} /\ writes' \subseteq writes
      BY <1>10 DEF Write
    <2>2. wrote' \in [Calls -> {"no", "sent", "none", "part"}]
      BY <1>10 DEF Write
    <2> QED
      BY <1>10, <2>1, <2>2 DEF Write
  <1>11. ASSUME NEW w \in inbox, Execute(w) PROVE Types'
    <2>1. w[3] \in Calls /\ inbox' \subseteq inbox /\ waiting' \subseteq waiting
      BY <1>11 DEF Execute
    <2>2. executed' \in [Calls -> Nat]
      BY <1>11, <2>1 DEF Execute
    <2>3. result' \in [Calls -> Calls \cup {"none", "error"}]
      BY <1>11, <2>1 DEF Execute
    <2> QED
      BY <1>11, <2>1, <2>2, <2>3 DEF Execute
  <1>12. ASSUME Close PROVE Types'
    <2>1. CASE closed = "closing" /\ StopServer
      BY <1>12, <2>1, StopServerTypes DEF Close
    <2>2. CASE ~StopServer
      BY <1>12, <2>2 DEF Close
    <2> QED
      BY <1>12, <2>1, <2>2 DEF Close
  <1> QED
    BY <1>1, <1>2, <1>3, <1>4, <1>5, <1>6, <1>7, <1>8, <1>9, <1>10, <1>11, <1>12, NextCases

-----------------------------------------------------------------------------
\* Numbers are given out by Register only; everything else copies or forgets.
LEMMA NumbersKept ==
  ASSUME NumbersAreUnique, nextID' = nextID,
         (waiting \cup OnItsWay)' \subseteq waiting \cup OnItsWay
  PROVE  NumbersAreUnique'
  BY DEF NumbersAreUnique

LEMMA NumbersStep == Types /\ NumbersAreUnique /\ Next => NumbersAreUnique'
  <1> SUFFICES ASSUME Types, NumbersAreUnique, Next PROVE NumbersAreUnique'
    OBVIOUS
  <1>1. ASSUME nextID' = nextID, waiting' \subseteq waiting, OnItsWay' \subseteq OnItsWay
        PROVE  NumbersAreUnique'
    BY <1>1, NumbersKept
  <1>2. ASSUME NEW c \in Calls, Register(c) PROVE NumbersAreUnique'
    <2>1. CASE at[c] \notin peer
      BY <1>1, <1>2, <2>1 DEF Register, OnItsWay
    <2>2. CASE at[c] \in peer
      <3> DEFINE k == at[c]
                 request == <<k, NextRequest(k), c>>
                 Old == waiting \cup OnItsWay
      <3>1. k \in Connections /\ nextID[k] \in Nat
        BY <2>2 DEF Types
      <3>2. /\ nextID' = [nextID EXCEPT ![k] = @ + 1]
            /\ (waiting \cup OnItsWay)' = Old \cup {request}
        BY <1>2, <2>2 DEF Register, OnItsWay
      <3>3. \A v \in Old : v \in Requests /\ v[1] \in Connections /\ v[2] \in Nat
        BY DEF Types, OnItsWay, Requests
      <3>4. \A v \in Old : v[2] <= nextID'[v[1]] /\ ~(v[1] = k /\ v[2] = NextRequest(k))
        BY <3>1, <3>2, <3>3 DEF NumbersAreUnique, NextRequest, Types
      <3>5. request[1] = k /\ request[2] = NextRequest(k) /\ request[2] <= nextID'[k]
        BY <3>1, <3>2 DEF NextRequest, Types
      <3> HIDE DEF k, request
      <3> QED
        BY <3>2, <3>4, <3>5 DEF NumbersAreUnique
    <2> QED
      BY <2>1, <2>2
  <1>3. ASSUME NEW w \in writes, Write(w) PROVE NumbersAreUnique'
    BY <1>1, <1>3 DEF Write, OnItsWay
  <1>4. ASSUME NEW w \in inbox, Execute(w) PROVE NumbersAreUnique'
    <2>1. /\ nextID' = nextID /\ writes' = writes
          /\ inbox' \subseteq inbox /\ waiting' \subseteq waiting
      BY <1>4 DEF Execute
    <2> QED
      BY <1>1, <2>1 DEF OnItsWay
  <1> QED
    BY <1>1, <1>2, <1>3, <1>4, NextCases DEF Start, CurrentClient, Restart, StopServer, ClosePeer,
       Written, Forget, GiveUp, Receive, Monitor, Breaks, Close, OnItsWay, rpc, manager, calls

-----------------------------------------------------------------------------
\* A step that moves no request leaves the account of each call as it is, unless
\* it takes the call where it must be untouched.
LEMMA RequestsKept ==
  ASSUME Types, OneRequest, writes' = writes, inbox' = inbox, executed' = executed,
         \A c \in Calls :
           \/ /\ pc'[c] = pc[c] \/ pc'[c] \in {"wait", "done"}
              /\ wrote'[c] = wrote[c] /\ at'[c] = at[c]
           \/ /\ pc'[c] \in {"start", "get", "call", "restart"} /\ Untouched(c)
              /\ pc'[c] # "restart" => wrote'[c] = "no"
  PROVE  OneRequest'
  BY DEF OneRequest, Untouched, OnItsWay

LEMMA OneRequestInit == Init => OneRequest
  BY DEF Init, OneRequest, Untouched, OnItsWay

LEMMA OneRequestStep == Types /\ OneRequest /\ Next => OneRequest'
  <1> SUFFICES ASSUME Types, OneRequest, Next PROVE OneRequest'
    OBVIOUS
  <1>1. ASSUME NEW c \in Calls, Start(c) PROVE OneRequest'
    <2>1. Untouched(c) /\ wrote[c] = "no" /\ pc[c] = "start"
      BY <1>1 DEF Start, OneRequest
    <2>2. pc' = [pc EXCEPT ![c] = "get"] \/ pc' = [pc EXCEPT ![c] = "done"]
      BY <1>1 DEF Start, Return, Go
    <2> QED
      BY <1>1, <2>1, <2>2, RequestsKept DEF Start, rpc, Types
  <1>2. ASSUME NEW c \in Calls, CurrentClient(c) PROVE OneRequest'
    <2>1. Untouched(c) /\ wrote[c] = "no" /\ pc[c] = "get"
      BY <1>2 DEF CurrentClient, OneRequest
    <2>2. \/ pc' = [pc EXCEPT ![c] = "call"] /\ at' = [at EXCEPT ![c] = client]
          \/ pc' = [pc EXCEPT ![c] = "done"] /\ at' = at
      BY <1>2 DEF CurrentClient, Return, Go
    <2> QED
      BY <1>2, <2>1, <2>2, RequestsKept DEF CurrentClient, rpc, Types
  <1>3. ASSUME NEW c \in Calls, Restart(c) PROVE OneRequest'
    <2>1. Untouched(c) /\ pc[c] = "restart"
      BY <1>3 DEF Restart, OneRequest
    <2>2. /\ pc' = [pc EXCEPT ![c] = "start"] /\ wrote' = [wrote EXCEPT ![c] = "no"]
          /\ writes' = writes /\ inbox' = inbox /\ executed' = executed /\ at' = at
      BY <1>3 DEF Restart, Go
    <2> QED
      BY <2>1, <2>2, RequestsKept DEF Types
  <1>4. ASSUME NEW c \in Calls, Register(c) PROVE OneRequest'
    <2>1. Untouched(c) /\ wrote[c] = "no" /\ pc[c] = "call"
      BY <1>4 DEF Register, OneRequest
    <2>2. CASE at[c] \notin peer
      <3>1. pc' = [pc EXCEPT ![c] = "restart"] \/ pc' = [pc EXCEPT ![c] = "done"]
        BY <1>4, <2>2 DEF Register, NotDispatched, Return, Go
      <3> QED
        BY <1>4, <2>1, <2>2, <3>1, RequestsKept DEF Register, Types
    <2>3. CASE at[c] \in peer
      <3> DEFINE request == <<at[c], NextRequest(at[c]), c>>
      <3>1. /\ writes' = writes \cup {request} /\ inbox' = inbox /\ executed' = executed
            /\ wrote' = wrote /\ at' = at /\ pc' = [pc EXCEPT ![c] = "write"]
        BY <1>4, <2>3 DEF Register, Go
      <3>2. request[1] = at[c] /\ request[3] = c
        OBVIOUS
      <3> HIDE DEF request
      <3>3. \A v \in OnItsWay : v[3] # c
        BY <2>1 DEF Untouched
      <3> QED
        BY <2>1, <3>1, <3>2, <3>3 DEF OneRequest, Untouched, OnItsWay, Types
    <2> QED
      BY <2>2, <2>3
  <1>5. ASSUME NEW c \in Calls, Written(c) PROVE OneRequest'
    <2>1. CASE wrote[c] # "none"
      <3>1. pc' = [pc EXCEPT ![c] = "wait"] \/ pc' = [pc EXCEPT ![c] = "done"]
        BY <1>5, <2>1 DEF Written, Safe, Return, Go
      <3> QED
        BY <1>5, <3>1, RequestsKept DEF Written, Types
    <2>2. CASE wrote[c] = "none"
      <3>1. Untouched(c)
        BY <1>5, <2>2 DEF Written, OneRequest
      <3>2. pc' = [pc EXCEPT ![c] = "restart"] \/ pc' = [pc EXCEPT ![c] = "done"]
        BY <1>5, <2>2 DEF Written, Safe, NotDispatched, Return, Go
      <3> QED
        BY <1>5, <3>1, <3>2, RequestsKept DEF Written, Types
    <2> QED
      BY <2>1, <2>2
  <1>6. ASSUME NEW c \in Calls, GiveUp(c) PROVE OneRequest'
    BY <1>6, RequestsKept DEF GiveUp, Return, Go, Types
  <1>7. ASSUME NEW c \in Calls, Receive(c) PROVE OneRequest'
    BY <1>7, RequestsKept DEF Receive, Go, rpc, Types
  <1>8. ASSUME NEW k \in Connections, Monitor(k) \/ Breaks(k) PROVE OneRequest'
    BY <1>8, RequestsKept DEF Monitor, Breaks, rpc, calls
  <1>9. ASSUME Close PROVE OneRequest'
    BY <1>9, RequestsKept DEF Close
  <1>10. ASSUME NEW w \in writes, Write(w) PROVE OneRequest'
    <2>1. PICK how \in {"sent", "part", "none"} :
            /\ wrote' = [wrote EXCEPT ![w[3]] = IF pc[w[3]] = "write" /\ at[w[3]] = w[1]
                                                THEN how ELSE @]
            /\ \/ how # "none" /\ inbox' = inbox \cup {w}
               \/ how # "sent" /\ inbox' = inbox
      BY <1>10 DEF Write
    <2>2. writes' = writes \ {w} /\ executed' = executed /\ pc' = pc /\ at' = at
      BY <1>10 DEF Write, calls
    <2>3. w[3] \in Calls
      BY <1>10 DEF Types, Requests
    <2>4. wrote' = [c \in Calls |-> IF c = w[3] /\ pc[c] = "write" /\ at[c] = w[1]
                                    THEN how ELSE wrote[c]]
      BY <2>1, <2>3 DEF Types
    <2>5. OnItsWay' \subseteq OnItsWay /\ w \in OnItsWay
      BY <1>10, <2>1, <2>2 DEF OnItsWay
    <2> SUFFICES ASSUME NEW c \in Calls
                 PROVE  /\ executed[c] <= 1
                        /\ executed[c] = 1 => \A v \in OnItsWay' : v[3] # c
                        /\ \A u, v \in OnItsWay' : u[3] = c /\ v[3] = c => u = v
                        /\ \A v \in writes' : v[3] = c => v \notin inbox'
                        /\ pc[c] \in {"start", "get", "call", "restart"} => Untouched(c)'
                        /\ pc[c] \in {"start", "get", "call"} => wrote'[c] = "no"
                        /\ pc[c] = "write" =>
                             /\ \A v \in writes' : v[3] = c => v[1] = at[c] /\ wrote'[c] = "no"
                             /\ wrote'[c] = "none" => Untouched(c)'
      BY <2>2 DEF OneRequest
    <2>6. CASE c # w[3]
      <3>1. wrote'[c] = wrote[c]
        BY <2>4, <2>6
      <3>2. \A v : v[3] = c => (v \in writes' <=> v \in writes) /\ (v \in inbox' <=> v \in inbox)
        BY <2>1, <2>2, <2>6
      <3> QED
        BY <2>2, <2>5, <3>1, <3>2 DEF OneRequest, Untouched, OnItsWay
    <2>7. CASE c = w[3]
      <3>1. executed[c] = 0 /\ pc[c] \notin {"start", "get", "call", "restart"}
        BY <1>10, <2>5, <2>7 DEF OneRequest, Untouched, Types
      <3>2. \A v \in OnItsWay : v[3] = c => v = w
        BY <2>5, <2>7 DEF OneRequest
      <3>3. \A v \in writes' : v[3] # c
        BY <2>2, <3>2 DEF OnItsWay
      <3>4. w \notin inbox
        BY <1>10, <2>7 DEF OneRequest
      <3>5. pc[c] = "write" /\ wrote'[c] = "none" => inbox' = inbox
        BY <1>10, <2>1, <2>4, <2>7 DEF OneRequest
      <3>6. pc[c] = "write" /\ wrote'[c] = "none" => Untouched(c)'
        BY <2>2, <3>1, <3>2, <3>3, <3>4, <3>5 DEF Untouched, OnItsWay
      <3> QED
        BY <2>5, <3>1, <3>2, <3>3, <3>6
    <2> QED
      BY <2>6, <2>7
  <1>11. ASSUME NEW w \in inbox, Execute(w) PROVE OneRequest'
    <2>1. /\ executed' = [executed EXCEPT ![w[3]] = @ + 1] /\ inbox' = inbox \ {w}
          /\ writes' = writes /\ wrote' = wrote /\ pc' = pc /\ at' = at
      BY <1>11 DEF Execute
    <2>2. w[3] \in Calls /\ w \in OnItsWay
      BY <1>11 DEF Types, Requests, OnItsWay
    <2>3. \A v \in OnItsWay : v[3] = w[3] => v = w
      BY <2>2 DEF OneRequest
    <2>4. w \notin writes
      BY <1>11, <2>2 DEF OneRequest
    <2>5. executed[w[3]] = 0 /\ executed'[w[3]] = 1 /\ \A v \in OnItsWay' : v[3] # w[3]
      BY <2>1, <2>2, <2>3, <2>4 DEF OneRequest, OnItsWay, Types
    <2>6. /\ pc[w[3]] \notin {"start", "get", "call", "restart"}
          /\ pc[w[3]] = "write" => wrote[w[3]] # "none"
      BY <2>2 DEF OneRequest, Untouched
    <2> QED
      BY <2>1, <2>2, <2>5, <2>6 DEF OneRequest, Untouched, OnItsWay, Types
  <1> QED
    BY <1>1, <1>2, <1>3, <1>4, <1>5, <1>6, <1>7, <1>8, <1>9, <1>10, <1>11, NextCases

-----------------------------------------------------------------------------
LEMMA AnswerStep == Types /\ NumbersAreUnique /\ AnswerIsOwn /\ Next => AnswerIsOwn'
  <1> SUFFICES ASSUME Types, NumbersAreUnique, AnswerIsOwn, Next PROVE AnswerIsOwn'
    OBVIOUS
  <1> USE DEF AnswerIsOwn, Types
  <1>1. ASSUME NEW w \in inbox, Execute(w) PROVE AnswerIsOwn'
    <2> DEFINE taker == {v \in waiting : v[1] = w[1] /\ v[2] = w[2]}
    <2>1. \A v \in taker : v = w
      BY <1>1 DEF NumbersAreUnique, OnItsWay
    <2>2. \/ result' = [c \in Calls |-> IF \E v \in taker : v[3] = c THEN w[3] ELSE result[c]]
          \/ result' = result
      BY <1>1 DEF Execute
    <2> QED
      BY <2>1, <2>2
  <1>2. ASSUME NEW c \in Calls, Return(c, "error") PROVE AnswerIsOwn'
    BY <1>2 DEF Return
  <1>3. ASSUME NEW k, ClosePeer(k) PROVE AnswerIsOwn'
    BY <1>3 DEF ClosePeer
  <1>4. ASSUME result' = result PROVE AnswerIsOwn'
    BY <1>4
  <1> QED
    BY <1>1, <1>2, <1>3, <1>4, NextCases DEF Start, CurrentClient, Restart, StopServer,
       Register, NotDispatched, Written, GiveUp, Receive, Monitor, Breaks, Write, Close,
       rpc, manager, calls

LEMMA NewestStep == Types /\ NewestIsKept /\ Next => NewestIsKept'
  <1> SUFFICES ASSUME Types, NewestIsKept, Next PROVE NewestIsKept'
    OBVIOUS
  <1> USE ConnectionsAssumption DEF NewestIsKept, Types, Connections
  <1>1. ASSUME starts' = starts, client' = client, peer' \subseteq peer PROVE NewestIsKept'
    BY <1>1
  <1>2. ASSUME starts' = starts, StopServer PROVE NewestIsKept'
    BY <1>2 DEF StopServer, ClosePeer
  <1>3. ASSUME NEW c \in Calls, Start(c) PROVE NewestIsKept'
    BY <1>3 DEF Start, Return, manager
  <1>4. ASSUME NEW k \in Connections, Monitor(k) PROVE NewestIsKept'
    BY <1>4 DEF Monitor
  <1> QED
    BY <1>1, <1>2, <1>3, <1>4, NextCases DEF CurrentClient, Restart, Register, Written,
       GiveUp, Receive, Breaks, ClosePeer, Write, Execute, Close, manager

-----------------------------------------------------------------------------
\* The inductive invariant holds in every reachable state.
THEOREM Invariance == Spec => []IInv
  <1>1. Init => IInv
    <2> SUFFICES ASSUME Init PROVE IInv
      OBVIOUS
    <2> QED
      BY TypesInit, OneRequestInit DEF Init, IInv, NumbersAreUnique, OnItsWay, AnswerIsOwn,
         NewestIsKept
  <1>2. IInv /\ [Next]_vars => IInv'
    <2> SUFFICES ASSUME IInv, [Next]_vars PROVE IInv'
      OBVIOUS
    <2>1. CASE Next
      BY <2>1, TypesStep, NumbersStep, OneRequestStep, AnswerStep, NewestStep DEF IInv
    <2>2. CASE UNCHANGED vars
      BY <2>2 DEF IInv, Types, NumbersAreUnique, OneRequest, Untouched, OnItsWay, AnswerIsOwn,
         NewestIsKept, vars, manager, rpc, calls
    <2> QED
      BY <2>1, <2>2
  <1> QED
    BY <1>1, <1>2, PTL DEF Spec

\* The server executes no call twice, each call gets its own answer, and the
\* connection that works is the current one (Manager.CallTool, rpcPeer).
THEOREM ExchangeIsKept == Spec => []ExchangeHolds
  <1>1. IInv => ExchangeHolds
    BY DEF IInv, ExchangeHolds, OneRequest, ExecutedOnce
  <1> QED
    BY <1>1, Invariance, PTL

-----------------------------------------------------------------------------
(* Tool calls: what is planned, approved and executed, and what is waited  *)
(* for (ToolCalls).                                                        *)

PlanTypes ==
    /\ denotes \in [{"path", "name"} -> Tool!Targets]
    /\ plan \in [Tool!Planned -> Tool!Targets \cup {NoTarget}]
    /\ permission \in [Tool!Planned -> Tool!Targets \cup {"no", "asked", "denied"}]
    /\ ran \in [Tool!Planned -> Tool!Targets \cup {"error", NoTarget}]
    /\ turn \in 0..MaxTurns /\ running \in BOOLEAN
    /\ reason \in [1..MaxTurns -> {NoTarget, "finished", "interrupted"}]
    /\ tPc \in [Tool!Tasks -> {"called", "observed", "checked", "waits", "done"}]
    /\ observed \in [Tool!Tasks -> 0..MaxTurns]
    /\ answered \subseteq Tool!Tasks \X (1..MaxTurns)

\* Only commands are asked for, with a plan, and what is approved is the plan.
PermissionsHold ==
    \A c \in Tool!Planned :
      /\ permission[c] # "no" => c \in Execs /\ plan[c] # NoTarget
      /\ permission[c] \in Tool!Targets => permission[c] = plan[c]

\* The turns that are over are those before the current one, and it when it does
\* not run.
TurnsEnd ==
    /\ running => turn > 0
    /\ \A n \in 1..MaxTurns : reason[n] # NoTarget <=> (n < turn \/ (n = turn /\ ~running))

\* A call that has resolved its child has observed one of its turns.
ObservedHolds ==
    \A t \in Tool!Tasks :
      /\ observed[t] <= turn
      /\ tPc[t] \in {"observed", "checked", "waits"} => observed[t] >= 1

\* What is reported as over was observed by a call that has returned.
AnswersHold ==
    \A a \in answered : tPc[a[1]] = "done" /\ a[2] = observed[a[1]] /\ reason[a[2]] # NoTarget

PlanInv ==
    /\ PlanTypes /\ PermissionsHold /\ Tool!PlannedIsExecuted /\ TurnsEnd /\ ObservedHolds
    /\ AnswersHold


LEMMA PlanStarts == AllInit => PlanInv
  <1> SUFFICES ASSUME Tool!Init PROVE PlanInv
    BY DEF AllInit
  <1> USE EdgesAssumption DEF Tool!Init, Tool!Planned, Tool!Targets, Tool!Tasks
  <1>1. PlanTypes
    <2>1. denotes \in [{"path", "name"} -> Tool!Targets]
      OBVIOUS
    <2>2. /\ plan \in [Tool!Planned -> Tool!Targets \cup {NoTarget}]
          /\ permission \in [Tool!Planned -> Tool!Targets \cup {"no", "asked", "denied"}]
          /\ ran \in [Tool!Planned -> Tool!Targets \cup {"error", NoTarget}]
      OBVIOUS
    <2>3. /\ turn \in 0..MaxTurns
          /\ reason \in [1..MaxTurns -> {NoTarget, "finished", "interrupted"}]
      OBVIOUS
    <2>5. running \in BOOLEAN
      BY Zenon
    <2>4. /\ tPc \in [Tool!Tasks -> {"called", "observed", "checked", "waits", "done"}]
          /\ observed \in [Tool!Tasks -> 0..MaxTurns]
          /\ answered \subseteq Tool!Tasks \X (1..MaxTurns)
      OBVIOUS
    <2> QED
      BY <2>1, <2>2, <2>3, <2>4, <2>5 DEF PlanTypes
  <1>2. PermissionsHold /\ Tool!PlannedIsExecuted
    BY DEF PermissionsHold, Tool!PlannedIsExecuted
  <1>3. TurnsEnd /\ ObservedHolds /\ AnswersHold
    BY DEF TurnsEnd, ObservedHolds, AnswersHold
  <1> QED
    BY <1>1, <1>2, <1>3 DEF PlanInv

\* The steps of the calls that are planned, and of those that observe the child.
CallStep ==
    \E c \in Tool!Planned :
      \/ Tool!Refuse(c) \/ Tool!PlanCommand(c) \/ Tool!PlanMessage(c)
      \/ Tool!Authorize(c) \/ Tool!RunCommand(c) \/ Tool!SendMessage(c)
ChildStep == Tool!StartTurn \/ Tool!EndTurn
TaskStep ==
    \E t \in Tool!Tasks :
      \/ Tool!Resolve(t) \/ Tool!Signal(t) \/ Tool!WaitReturns(t) \/ Tool!Check(t)
      \/ Tool!Interrupt(t)

\* What the turns and the waits leave alone, and what the planned calls do.
LEMMA ToolParts ==
  ASSUME Tool!Next
  PROVE  \/ \E s \in {"path", "name"} : Tool!Moves(s)
         \/ CallStep /\ UNCHANGED <<denotes, Tool!child, Tool!tasks>>
         \/ ChildStep /\ UNCHANGED <<Tool!execution, Tool!tasks>>
         \/ TaskStep /\ UNCHANGED Tool!execution
  <1>1. CallStep => UNCHANGED <<denotes, Tool!child, Tool!tasks>>
    BY DEF CallStep, Tool!Refuse, Tool!PlanCommand, Tool!PlanMessage, Tool!Authorize,
           Tool!RunCommand, Tool!SendMessage
  <1>2. ChildStep => UNCHANGED <<Tool!execution, Tool!tasks>>
    BY DEF ChildStep, Tool!StartTurn, Tool!EndTurn
  <1>3. TaskStep => UNCHANGED Tool!execution
    BY DEF TaskStep, Tool!Resolve, Tool!Signal, Tool!WaitReturns, Tool!Check, Tool!Interrupt
  <1> QED
    BY <1>1, <1>2, <1>3 DEF Tool!Next, CallStep, ChildStep, TaskStep

LEMMA CallKeeps ==
  ASSUME PlanInv, CallStep, UNCHANGED <<denotes, Tool!child, Tool!tasks>>
  PROVE  PlanInv'
  <1> USE EdgesAssumption DEF PlanInv
  <1>1. TurnsEnd' /\ ObservedHolds' /\ AnswersHold'
    BY DEF TurnsEnd, ObservedHolds, AnswersHold, Tool!child, Tool!tasks
  <1>2. PICK c \in Tool!Planned :
           \/ Tool!Refuse(c) \/ Tool!PlanCommand(c) \/ Tool!PlanMessage(c)
           \/ Tool!Authorize(c) \/ Tool!RunCommand(c) \/ Tool!SendMessage(c)
    BY DEF CallStep
  <1> USE DEF Tool!child, Tool!tasks
  <1>3. denotes["path"] \in Tool!Targets /\ denotes["name"] \in Tool!Targets
    BY DEF PlanTypes
  <1>4. PlanTypes'
    <2> USE DEF PlanTypes
    <2>1. CASE Tool!Refuse(c)
      BY <2>1 DEF Tool!Refuse
    <2>2. CASE Tool!PlanCommand(c)
      BY <1>3, <2>2 DEF Tool!PlanCommand
    <2>3. CASE Tool!PlanMessage(c)
      BY <1>3, <2>3 DEF Tool!PlanMessage
    <2>4. CASE Tool!Authorize(c)
      <3>1. plan[c] \in Tool!Targets
        BY <2>4 DEF Tool!Authorize, PermissionsHold
      <3> QED
        BY <2>4, <3>1 DEF Tool!Authorize
    <2>5. CASE Tool!RunCommand(c)
      <3>1. plan[c] \in Tool!Targets
        BY <2>5 DEF Tool!RunCommand, PermissionsHold, Tool!Targets
      <3> QED
        BY <2>5, <3>1 DEF Tool!RunCommand
    <2>6. CASE Tool!SendMessage(c)
      BY <2>6 DEF Tool!SendMessage
    <2> QED
      BY <1>2, <2>1, <2>2, <2>3, <2>4, <2>5, <2>6
  <1>5. PermissionsHold'
    <2> USE DEF PermissionsHold, PlanTypes, Tool!Targets
    <2>1. CASE Tool!Refuse(c)
      BY <2>1 DEF Tool!Refuse
    <2>2. CASE Tool!PlanCommand(c)
      BY <1>3, <2>2 DEF Tool!PlanCommand
    <2>3. CASE Tool!PlanMessage(c)
      BY <1>3, <2>3 DEF Tool!PlanMessage
    <2>4. CASE Tool!Authorize(c)
      BY <2>4 DEF Tool!Authorize
    <2>5. CASE Tool!RunCommand(c)
      BY <2>5 DEF Tool!RunCommand
    <2>6. CASE Tool!SendMessage(c)
      BY <2>6 DEF Tool!SendMessage
    <2> QED
      BY <1>2, <2>1, <2>2, <2>3, <2>4, <2>5, <2>6
  <1>6. Tool!PlannedIsExecuted'
    <2> USE DEF Tool!PlannedIsExecuted, PermissionsHold, PlanTypes, Tool!Targets
    <2>1. CASE Tool!Refuse(c)
      BY <2>1 DEF Tool!Refuse
    <2>2. CASE Tool!PlanCommand(c)
      BY <1>3, <2>2 DEF Tool!PlanCommand
    <2>3. CASE Tool!PlanMessage(c)
      BY <1>3, <2>3 DEF Tool!PlanMessage
    <2>4. CASE Tool!Authorize(c)
      BY <2>4 DEF Tool!Authorize
    <2>5. CASE Tool!RunCommand(c)
      BY <2>5 DEF Tool!RunCommand
    <2>6. CASE Tool!SendMessage(c)
      BY <2>6 DEF Tool!SendMessage
    <2> QED
      BY <1>2, <2>1, <2>2, <2>3, <2>4, <2>5, <2>6
  <1> QED
    BY <1>1, <1>4, <1>5, <1>6

LEMMA ChildKeeps ==
  ASSUME PlanInv, ChildStep, UNCHANGED <<Tool!execution, Tool!tasks>>
  PROVE  PlanInv'
  <1> USE EdgesAssumption DEF PlanInv, PlanTypes, Tool!execution, Tool!tasks
  <1>1. PermissionsHold' /\ Tool!PlannedIsExecuted'
    BY DEF PermissionsHold, Tool!PlannedIsExecuted
  <1>2. CASE Tool!StartTurn
    <2> USE <1>2 DEF Tool!StartTurn
    <2>1. PlanTypes'
      OBVIOUS
    <2>2. TurnsEnd'
      BY DEF TurnsEnd
    <2>3. ObservedHolds' /\ AnswersHold'
      BY DEF ObservedHolds, AnswersHold
    <2> QED
      BY <1>1, <2>1, <2>2, <2>3
  <1>3. CASE Tool!EndTurn
    <2> USE <1>3 DEF Tool!EndTurn, Tool!Over
    <2>1. turn \in 1..MaxTurns
      BY DEF TurnsEnd
    <2>2. PlanTypes'
      BY <2>1
    <2>3. TurnsEnd'
      BY <2>1 DEF TurnsEnd
    <2>4. ObservedHolds' /\ AnswersHold'
      BY <2>1 DEF ObservedHolds, AnswersHold
    <2> QED
      BY <1>1, <2>2, <2>3, <2>4
  <1> QED
    BY <1>2, <1>3 DEF ChildStep

LEMMA TaskKeeps ==
  ASSUME PlanInv, TaskStep, UNCHANGED Tool!execution
  PROVE  PlanInv'
  <1> USE EdgesAssumption DEF PlanInv, PlanTypes, Tool!execution
  <1>1. PermissionsHold' /\ Tool!PlannedIsExecuted'
    BY DEF PermissionsHold, Tool!PlannedIsExecuted
  <1>2. PICK t \in Tool!Tasks :
           \/ Tool!Resolve(t) \/ Tool!Signal(t) \/ Tool!WaitReturns(t) \/ Tool!Check(t)
           \/ Tool!Interrupt(t)
    BY DEF TaskStep
  <1>3. CASE Tool!Resolve(t)
    <2> USE <1>3 DEF Tool!Resolve, Tool!child
    <2>1. PlanTypes' /\ TurnsEnd'
      BY DEF TurnsEnd
    <2>2. ObservedHolds' /\ AnswersHold'
      BY DEF ObservedHolds, AnswersHold
    <2> QED
      BY <1>1, <2>1, <2>2
  <1>4. CASE Tool!Signal(t)
    BY <1>1, <1>4 DEF Tool!Signal, Tool!child, TurnsEnd, ObservedHolds, AnswersHold
  <1>5. CASE Tool!WaitReturns(t)
    <2> USE <1>5 DEF Tool!WaitReturns, Tool!Awaited, Tool!child
    <2>1. observed[t] \in 1..turn
      BY DEF ObservedHolds
    <2>2. (observed[t] # turn \/ ~running) => reason[observed[t]] # NoTarget
      BY <2>1 DEF TurnsEnd
    <2>3. PlanTypes' /\ TurnsEnd' /\ ObservedHolds'
      BY <2>1 DEF TurnsEnd, ObservedHolds
    <2>4. AnswersHold'
      BY <2>1, <2>2 DEF AnswersHold
    <2> QED
      BY <1>1, <2>3, <2>4
  <1>6. CASE Tool!Check(t)
    <2> USE <1>6 DEF Tool!Check, Tool!child
    <2>1. PlanTypes' /\ TurnsEnd' /\ ObservedHolds'
      BY DEF TurnsEnd, ObservedHolds
    <2>2. AnswersHold'
      BY DEF AnswersHold
    <2> QED
      BY <1>1, <2>1, <2>2
  <1>7. CASE Tool!Interrupt(t)
    <2> USE <1>7 DEF Tool!Interrupt, Tool!Over
    <2>1. running => turn \in 1..MaxTurns
      BY DEF TurnsEnd
    <2>2. PlanTypes' /\ ObservedHolds'
      BY <2>1 DEF ObservedHolds
    <2>3. TurnsEnd'
      BY <2>1 DEF TurnsEnd
    <2>4. AnswersHold'
      BY <2>1 DEF AnswersHold
    <2> QED
      BY <1>1, <2>2, <2>3, <2>4
  <1> QED
    BY <1>2, <1>3, <1>4, <1>5, <1>6, <1>7

THEOREM PlanInvariance == AllSpec => []PlanInv
  <1>1. AllInit => PlanInv
    BY PlanStarts
  <1>2. PlanInv /\ [AllNext]_edgesVars => PlanInv'
    <2> SUFFICES ASSUME PlanInv, AllNext \/ UNCHANGED edgesVars PROVE PlanInv'
      OBVIOUS
    <2>1. CASE UNCHANGED toolsVars
      BY <2>1 DEF toolsVars, PlanInv, PlanTypes, PermissionsHold, Tool!PlannedIsExecuted,
                  TurnsEnd, ObservedHolds, AnswersHold
    <2>2. CASE Tool!Next
      <3>1. CASE \E s \in {"path", "name"} : Tool!Moves(s)
        BY <3>1 DEF Tool!Moves, Tool!child, Tool!tasks, PlanInv, PlanTypes, PermissionsHold,
                    Tool!PlannedIsExecuted, TurnsEnd, ObservedHolds, AnswersHold
      <3> QED
        BY <2>2, <3>1, ToolParts, CallKeeps, ChildKeeps, TaskKeeps
    <2> QED
      BY <2>1, <2>2 DEF AllNext, edgesVars
  <1> QED
    BY <1>1, <1>2, PTL DEF AllSpec, edgesVars

\* PlanHolds of MCEdges, for any number of calls, turns and changes of what a name
\* denotes: a command runs without the sandbox where it was approved, a message goes
\* to the agent whose rights were compared, and a wait answers for the turn it has
\* observed (Executor.Execute, managedChildTurn).
THEOREM PlanIsKept == AllSpec => []PlanHolds
  <1>1. PlanInv => PlanHolds
    BY DEF PlanInv, PlanHolds, Tool!PlanHolds, Tool!WaitIsStable, AnswersHold
  <1> QED
    BY <1>1, PlanInvariance, PTL

-----------------------------------------------------------------------------
(* Credentials: a refresh token is sent once, and its successor is stored  *)
(* before it is handed out (Credentials).                                  *)

Credentials == 0..MaxIssued
Entries == [Credential!Names -> Credentials]
LeaderPlaces == {"refresh", "write", "rename", "written", "fail"}

CredentialTypes ==
    /\ file \in Entries /\ view \in [Credential!Actors -> Entries]
    /\ value \in [Credential!Actors -> Credentials]
    /\ issued \in 1..MaxIssued
    /\ used \in [1..MaxIssued -> Nat]
    /\ kPc \in [Credential!Actors ->
                  {"start", "elect", "follow", "callback", "done"} \cup LeaderPlaces]
    /\ flight \in Callers \cup {"nobody"}
    /\ joined \in [Callers -> Callers \cup {"nobody"}]
    /\ kResult \in [Callers -> Credentials \cup {Credential!Error}]

\* One caller at a time works on the credential, and those who follow it know it.
OneFlight ==
    \A c \in Callers :
      /\ kPc[c] \in LeaderPlaces <=> flight = c
      /\ kPc[c] = "follow" => joined[c] \in Callers

\* What was on disk was issued; it is what is read from the file, and what is
\* refreshed.
DiskHolds ==
    /\ stored \subseteq 0..issued /\ file["chatgpt"] \in stored
    /\ \A a \in Credential!Actors : kPc[a] = "rename" => view[a]["chatgpt"] \in stored
    /\ \A c \in Callers :
         /\ kPc[c] = "refresh" => value[c] > 0 /\ value[c] \in stored
         /\ kPc[c] \in {"write", "rename"} => value[c] > 0
         /\ kPc[c] = "written" => value[c] \in stored

\* A credential an actor is about to store is new, and its own.
Pending(a) ==
    /\ kPc[a] \in {"write", "rename"} /\ Credential!Entry(a) = "chatgpt" /\ value[a] > 0
PendingIsNew ==
    \A a \in Credential!Actors : Pending(a) =>
      /\ value[a] <= issued /\ value[a] \notin stored
      /\ \A b \in Credential!Actors : Pending(b) /\ value[b] = value[a] => b = a

\* The issuer accepts what was not sent; what was sent is replaced: its successor is
\* about to be stored, is in the file instead of it, or is lost.
UsesHold ==
    \A n \in 1..MaxIssued :
      /\ used[n] > 0 => n \in stored
      /\ n <= issued /\ used[n] = 0 => n \in accepted
      /\ \A c \in Callers : kPc[c] = "refresh" /\ value[c] = n /\ n \notin lost => used[n] = 0
      /\ file["chatgpt"] = n /\ n \notin lost /\ used[n] > 0 =>
            \E c \in Callers : kPc[c] \in {"write", "rename"}

CredentialInv ==
    /\ CredentialTypes /\ OneFlight /\ DiskHolds /\ PendingIsNew /\ UsesHold
    /\ Credential!CredentialsKept

LEMMA CredentialStarts == AllInit => CredentialInv
  <1> SUFFICES ASSUME Credential!Init PROVE CredentialInv
    BY DEF AllInit
  <1> USE EdgesAssumption DEF Credential!Init, Credential!Actors, Credential!Names,
                              Credential!Empty, Credentials, Entries, LeaderPlaces
  <1>1. CredentialTypes
    <2>1. file \in Entries /\ view \in [Credential!Actors -> Entries]
      OBVIOUS
    <2>2. value \in [Credential!Actors -> Credentials] /\ issued \in 1..MaxIssued
      OBVIOUS
    <2>3. used \in [1..MaxIssued -> Nat]
      OBVIOUS
    <2>4. kPc \in [Credential!Actors ->
                     {"start", "elect", "follow", "callback", "done"} \cup LeaderPlaces]
      OBVIOUS
    <2>5. /\ flight \in Callers \cup {"nobody"}
          /\ joined \in [Callers -> Callers \cup {"nobody"}]
          /\ kResult \in [Callers -> Credentials \cup {Credential!Error}]
      OBVIOUS
    <2> QED
      BY <2>1, <2>2, <2>3, <2>4, <2>5 DEF CredentialTypes
  <1>2. OneFlight
    BY DEF OneFlight
  <1>3. DiskHolds
    BY DEF DiskHolds
  <1>4. PendingIsNew
    BY DEF PendingIsNew, Pending
  <1>5. UsesHold
    BY DEF UsesHold
  <1>6. Credential!CredentialsKept
    BY DEF Credential!CredentialsKept, Credential!PersistedFirst, Credential!RefreshedOnce,
           Credential!ListenerClosed
  <1> QED
    BY <1>1, <1>2, <1>3, <1>4, <1>5, <1>6 DEF CredentialInv

\* Where nothing is issued, sent or stored, and the file stays, the uses are accounted
\* for as long as nobody starts a refresh or gives up a write.
LEMMA UsesKept ==
  ASSUME UsesHold, UNCHANGED <<issued, accepted, used, stored, file>>, lost \subseteq lost',
         \A c \in Callers : kPc'[c] = "refresh" => kPc[c] = "refresh" /\ value'[c] = value[c],
         \A c \in Callers : kPc[c] \in {"write", "rename"} =>
            kPc'[c] \in {"write", "rename"} \/ file["chatgpt"] \in lost'
  PROVE  UsesHold'
  BY DEF UsesHold

\* Callers keep the promises when they return nothing but what was stored.
LEMMA CallerPromises ==
  ASSUME Credential!CredentialsKept, stored \subseteq stored', used' = used,
         lost \subseteq lost', kPc'["cli"] = kPc["cli"], listening' = listening,
         \A c \in Callers : \/ kResult'[c] = kResult[c] \/ kResult'[c] \in stored'
                            \/ kResult'[c] = Credential!Error
  PROVE  Credential!CredentialsKept'
  BY DEF Credential!CredentialsKept, Credential!PersistedFirst, Credential!RefreshedOnce,
         Credential!ListenerClosed, Credential!Error

LEMMA GetKeeps ==
  ASSUME CredentialInv, NEW c \in Callers, Credential!Get(c)
  PROVE  CredentialInv'
  <1> USE EdgesAssumption DEF CredentialInv, Credential!Get, Credential!Return, Credential!Go,
                              Credential!issuer, Credential!store, Credential!browser
  <1>0. /\ Callers \subseteq Credential!Actors /\ "cli" \in Credential!Actors
        /\ file["chatgpt"] \in Credentials /\ Credential!Error \notin Credentials
    BY DEF Credential!Actors, Credential!Error, CredentialTypes, Credentials, Entries,
           Credential!Names
  <1>1. CredentialTypes'
    BY <1>0 DEF CredentialTypes, LeaderPlaces
  <1>2. OneFlight'
    BY <1>0 DEF OneFlight, CredentialTypes, LeaderPlaces
  <1>3. DiskHolds'
    BY <1>0 DEF DiskHolds, CredentialTypes
  <1>4. PendingIsNew'
    BY <1>0 DEF PendingIsNew, Pending, Credential!Entry, CredentialTypes
  <1>5. UsesHold'
    BY <1>0, UsesKept DEF CredentialTypes
  <1>6. Credential!CredentialsKept'
    <2>1. /\ kPc'["cli"] = kPc["cli"]
          /\ \A b \in Callers : \/ kResult'[b] = kResult[b] \/ kResult'[b] = file["chatgpt"]
                                \/ kResult'[b] = Credential!Error
      BY <1>0 DEF CredentialTypes
    <2> QED
      BY <2>1, CallerPromises DEF DiskHolds
  <1> QED
    BY <1>1, <1>2, <1>3, <1>4, <1>5, <1>6

LEMMA ElectKeeps ==
  ASSUME CredentialInv, NEW c \in Callers, Credential!Elect(c)
  PROVE  CredentialInv'
  <1> USE EdgesAssumption DEF CredentialInv, Credential!Elect, Credential!Latest,
                              Credential!Return, Credential!Go, Credential!issuer,
                              Credential!store, Credential!browser
  <1>0. /\ Callers \subseteq Credential!Actors /\ "cli" \in Credential!Actors
        /\ file["chatgpt"] \in Credentials /\ Credential!Error \notin Credentials
    BY DEF Credential!Actors, Credential!Error, CredentialTypes, Credentials, Entries,
           Credential!Names
  <1>1. CASE flight = "nobody" /\ kPc' = [kPc EXCEPT ![c] = "refresh"]
    <2>0. /\ flight' = c /\ value' = [value EXCEPT ![c] = file["chatgpt"]]
          /\ file["chatgpt"] # 0 /\ kPc[c] = "elect"
          /\ UNCHANGED <<joined, kResult>>
      BY <1>0, <1>1 DEF CredentialTypes
    <2>1. CredentialTypes'
      BY <1>0, <1>1, <2>0 DEF CredentialTypes, LeaderPlaces
    <2>2. OneFlight'
      BY <1>0, <1>1, <2>0 DEF OneFlight, CredentialTypes, LeaderPlaces
    <2>3. file["chatgpt"] > 0 /\ file["chatgpt"] \in stored
      BY <1>0, <2>0 DEF DiskHolds, Credentials
    <2>4. DiskHolds'
      BY <1>0, <1>1, <2>0, <2>3 DEF DiskHolds, CredentialTypes
    <2>5. PendingIsNew'
      BY <1>0, <1>1, <2>0 DEF PendingIsNew, Pending, Credential!Entry, CredentialTypes
    <2>6. \A b \in Callers : kPc[b] \notin {"write", "rename", "refresh"}
      BY <1>1 DEF OneFlight, LeaderPlaces
    <2>7. \A b \in Callers : kPc'[b] = "refresh" => b = c
      BY <1>0, <1>1, <2>6 DEF CredentialTypes
    <2>8. value'[c] = file["chatgpt"]
      BY <1>0, <2>0 DEF CredentialTypes
    <2>9. UsesHold'
      <3> HIDE DEF Credential!Elect
      <3>1. \A n \in 1..MaxIssued : file["chatgpt"] = n /\ n \notin lost => used[n] = 0
        <4>1. \A n \in 1..MaxIssued : used[n] \in Nat
          BY DEF CredentialTypes
        <4> QED
          BY <2>6, <4>1 DEF UsesHold
      <3>2. UNCHANGED <<file, stored, issued, accepted, used, lost>>
        BY DEF Credential!Elect
      <3> QED
        BY <2>7, <2>8, <3>1, <3>2 DEF UsesHold
    <2>10. Credential!CredentialsKept'
      BY <1>0, <1>1, <2>0, CallerPromises DEF CredentialTypes
    <2> QED
      BY <2>1, <2>2, <2>4, <2>5, <2>9, <2>10
  <1>2. CASE ~(flight = "nobody" /\ kPc' = [kPc EXCEPT ![c] = "refresh"])
    <2>0. /\ UNCHANGED <<flight, value>> /\ kPc[c] = "elect"
          /\ kPc' = [kPc EXCEPT ![c] = "follow"] \/ kPc' = [kPc EXCEPT ![c] = "done"]
      BY <1>2
    <2>1. \/ joined' = joined /\ kPc' = [kPc EXCEPT ![c] = "done"]
          \/ /\ joined' = [joined EXCEPT ![c] = flight] /\ flight # "nobody"
             /\ kPc' = [kPc EXCEPT ![c] = "follow"]
      BY <1>2
    <2>2. \/ kResult' = kResult
          \/ \E r \in {file["chatgpt"], Credential!Error} :
                kResult' = [kResult EXCEPT ![c] = r]
      BY <1>2
    <2>3. CredentialTypes'
      <3>1. kResult' \in [Callers -> Credentials \cup {Credential!Error}]
        BY <1>0, <2>2 DEF CredentialTypes
      <3>2. /\ joined' \in [Callers -> Callers \cup {"nobody"}]
            /\ kPc' \in [Credential!Actors ->
                          {"start", "elect", "follow", "callback", "done"} \cup LeaderPlaces]
        BY <2>0, <2>1 DEF CredentialTypes
      <3> QED
        BY <2>0, <3>1, <3>2 DEF CredentialTypes
    <2>4. OneFlight'
      BY <1>0, <2>0, <2>1 DEF OneFlight, CredentialTypes, LeaderPlaces
    <2>5. DiskHolds' /\ PendingIsNew'
      BY <1>0, <2>0 DEF DiskHolds, PendingIsNew, Pending, Credential!Entry, CredentialTypes
    <2>6. UsesHold'
      BY <1>0, <2>0, UsesKept DEF CredentialTypes
    <2>7. Credential!CredentialsKept'
      <3>1. /\ kPc'["cli"] = kPc["cli"]
            /\ \A b \in Callers : \/ kResult'[b] = kResult[b] \/ kResult'[b] = file["chatgpt"]
                                  \/ kResult'[b] = Credential!Error
        BY <1>0, <2>0, <2>2 DEF CredentialTypes
      <3> QED
        BY <3>1, CallerPromises DEF DiskHolds
    <2> QED
      BY <2>3, <2>4, <2>5, <2>6, <2>7
  <1> QED
    BY <1>1, <1>2

LEMMA FollowKeeps ==
  ASSUME CredentialInv, NEW c \in Callers, Credential!Follow(c)
  PROVE  CredentialInv'
  <1> USE EdgesAssumption DEF CredentialInv, Credential!Follow, Credential!Return,
                              Credential!Go, Credential!issuer, Credential!store,
                              Credential!browser
  <1>0. /\ Callers \subseteq Credential!Actors /\ "cli" \in Credential!Actors
        /\ file["chatgpt"] \in Credentials /\ Credential!Error \notin Credentials
    BY DEF Credential!Actors, Credential!Error, CredentialTypes, Credentials, Entries,
           Credential!Names
  <1>1. PICK r \in {Credential!Error, kResult[joined[c]]} :
           kPc' = [kPc EXCEPT ![c] = "done"] /\ kResult' = [kResult EXCEPT ![c] = r]
    OBVIOUS
  <1>2. joined[c] \in Callers /\ kPc[c] = "follow"
    BY DEF OneFlight
  <1>3. CredentialTypes'
    <2>1. r \in Credentials \cup {Credential!Error}
      BY <1>1, <1>2 DEF CredentialTypes
    <2> QED
      BY <1>0, <1>1, <2>1 DEF CredentialTypes
  <1>4. OneFlight'
    BY <1>0, <1>1, <1>2 DEF OneFlight, CredentialTypes, LeaderPlaces
  <1>5. DiskHolds' /\ PendingIsNew'
    BY <1>0, <1>1 DEF DiskHolds, PendingIsNew, Pending, Credential!Entry, CredentialTypes
  <1>6. UsesHold'
    BY <1>0, <1>1, <1>2, UsesKept DEF CredentialTypes
  <1>7. Credential!CredentialsKept'
    <2>1. kPc'["cli"] = kPc["cli"]
      BY <1>0, <1>1 DEF CredentialTypes
    <2>2. r > 0 => r \in stored
      BY <1>1, <1>2 DEF Credential!CredentialsKept, Credential!PersistedFirst,
                        Credential!Error
    <2>3. \A b \in Callers : kResult'[b] = IF b = c THEN r ELSE kResult[b]
      BY <1>1 DEF CredentialTypes
    <2> QED
      BY <2>1, <2>2, <2>3 DEF Credential!CredentialsKept, Credential!PersistedFirst,
                              Credential!RefreshedOnce, Credential!ListenerClosed
  <1> QED
    BY <1>3, <1>4, <1>5, <1>6, <1>7

LEMMA RefreshKeeps ==
  ASSUME CredentialInv, NEW c \in Callers, Credential!Refresh(c)
  PROVE  CredentialInv'
  <1> USE EdgesAssumption DEF CredentialInv, Credential!Refresh, Credential!Go,
                              Credential!Issue, Credential!issuer, Credential!store,
                              Credential!browser
  <1>0. /\ Callers \subseteq Credential!Actors /\ "cli" \in Credential!Actors
        /\ file["chatgpt"] \in Credentials /\ Credential!Error \notin Credentials
    BY DEF Credential!Actors, Credential!Error, CredentialTypes, Credentials, Entries,
           Credential!Names
  <1> DEFINE n == value[c]
  <1>1. n \in 1..MaxIssued /\ n <= issued /\ n \in stored /\ kPc[c] = "refresh" /\ c # "cli"
    BY <1>0 DEF DiskHolds, CredentialTypes, Credentials
  <1>2. \A b \in Callers : b # c => kPc[b] \notin LeaderPlaces
    BY <1>1 DEF OneFlight, LeaderPlaces
  <1>3. \A m \in 1..MaxIssued : file["chatgpt"] = m /\ m \notin lost => used[m] = 0
    <2>1. \A m \in 1..MaxIssued : used[m] \in Nat
      BY DEF CredentialTypes
    <2>2. \A b \in Callers : kPc[b] \notin {"write", "rename"}
      BY <1>1, <1>2 DEF LeaderPlaces
    <2> HIDE DEF Credential!Refresh
    <2> QED
      BY <2>1, <2>2 DEF UsesHold
  <1>4. n \notin lost => used[n] = 0 /\ n \in accepted
    BY <1>1 DEF UsesHold
  <1>5. UNCHANGED <<file, stored, view, flight, joined, kResult, listening, command>>
    OBVIOUS
  <1>6. /\ used \in [1..MaxIssued -> Nat]
        /\ kPc \in [Credential!Actors ->
                      {"start", "elect", "follow", "callback", "done"} \cup LeaderPlaces]
        /\ value \in [Credential!Actors -> Credentials] /\ issued \in 1..MaxIssued
    BY DEF CredentialTypes
  <1>7. CASE /\ kPc' = [kPc EXCEPT ![c] = "write"] /\ n \in accepted
             /\ issued' = issued + 1 /\ issued < MaxIssued
             /\ accepted' = (accepted \ {n}) \cup {issued + 1}
             /\ used' = [used EXCEPT ![n] = @ + 1] /\ lost' = lost
             /\ value' = [value EXCEPT ![c] = issued + 1]
    <2>1. CredentialTypes'
      BY <1>0, <1>1, <1>5, <1>7 DEF CredentialTypes, LeaderPlaces, Credentials
    <2>2. OneFlight'
      BY <1>0, <1>1, <1>5, <1>7 DEF OneFlight, CredentialTypes, LeaderPlaces
    <2>3. DiskHolds'
      BY <1>0, <1>1, <1>2, <1>5, <1>6, <1>7 DEF DiskHolds, LeaderPlaces
    <2>4. PendingIsNew'
      BY <1>0, <1>1, <1>5, <1>6, <1>7
         DEF PendingIsNew, Pending, Credential!Entry, DiskHolds, Credentials
    <2>5. UsesHold'
      <3>1. \A b \in Callers : kPc'[b] # "refresh"
        BY <1>0, <1>2, <1>6, <1>7 DEF LeaderPlaces
      <3>2. kPc'[c] = "write"
        BY <1>0, <1>6, <1>7
      <3>3. \A m \in 1..MaxIssued : used'[m] = IF m = n THEN used[n] + 1 ELSE used[m]
        BY <1>1, <1>6, <1>7
      <3>4. \A m \in 1..MaxIssued : used'[m] > 0 => m \in stored
        BY <1>1, <3>3 DEF UsesHold
      <3>5. \A m \in 1..MaxIssued : m <= issued + 1 /\ used'[m] = 0 => m \in accepted'
        BY <1>6, <1>7, <3>3 DEF UsesHold
      <3> QED
        BY <1>5, <1>7, <3>1, <3>2, <3>4, <3>5 DEF UsesHold
    <2>6. Credential!CredentialsKept'
      <3>1. kPc'["cli"] = kPc["cli"]
        BY <1>0, <1>1, <1>6, <1>7
      <3>2. \A m \in 1..MaxIssued : used'[m] > 1 => m \in lost
        <4>1. n \notin lost => used'[n] = 1
          BY <1>1, <1>4, <1>6, <1>7
        <4>2. \A m \in 1..MaxIssued : m # n => used'[m] = used[m]
          BY <1>1, <1>6, <1>7
        <4> QED
          BY <4>1, <4>2 DEF Credential!CredentialsKept, Credential!RefreshedOnce
      <3> QED
        BY <1>5, <1>7, <3>1, <3>2 DEF Credential!CredentialsKept, Credential!PersistedFirst,
                                Credential!RefreshedOnce, Credential!ListenerClosed
    <2> QED
      BY <2>1, <2>2, <2>3, <2>4, <2>5, <2>6
  <1>8. CASE /\ kPc' = [kPc EXCEPT ![c] = "fail"] /\ value' = value /\ issued' \in 1..MaxIssued
             /\ issued <= issued' /\ lost \subseteq lost'
             /\ used' = [used EXCEPT ![n] = @ + 1] \/ used' = used
             /\ used' # used => n \in lost'
             /\ \A m \in 1..issued' :
                   m \notin accepted' => (m \notin accepted /\ m <= issued) \/ m = n
             /\ n \notin accepted' => used'[n] > 0
             /\ \A m \in 1..MaxIssued : used'[m] > 1 => m \in lost'
    <2>1. CredentialTypes'
      <3>1. used' \in [1..MaxIssued -> Nat]
        <4> HIDE DEF Credential!Refresh
        <4>1. n \in 1..MaxIssued /\ used[n] + 1 \in Nat
          BY <1>1, <1>6
        <4> HIDE DEF n
        <4>2. [used EXCEPT ![n] = used[n] + 1] \in [1..MaxIssued -> Nat]
          BY <1>6, <4>1
        <4> QED
          BY <1>6, <1>8, <4>2
      <3>2. kPc' \in [Credential!Actors ->
                        {"start", "elect", "follow", "callback", "done"} \cup LeaderPlaces]
        BY <1>0, <1>6, <1>8 DEF LeaderPlaces
      <3> HIDE DEF Credential!Refresh
      <3> QED
        BY <1>5, <1>8, <3>1, <3>2 DEF CredentialTypes
    <2>2. OneFlight'
      BY <1>0, <1>1, <1>5, <1>8 DEF OneFlight, CredentialTypes, LeaderPlaces
    <2>3. DiskHolds'
      BY <1>0, <1>1, <1>2, <1>5, <1>6, <1>8 DEF DiskHolds, LeaderPlaces
    <2>4. PendingIsNew'
      BY <1>0, <1>1, <1>5, <1>6, <1>8
         DEF PendingIsNew, Pending, Credential!Entry, DiskHolds, Credentials
    <2>5. UsesHold'
      <3>1. \A b \in Callers : kPc'[b] # "refresh"
        BY <1>0, <1>2, <1>6, <1>8 DEF LeaderPlaces
      <3>2. \A m \in 1..MaxIssued : m # n => used'[m] = used[m]
        BY <1>1, <1>6, <1>8
      <3>3. \A m \in 1..MaxIssued : used'[m] > 0 => m \in stored
        BY <1>1, <3>2 DEF UsesHold
      <3>4. \A m \in 1..MaxIssued : m <= issued' /\ used'[m] = 0 => m \in accepted'
        BY <1>1, <1>6, <1>8, <3>2 DEF UsesHold
      <3>5. \A m \in 1..MaxIssued : file["chatgpt"] = m /\ m \notin lost' => used'[m] = 0
        <4> HIDE DEF Credential!Refresh
        <4>1. CASE used' = used
          BY <1>3, <1>8, <4>1
        <4>2. CASE n \in lost'
          BY <1>3, <1>8, <3>2, <4>2
        <4> QED
          BY <1>8, <4>1, <4>2
      <3> QED
        BY <1>5, <3>1, <3>3, <3>4, <3>5 DEF UsesHold
    <2>6. Credential!CredentialsKept'
      <3>1. kPc'["cli"] = kPc["cli"]
        BY <1>0, <1>1, <1>6, <1>8
      <3> QED
        BY <1>5, <1>8, <3>1 DEF Credential!CredentialsKept, Credential!PersistedFirst,
                                Credential!RefreshedOnce, Credential!ListenerClosed
    <2> QED
      BY <2>1, <2>2, <2>3, <2>4, <2>5, <2>6
  <1>9. \A m \in 1..MaxIssued : used[m] > 1 => m \in lost
    BY DEF Credential!CredentialsKept, Credential!RefreshedOnce
  <1>10. [used EXCEPT ![n] = @ + 1][n] > 0
    BY <1>1, <1>6
  <1>11. \A m \in 1..MaxIssued : m # n => [used EXCEPT ![n] = @ + 1][m] = used[m]
    BY <1>1, <1>6
  <1>12. CASE /\ kPc' = [kPc EXCEPT ![c] = "fail"] /\ UNCHANGED value
              /\ n \in accepted /\ issued' = issued + 1 /\ issued < MaxIssued
              /\ accepted' = (accepted \ {n}) \cup {issued + 1}
              /\ used' = [used EXCEPT ![n] = @ + 1] /\ lost' = lost \cup {n}
    BY <1>6, <1>8, <1>9, <1>10, <1>11, <1>12
  <1>13. CASE /\ kPc' = [kPc EXCEPT ![c] = "fail"] /\ UNCHANGED <<issued, accepted, value, lost>>
              /\ n \notin accepted /\ used' = [used EXCEPT ![n] = @ + 1]
    BY <1>4, <1>6, <1>8, <1>9, <1>10, <1>11, <1>13
  <1>14. CASE /\ kPc' = [kPc EXCEPT ![c] = "fail"]
              /\ UNCHANGED <<issued, accepted, used, value, lost>>
    <2>1. n \notin accepted => used[n] > 0
      BY <1>1, <1>6 DEF UsesHold
    <2> QED
      BY <1>6, <1>8, <1>9, <1>14, <2>1
  <1> QED
    BY <1>7, <1>12, <1>13, <1>14

LEMMA PublishKeeps ==
  ASSUME CredentialInv, NEW c \in Callers, Credential!Publish(c)
  PROVE  CredentialInv'
  <1> USE EdgesAssumption DEF CredentialInv, Credential!Publish, Credential!Published,
                              Credential!Go, Credential!Return, Credential!issuer,
                              Credential!store, Credential!browser
  <1>0. /\ Callers \subseteq Credential!Actors /\ "cli" \in Credential!Actors
        /\ file["chatgpt"] \in Credentials /\ Credential!Error \notin Credentials
    BY DEF Credential!Actors, Credential!Error, CredentialTypes, Credentials, Entries,
           Credential!Names
  <1>1. CredentialTypes'
    BY <1>0 DEF CredentialTypes
  <1>2. OneFlight'
    BY <1>0 DEF OneFlight, CredentialTypes, LeaderPlaces
  <1>3. DiskHolds'
    BY <1>0 DEF DiskHolds, CredentialTypes
  <1>4. PendingIsNew'
    BY <1>0 DEF PendingIsNew, Pending, Credential!Entry, CredentialTypes
  <1>5. UsesHold'
    BY <1>0, UsesKept DEF CredentialTypes
  <1>6. Credential!CredentialsKept'
    <2>1. PICK r : /\ kResult' = [kResult EXCEPT ![c] = r]
                   /\ r = Credential!Error \/ r \in stored
      BY DEF DiskHolds
    <2>2. kPc'["cli"] = kPc["cli"]
      BY <1>0 DEF CredentialTypes
    <2> QED
      BY <2>1, <2>2, CallerPromises DEF CredentialTypes
  <1> QED
    BY <1>1, <1>2, <1>3, <1>4, <1>5, <1>6

LEMMA ReadFileKeeps ==
  ASSUME CredentialInv, NEW a \in Credential!Actors, Credential!ReadFile(a)
  PROVE  CredentialInv'
  <1> USE EdgesAssumption DEF CredentialInv, Credential!ReadFile, Credential!Unstored,
                              Credential!Go, Credential!issuer, Credential!browser
  <1>0. /\ Callers \subseteq Credential!Actors /\ "cli" \in Credential!Actors
        /\ file["chatgpt"] \in Credentials /\ Credential!Error \notin Credentials
    BY DEF Credential!Actors, Credential!Error, CredentialTypes, Credentials, Entries,
           Credential!Names
  <1>1. /\ kPc[a] = "write"
        /\ \/ /\ kPc' = [kPc EXCEPT ![a] = "rename"] /\ view' = [view EXCEPT ![a] = file]
              /\ lost' = lost
           \/ /\ kPc' = [kPc EXCEPT ![a] = "fail"] /\ view' = view /\ lost \subseteq lost'
              /\ a \in Callers => file["chatgpt"] \in lost'
    OBVIOUS
  <1>2. UNCHANGED <<file, stored, issued, accepted, used, value, flight, joined, kResult,
                    command, listening>>
    OBVIOUS
  <1>3. CredentialTypes'
    BY <1>1, <1>2 DEF CredentialTypes, LeaderPlaces
  <1>4. OneFlight'
    BY <1>0, <1>1, <1>2 DEF OneFlight, CredentialTypes, LeaderPlaces
  <1>5. DiskHolds'
    <2>1. \A b \in Credential!Actors : kPc'[b] = "rename" => view'[b]["chatgpt"] \in stored
      BY <1>1 DEF DiskHolds, CredentialTypes
    <2>2. \A b \in Callers :
             /\ kPc'[b] \in {"refresh", "written"} => kPc[b] = kPc'[b]
             /\ kPc'[b] \in {"write", "rename"} => kPc[b] \in {"write", "rename"}
      BY <1>0, <1>1 DEF CredentialTypes
    <2> QED
      BY <1>2, <2>1, <2>2 DEF DiskHolds
  <1>6. PendingIsNew'
    BY <1>1, <1>2 DEF PendingIsNew, Pending, Credential!Entry, CredentialTypes
  <1>7. UsesHold'
    <2>1. \A b \in Callers : kPc'[b] = "refresh" => kPc[b] = "refresh"
      BY <1>0, <1>1 DEF CredentialTypes
    <2>2. \A b \in Callers : kPc[b] \in {"write", "rename"} =>
             kPc'[b] \in {"write", "rename"} \/ file["chatgpt"] \in lost'
      BY <1>0, <1>1 DEF CredentialTypes
    <2> QED
      BY <1>1, <1>2, <2>1, <2>2, UsesKept
  <1>8. Credential!CredentialsKept'
    <2>1. kPc["cli"] # "callback" \/ kPc'["cli"] = "callback"
      BY <1>0, <1>1 DEF CredentialTypes
    <2>2. lost \subseteq lost'
      BY <1>1
    <2> HIDE DEF Credential!ReadFile
    <2> QED
      BY <1>2, <2>1, <2>2 DEF Credential!CredentialsKept, Credential!PersistedFirst,
                              Credential!RefreshedOnce, Credential!ListenerClosed
  <1> QED
    BY <1>3, <1>4, <1>5, <1>6, <1>7, <1>8

LEMMA RenameKeeps ==
  ASSUME CredentialInv, NEW a \in Credential!Actors, Credential!Rename(a)
  PROVE  CredentialInv'
  <1> USE EdgesAssumption DEF CredentialInv, Credential!Rename, Credential!Unstored,
                              Credential!Go, Credential!issuer, Credential!browser
  <1>0. /\ Callers \subseteq Credential!Actors /\ "cli" \in Credential!Actors
        /\ file["chatgpt"] \in Credentials /\ Credential!Error \notin Credentials
    BY DEF Credential!Actors, Credential!Error, CredentialTypes, Credentials, Entries,
           Credential!Names
  <1>1. /\ kPc[a] = "rename" /\ view' = [view EXCEPT ![a] = Credential!Empty]
        /\ \E place \in {"written", "fail"} : kPc' = [kPc EXCEPT ![a] = place]
        /\ lost \subseteq lost'
    OBVIOUS
  <1>2. UNCHANGED <<issued, accepted, used, value, flight, joined, kResult, command,
                    listening>>
    OBVIOUS
  <1>3. \A b \in Credential!Actors :
           \/ b # a /\ kPc'[b] = kPc[b]
           \/ b = a /\ kPc'[b] \in {"written", "fail"}
    BY <1>1 DEF CredentialTypes
  <1>4. OneFlight'
    BY <1>0, <1>1, <1>2, <1>3 DEF OneFlight, LeaderPlaces
  <1>5. stored \subseteq stored' => Credential!CredentialsKept'
    <2>1. a = "cli" => kPc["cli"] # "callback" /\ kPc'["cli"] # "callback"
      BY <1>0, <1>1, <1>3
    <2> QED
      BY <1>0, <1>1, <1>2, <1>3, <2>1
         DEF Credential!CredentialsKept, Credential!PersistedFirst, Credential!RefreshedOnce,
             Credential!ListenerClosed
  <1>8. /\ view' \in [Credential!Actors -> Entries]
        /\ kPc' \in [Credential!Actors ->
                       {"start", "elect", "follow", "callback", "done"} \cup LeaderPlaces]
    <2>1. Credential!Empty \in Entries
      BY DEF Entries, Credential!Empty, Credentials
    <2> QED
      BY <1>1, <2>1 DEF CredentialTypes, LeaderPlaces
  <1>6. CASE /\ file' = [view[a] EXCEPT ![Credential!Entry(a)] = value[a]]
             /\ stored' = stored \cup {file'["chatgpt"]}
             /\ lost' = IF /\ Credential!Entry(a) = "other"
                           /\ view[a]["chatgpt"] # file["chatgpt"]
                        THEN lost \cup {view[a]["chatgpt"]} ELSE lost
    <2>1. CASE Credential!Entry(a) = "chatgpt"
      <3>1. file' \in Entries /\ file'["chatgpt"] = value[a] /\ value[a] \in Credentials
        BY <1>6, <2>1 DEF CredentialTypes, Entries, Credential!Names
      <3>2. \/ value[a] = 0
            \/ value[a] > 0 /\ Pending(a) /\ value[a] <= issued /\ value[a] \notin stored
        BY <1>1, <2>1, <3>1 DEF PendingIsNew, Pending, Credentials
      <3>3. CredentialTypes'
        BY <1>2, <1>8, <3>1 DEF CredentialTypes
      <3>4. DiskHolds'
        <4>1. stored' \subseteq 0..issued
          <5> HIDE DEF Credential!Rename
          <5>1. value[a] \in 0..issued
            BY <3>1, <3>2 DEF CredentialTypes, Credentials
          <5> QED
            BY <1>6, <3>1, <5>1 DEF DiskHolds
        <4>2. \A b \in Callers : kPc'[b] = "written" => value[b] \in stored'
          BY <1>0, <1>3, <1>6, <3>1 DEF DiskHolds
        <4>3. \A b \in Credential!Actors : kPc'[b] = "rename" =>
                 kPc[b] = "rename" /\ view'[b] = view[b]
          BY <1>1, <1>3 DEF CredentialTypes
        <4>4. \A b \in Callers : kPc'[b] \in {"refresh", "write", "rename"} => kPc'[b] = kPc[b]
          BY <1>0, <1>3
        <4> QED
          BY <1>2, <1>6, <4>1, <4>2, <4>3, <4>4 DEF DiskHolds
      <3>5. PendingIsNew'
        <4> HIDE DEF Credential!Rename
        <4>1. \A b \in Credential!Actors : Pending(b)' => Pending(b) /\ b # a
          BY <1>2, <1>3 DEF Pending, Credential!Entry
        <4>2. \A b \in Credential!Actors : Pending(b) => value[b] > 0
          BY DEF Pending
        <4>3. \A b \in Credential!Actors : Pending(b) /\ b # a => value[b] # value[a]
          BY <3>2, <4>2 DEF PendingIsNew
        <4> QED
          BY <1>2, <1>6, <3>1, <4>1, <4>3 DEF PendingIsNew
      <3>6. UsesHold'
        BY <1>0, <1>2, <1>3, <1>6, <3>1, <3>2 DEF UsesHold
      <3> QED
        BY <1>4, <1>5, <1>6, <3>3, <3>4, <3>5, <3>6
    <2>2. CASE Credential!Entry(a) = "other"
      <3>1. a = "cli" /\ a \notin Callers
        BY <1>0, <2>2 DEF Credential!Entry
      <3>2. file' \in Entries /\ file'["chatgpt"] = view[a]["chatgpt"]
        BY <1>6, <2>2 DEF CredentialTypes, Entries, Credential!Names
      <3>3. stored' = stored
        BY <1>1, <1>6, <3>2 DEF DiskHolds
      <3>4. CredentialTypes'
        BY <1>2, <1>8, <3>2 DEF CredentialTypes
      <3>5. DiskHolds'
        <4>1. \A b \in Credential!Actors : kPc'[b] = "rename" =>
                 kPc[b] = "rename" /\ view'[b] = view[b]
          BY <1>1, <1>3 DEF CredentialTypes
        <4>2. \A b \in Callers : kPc'[b] = kPc[b]
          BY <1>0, <1>3, <3>1
        <4> QED
          BY <1>1, <1>2, <3>2, <3>3, <4>1, <4>2 DEF DiskHolds
      <3>6. PendingIsNew'
        BY <1>2, <1>3, <3>3 DEF PendingIsNew, Pending, Credential!Entry
      <3>7. UsesHold'
        <4>1. \A b \in Callers : kPc'[b] = kPc[b]
          BY <1>0, <1>3, <3>1
        <4>2. file'["chatgpt"] = file["chatgpt"] \/ file'["chatgpt"] \in lost'
          BY <1>6, <2>2, <3>2
        <4> QED
          BY <1>1, <1>2, <3>3, <4>1, <4>2 DEF UsesHold
      <3> QED
        BY <1>4, <1>5, <3>3, <3>4, <3>5, <3>6, <3>7
    <2> QED
      BY <2>1, <2>2 DEF Credential!Entry
  <1>7. CASE /\ UNCHANGED <<file, stored>>
             /\ a \in Callers => file["chatgpt"] \in lost'
             /\ kPc' = [kPc EXCEPT ![a] = "fail"]
    <2>1. CredentialTypes'
      BY <1>2, <1>7, <1>8 DEF CredentialTypes
    <2>2. DiskHolds'
      <3>1. \A b \in Credential!Actors : kPc'[b] = "rename" =>
               kPc[b] = "rename" /\ view'[b] = view[b]
        BY <1>1, <1>3 DEF CredentialTypes
      <3>2. \A b \in Callers :
               kPc'[b] \in {"refresh", "write", "rename", "written"} => kPc'[b] = kPc[b]
        BY <1>0, <1>7 DEF CredentialTypes
      <3> HIDE DEF Credential!Rename
      <3> QED
        BY <1>2, <1>7, <3>1, <3>2 DEF DiskHolds
    <2>3. PendingIsNew'
      <3> HIDE DEF Credential!Rename
      <3>1. \A b \in Credential!Actors : Pending(b)' => Pending(b)
        BY <1>2, <1>3 DEF Pending, Credential!Entry
      <3> QED
        BY <1>2, <1>7, <3>1 DEF PendingIsNew
    <2>4. UsesHold'
      <3> HIDE DEF Credential!Rename
      <3>1. \A b \in Callers : kPc'[b] = "refresh" => kPc[b] = "refresh"
        BY <1>0, <1>3
      <3>2. \A b \in Callers : kPc[b] \in {"write", "rename"} =>
               kPc'[b] \in {"write", "rename"} \/ file["chatgpt"] \in lost'
        BY <1>0, <1>3, <1>7
      <3> QED
        BY <1>1, <1>2, <1>7, <3>1, <3>2, UsesKept
    <2> QED
      BY <1>4, <1>5, <1>7, <2>1, <2>2, <2>3, <2>4
  <1> QED
    BY <1>6, <1>7

LEMMA CommandKeeps ==
  ASSUME CredentialInv, NEW what \in Credential!Commands, Credential!Command(what)
  PROVE  CredentialInv'
  <1> USE EdgesAssumption DEF CredentialInv, Credential!Command, Credential!Go,
                              Credential!Commands, Credential!issuer, Credential!store
  <1>0. Callers \subseteq Credential!Actors /\ "cli" \in Credential!Actors
    BY DEF Credential!Actors
  <1>1. CredentialTypes'
    BY <1>0 DEF CredentialTypes, Credentials, LeaderPlaces
  <1>2. OneFlight'
    BY <1>0 DEF OneFlight, CredentialTypes, LeaderPlaces
  <1>3. DiskHolds'
    BY <1>0 DEF DiskHolds, CredentialTypes
  <1>4. PendingIsNew'
    BY <1>0 DEF PendingIsNew, Pending, Credential!Entry, CredentialTypes, DiskHolds, Credentials,
                Credential!Actors
  <1>5. UsesHold'
    BY <1>0, UsesKept DEF CredentialTypes
  <1>6. Credential!CredentialsKept'
    BY DEF Credential!CredentialsKept, Credential!PersistedFirst,
           Credential!RefreshedOnce, Credential!ListenerClosed, CredentialTypes
  <1> QED
    BY <1>1, <1>2, <1>3, <1>4, <1>5, <1>6

LEMMA ListenKeeps ==
  ASSUME CredentialInv, Credential!Listen
  PROVE  CredentialInv'
  <1> USE EdgesAssumption DEF CredentialInv, Credential!Listen, Credential!Go,
                              Credential!issuer, Credential!store
  <1>0. Callers \subseteq Credential!Actors /\ "cli" \in Credential!Actors
    BY DEF Credential!Actors
  <1>1. CredentialTypes'
    BY <1>0 DEF CredentialTypes, Credentials, LeaderPlaces
  <1>2. OneFlight'
    BY <1>0 DEF OneFlight, CredentialTypes, LeaderPlaces
  <1>3. DiskHolds'
    BY <1>0 DEF DiskHolds, CredentialTypes
  <1>4. PendingIsNew'
    BY <1>0 DEF PendingIsNew, Pending, Credential!Entry, CredentialTypes, DiskHolds, Credentials,
                Credential!Actors
  <1>5. UsesHold'
    BY <1>0, UsesKept DEF CredentialTypes
  <1>6. Credential!CredentialsKept'
    <2>1. kPc'["cli"] = "callback"
      BY <1>0 DEF CredentialTypes
    <2> QED
      BY <2>1 DEF Credential!CredentialsKept, Credential!PersistedFirst,
                     Credential!RefreshedOnce, Credential!ListenerClosed
  <1> QED
    BY <1>1, <1>2, <1>3, <1>4, <1>5, <1>6

LEMMA ExchangeKeeps ==
  ASSUME CredentialInv, Credential!Exchange
  PROVE  CredentialInv'
  <1> USE EdgesAssumption DEF CredentialInv, Credential!Exchange, Credential!Go,
                              Credential!Granted, Credential!Issue, Credential!store
  <1>0. Callers \subseteq Credential!Actors /\ "cli" \in Credential!Actors
    BY DEF Credential!Actors
  <1>1. CredentialTypes'
    BY <1>0 DEF CredentialTypes, Credentials, LeaderPlaces
  <1>2. OneFlight'
    BY <1>0 DEF OneFlight, CredentialTypes, LeaderPlaces
  <1>3. DiskHolds'
    BY <1>0 DEF DiskHolds, CredentialTypes
  <1>4. PendingIsNew'
    BY <1>0 DEF PendingIsNew, Pending, Credential!Entry, CredentialTypes, DiskHolds, Credentials,
                Credential!Actors
  <1>5. UsesHold'
    BY <1>0 DEF UsesHold, CredentialTypes
  <1>6. Credential!CredentialsKept'
    BY DEF Credential!CredentialsKept, Credential!PersistedFirst,
           Credential!RefreshedOnce, Credential!ListenerClosed, CredentialTypes
  <1> QED
    BY <1>1, <1>2, <1>3, <1>4, <1>5, <1>6

LEMMA LoginFailsKeeps ==
  ASSUME CredentialInv, Credential!LoginFails
  PROVE  CredentialInv'
  <1> USE EdgesAssumption DEF CredentialInv, Credential!LoginFails, Credential!Go,
                              Credential!issuer, Credential!store
  <1>0. Callers \subseteq Credential!Actors /\ "cli" \in Credential!Actors
    BY DEF Credential!Actors
  <1>1. CredentialTypes'
    BY <1>0 DEF CredentialTypes, Credentials, LeaderPlaces
  <1>2. OneFlight'
    BY <1>0 DEF OneFlight, CredentialTypes, LeaderPlaces
  <1>3. DiskHolds'
    BY <1>0 DEF DiskHolds, CredentialTypes
  <1>4. PendingIsNew'
    BY <1>0 DEF PendingIsNew, Pending, Credential!Entry, CredentialTypes, DiskHolds, Credentials,
                Credential!Actors
  <1>5. UsesHold'
    BY <1>0, UsesKept DEF CredentialTypes
  <1>6. Credential!CredentialsKept'
    BY DEF Credential!CredentialsKept, Credential!PersistedFirst,
           Credential!RefreshedOnce, Credential!ListenerClosed, CredentialTypes
  <1> QED
    BY <1>1, <1>2, <1>3, <1>4, <1>5, <1>6

LEMMA PollKeeps ==
  ASSUME CredentialInv, Credential!Poll
  PROVE  CredentialInv'
  <1> USE EdgesAssumption DEF CredentialInv, Credential!Poll, Credential!Go,
                              Credential!Granted, Credential!Issue, Credential!store
  <1>0. /\ Callers \subseteq Credential!Actors /\ "cli" \in Credential!Actors
        /\ file["chatgpt"] \in Credentials /\ Credential!Error \notin Credentials
    BY DEF Credential!Actors, Credential!Error, CredentialTypes, Credentials, Entries,
           Credential!Names
  <1>1. /\ kPc["cli"] = "start" /\ command' = "login"
        /\ \E place \in {"write", "fail"} : kPc' = [kPc EXCEPT !["cli"] = place]
        /\ \/ /\ issued' = issued + 1 /\ issued < MaxIssued
              /\ accepted' = accepted \cup {issued + 1}
              /\ value' = [value EXCEPT !["cli"] = issued + 1]
           \/ /\ UNCHANGED <<issued, accepted, value>>
              /\ kPc' = [kPc EXCEPT !["cli"] = "fail"]
    OBVIOUS
  <1>2. UNCHANGED <<file, stored, view, used, lost, flight, joined, kResult, listening>>
    OBVIOUS
  <1>3. \A b \in Callers : kPc'[b] = kPc[b] /\ value'[b] = value[b]
    BY <1>0, <1>1 DEF CredentialTypes
  <1>4. CredentialTypes'
    <2>1. issued' \in 1..MaxIssued /\ value' \in [Credential!Actors -> Credentials]
      BY <1>1 DEF CredentialTypes, Credentials
    <2>2. kPc' \in [Credential!Actors ->
                     {"start", "elect", "follow", "callback", "done"} \cup LeaderPlaces]
      BY <1>1 DEF CredentialTypes, LeaderPlaces
    <2> QED
      BY <1>2, <2>1, <2>2 DEF CredentialTypes
  <1>5. OneFlight'
    BY <1>2, <1>3 DEF OneFlight
  <1>6. DiskHolds'
    BY <1>0, <1>1, <1>2, <1>3 DEF DiskHolds, CredentialTypes
  <1>7. PendingIsNew'
    BY <1>0, <1>1, <1>2 DEF PendingIsNew, Pending, Credential!Entry, CredentialTypes, DiskHolds,
                            Credentials, Credential!Actors
  <1>8. UsesHold'
    <2>1. \A n \in 1..MaxIssued : n <= issued' /\ used[n] = 0 => n \in accepted'
      BY <1>1 DEF UsesHold, CredentialTypes
    <2> QED
      BY <1>2, <1>3, <2>1 DEF UsesHold
  <1>9. Credential!CredentialsKept'
    BY <1>1, <1>2 DEF Credential!CredentialsKept, Credential!PersistedFirst,
                      Credential!RefreshedOnce, Credential!ListenerClosed
  <1> QED
    BY <1>4, <1>5, <1>6, <1>7, <1>8, <1>9

\* Contexts end, credentials age and a callback arrives beside all that.
LEMMA CalmKeeps ==
  ASSUME CredentialInv,
         UNCHANGED <<file, stored, view, issued, accepted, used, lost, kPc, value, flight, joined,
                     kResult, command, listening>>
  PROVE  CredentialInv'
  BY DEF CredentialInv, CredentialTypes, OneFlight, DiskHolds, PendingIsNew, Pending,
         Credential!Entry, UsesHold, Credential!CredentialsKept, Credential!PersistedFirst,
         Credential!RefreshedOnce, Credential!ListenerClosed

THEOREM CredentialInvariance == AllSpec => []CredentialInv
  <1>1. AllInit => CredentialInv
    BY CredentialStarts
  <1>2. CredentialInv /\ [AllNext]_edgesVars => CredentialInv'
    <2> SUFFICES ASSUME CredentialInv, AllNext \/ UNCHANGED edgesVars PROVE CredentialInv'
      OBVIOUS
    <2>1. CASE UNCHANGED credentialsVars
      BY <2>1, CalmKeeps DEF credentialsVars
    <2>2. CASE Credential!Next
      <3>1. ASSUME NEW c \in Callers,
                   \/ Credential!Get(c) \/ Credential!Elect(c) \/ Credential!Follow(c)
                   \/ Credential!Refresh(c) \/ Credential!Publish(c)
            PROVE  CredentialInv'
        BY <3>1, GetKeeps, ElectKeeps, FollowKeeps, RefreshKeeps, PublishKeeps
      <3>2. ASSUME NEW a \in Credential!Actors,
                   Credential!End(a) \/ Credential!ReadFile(a) \/ Credential!Rename(a)
            PROVE  CredentialInv'
        <4>1. CASE Credential!End(a)
          BY <4>1, CalmKeeps DEF Credential!End, Credential!issuer, Credential!store,
                                 Credential!browser
        <4> QED
          BY <3>2, <4>1, ReadFileKeeps, RenameKeeps
      <3>3. ASSUME NEW n \in 1..MaxIssued, Credential!Age(n) PROVE CredentialInv'
        BY <3>3, CalmKeeps DEF Credential!Age, Credential!issuer, Credential!store,
                               Credential!browser
      <3>4. CASE Credential!Callback
        BY <3>4, CalmKeeps DEF Credential!Callback, Credential!issuer, Credential!store
      <3> QED
        BY <2>2, <3>1, <3>2, <3>3, <3>4, CommandKeeps, ListenKeeps, ExchangeKeeps,
           LoginFailsKeeps, PollKeeps DEF Credential!Next
    <2> QED
      BY <2>1, <2>2 DEF AllNext, edgesVars
  <1> QED
    BY <1>1, <1>2, PTL DEF AllSpec, edgesVars

\* CredentialsKept of MCEdges, for any number of callers and credentials, whatever
\* the other process stores or deletes and wherever a write fails: a caller gets what
\* is on disk, a refresh token is sent once unless its successor was lost, and the
\* callback server of a login ends with it (TokenSource.Token, FileStore.Put).
THEOREM CredentialsAreKept == AllSpec => []CredentialsKept
  <1>1. CredentialInv => CredentialsKept
    BY DEF CredentialInv, CredentialsKept
  <1> QED
    BY <1>1, CredentialInvariance, PTL

-----------------------------------------------------------------------------
(* The line client: the turn it watches to its end is the one that answers *)
(* its prompt (TurnStream).                                                *)

Inputs == {"prompt", "notice"}
LineEvents == {"running", "text", "idle", "error", "interrupted"}
Submitting == {"connect", "before", "submit"}
Watching == {"watch", "decide"}

LineTypes ==
    /\ lTurn \in {"none", "running", "canceled", "over"}
    /\ pending \subseteq Inputs /\ serves \subseteq Inputs /\ lAnswered \subseteq Inputs
    /\ outcome \in {"idle", "error", "interrupted"}
    /\ stream \in Seq(LineEvents) /\ connected \in {"no", "yes", "closed"}
    /\ lPc \in Submitting \cup Watching \cup {"messages", "done"}
    /\ before \subseteq Inputs /\ failed \in BOOLEAN /\ late \in BOOLEAN
    /\ interrupts \in Nat /\ halting \in 0..1

\* The prompt is not known before it is submitted, and what was there then is not
\* its answer.
PromptIsNew ==
    /\ lPc \in Submitting =>
         /\ "prompt" \notin pending \cup serves \cup lAnswered
         /\ ~failed /\ ~late /\ interrupts = 0
    /\ lPc = "connect" => connected = "no"
    /\ connected = "no" => stream = << >> /\ lPc \in {"connect", "done"}
    /\ "prompt" \notin before

\* Nobody but the user stops a turn.
StopsAreAsked == lTurn = "canceled" \/ halting = 1 => interrupts > 0

\* The client has watched a turn that was its own from the start, and nobody has
\* interrupted it.
OwnTurn == ~late /\ interrupts = 0

\* An error that the client has not received yet.
ErrorBefore(i) == \E j \in 1..Len(stream) : j < i /\ stream[j] = "error"
AnErrorWaits == \E j \in 1..Len(stream) : stream[j] = "error"

\* An announcement that the session is idle comes after the answer.
IdleIsAnswered ==
    \A i \in 1..Len(stream) : stream[i] = "idle" => "prompt" \in lAnswered \/ ErrorBefore(i)

\* A prompt without an answer waits, is served, or the client will hear of the error.
PromptIsUnderWay ==
    \/ "prompt" \in lAnswered \/ connected = "closed"
    \/ AnErrorWaits
    \/ lTurn = "none" /\ "prompt" \in pending
    \/ lTurn = "running" /\ "prompt" \in pending \cup serves
    \/ lTurn = "over" /\ outcome = "error"

WatchHolds ==
    /\ lPc \in Watching => ~failed
    /\ lPc \in Watching /\ OwnTurn => IdleIsAnswered /\ PromptIsUnderWay
    /\ lPc = "messages" /\ OwnTurn => failed \/ "prompt" \in lAnswered

LineInv ==
    /\ LineTypes /\ PromptIsNew /\ StopsAreAsked /\ WatchHolds /\ Line!PromptIsAnswered
    /\ lResult # "none" <=> lPc = "done"

LEMMA LineStarts == AllInit => LineInv
  <1> SUFFICES ASSUME Line!Init PROVE LineInv
    BY DEF AllInit
  <1> USE DEF Line!Init
  <1>1. LineTypes
    <2>1. failed \in BOOLEAN /\ late \in BOOLEAN
      BY Zenon
    <2>2. stream \in Seq(LineEvents)
      OBVIOUS
    <2> QED
      BY <2>1, <2>2 DEF LineTypes, Inputs, Submitting
  <1>2. PromptIsNew /\ StopsAreAsked /\ WatchHolds /\ Line!PromptIsAnswered
    BY DEF PromptIsNew, StopsAreAsked, WatchHolds, Watching, Line!PromptIsAnswered
  <1> QED
    BY <1>1, <1>2 DEF LineInv

\* What is published is appended, or closes the subscription.
LEMMA EventCases ==
  ASSUME NEW k \in LineEvents, Line!Publish(k), stream \in Seq(LineEvents)
  PROVE  /\ stream' \in Seq(LineEvents)
         /\ \/ /\ connected = "yes" /\ connected' = "yes" /\ Len(stream') = Len(stream) + 1
               /\ stream'[Len(stream) + 1] = k
               /\ \A i \in 1..Len(stream) : stream'[i] = stream[i]
            \/ connected = "yes" /\ connected' = "closed" /\ stream' = stream
            \/ connected # "yes" /\ connected' = connected /\ stream' = stream
  BY DEF Line!Publish

\* An error that was there is still there, and so is the order of what the client
\* will receive.
LEMMA EventKeeps ==
  ASSUME NEW k \in LineEvents, Line!Publish(k), stream \in Seq(LineEvents)
  PROVE  /\ AnErrorWaits => AnErrorWaits'
         /\ k = "error" /\ connected = "yes" => AnErrorWaits' \/ connected' = "closed"
         /\ connected = "closed" => connected' = "closed"
         /\ connected # "no" => connected' # "no"
         /\ connected = "no" => connected' = "no" /\ stream' = stream
  <1> Len(stream) \in Nat /\ Len(stream) + 1 \in 1..(Len(stream) + 1)
    OBVIOUS
  <1> QED
    BY EventCases DEF AnErrorWaits

LEMMA EventInOrder ==
  ASSUME NEW k \in LineEvents, Line!Publish(k), stream \in Seq(LineEvents),
         lAnswered \subseteq lAnswered', IdleIsAnswered,
         k = "idle" /\ connected = "yes" => "prompt" \in lAnswered \/ AnErrorWaits
  PROVE  IdleIsAnswered'
  <1> DEFINE n == Len(stream)
  <1>0. n \in Nat
    OBVIOUS
  <1>1. CASE stream' = stream
    BY <1>1 DEF IdleIsAnswered, ErrorBefore
  <1>2. CASE /\ connected = "yes" /\ Len(stream') = n + 1
             /\ stream'[n + 1] = k /\ \A i \in 1..n : stream'[i] = stream[i]
    <2> SUFFICES ASSUME NEW i \in 1..(n + 1), stream'[i] = "idle"
                 PROVE  "prompt" \in lAnswered' \/ ErrorBefore(i)'
      BY <1>2 DEF IdleIsAnswered
    <2>1. CASE i \in 1..n
      <3>1. ErrorBefore(i) => ErrorBefore(i)'
        BY <1>0, <1>2 DEF ErrorBefore
      <3> QED
        BY <1>2, <2>1, <3>1 DEF IdleIsAnswered
    <2>2. CASE i = n + 1
      <3>1. AnErrorWaits => ErrorBefore(i)'
        BY <1>0, <1>2, <2>2 DEF AnErrorWaits, ErrorBefore
      <3> QED
        BY <1>2, <2>2, <3>1
    <2> QED
      BY <1>0, <2>1, <2>2
  <1> QED
    BY <1>1, <1>2, EventCases

\* What the client receives is the first event; those behind it keep their order.
LEMMA ReceiveCases ==
  ASSUME stream \in Seq(LineEvents), stream # << >>, stream' = Tail(stream)
  PROVE  /\ stream' \in Seq(LineEvents) /\ Len(stream) \in Nat \ {0}
         /\ Head(stream) = stream[1] /\ Len(stream') = Len(stream) - 1
         /\ \A i \in 1..Len(stream') : stream'[i] = stream[i + 1]
  OBVIOUS

LEMMA ReceiveKeeps ==
  ASSUME stream \in Seq(LineEvents), stream # << >>, stream' = Tail(stream),
         Head(stream) # "error", lAnswered' = lAnswered
  PROVE  /\ AnErrorWaits => AnErrorWaits'
         /\ IdleIsAnswered => IdleIsAnswered'
  <1> DEFINE n == Len(stream)
  <1>0. /\ n \in Nat \ {0} /\ Len(stream') = n - 1 /\ stream[1] # "error"
        /\ \A i \in 1..(n - 1) : stream'[i] = stream[i + 1]
    BY ReceiveCases
  <1>1. \A i \in 2..(n + 1) : ErrorBefore(i) => ErrorBefore(i - 1)'
    <2> SUFFICES ASSUME NEW i \in 2..(n + 1), NEW j \in 1..n, j < i, stream[j] = "error"
                 PROVE  ErrorBefore(i - 1)'
      BY DEF ErrorBefore
    <2>1. j - 1 \in 1..(n - 1) /\ j - 1 < i - 1 /\ stream'[j - 1] = "error"
      BY <1>0
    <2> QED
      BY <1>0, <2>1 DEF ErrorBefore
  <1>2. ASSUME NEW j \in 1..n, stream[j] = "error" PROVE AnErrorWaits'
    <2>1. j - 1 \in 1..(n - 1) /\ stream'[j - 1] = "error"
      BY <1>0, <1>2
    <2> QED
      BY <1>0, <2>1 DEF AnErrorWaits
  <1>3. ASSUME IdleIsAnswered, NEW i \in 1..(n - 1), stream'[i] = "idle"
        PROVE  "prompt" \in lAnswered \/ ErrorBefore(i)'
    <2>1. i + 1 \in 1..n /\ stream[i + 1] = "idle" /\ (i + 1) - 1 = i /\ i + 1 \in 2..(n + 1)
      BY <1>0, <1>3
    <2>2. "prompt" \in lAnswered \/ ErrorBefore(i + 1)
      BY <1>3, <2>1 DEF IdleIsAnswered
    <2> QED
      BY <1>1, <2>1, <2>2
  <1> QED
    BY <1>0, <1>2, <1>3 DEF IdleIsAnswered, AnErrorWaits

\* The session's own steps: the client stays where it is.
LEMMA SessionKeeps ==
  ASSUME LineInv, UNCHANGED Line!client, LineTypes', StopsAreAsked',
         connected = "no" => connected' = "no" /\ stream' = stream,
         connected # "no" => connected' # "no",
         lPc \in Submitting => "prompt" \notin pending' \cup serves' \cup lAnswered',
         lAnswered \subseteq lAnswered',
         lPc \in Watching /\ OwnTurn => IdleIsAnswered' /\ PromptIsUnderWay'
  PROVE  LineInv'
  <1> USE DEF LineInv, Line!client
  <1>1. PromptIsNew'
    BY DEF PromptIsNew, Submitting
  <1>2. WatchHolds' /\ Line!PromptIsAnswered'
    BY DEF WatchHolds, OwnTurn, Line!PromptIsAnswered
  <1> QED
    BY <1>1, <1>2

LEMMA SessionSteps ==
  ASSUME LineInv,
         \/ Line!Notice \/ Line!StartTurn \/ Line!Promote \/ Line!Reply \/ Line!Ask
         \/ Line!EndTurn \/ Line!Announce
  PROVE  LineInv'
  <1> USE DEF LineInv
  <1>0. stream \in Seq(LineEvents) /\ outcome \in LineEvents
    BY DEF LineTypes, LineEvents
  <1>1. CASE Line!Notice
    <2> USE <1>1 DEF Line!Notice, Line!client
    <2>1. LineTypes' /\ StopsAreAsked'
      BY DEF LineTypes, StopsAreAsked, Inputs
    <2>2. lPc \in Submitting => "prompt" \notin pending' \cup serves' \cup lAnswered'
      BY DEF PromptIsNew
    <2>3. lPc \in Watching /\ OwnTurn => IdleIsAnswered' /\ PromptIsUnderWay'
      BY DEF WatchHolds, IdleIsAnswered, PromptIsUnderWay, ErrorBefore, AnErrorWaits
    <2> QED
      BY <2>1, <2>2, <2>3, SessionKeeps
  <1>2. CASE Line!StartTurn
    <2> USE <1>2 DEF Line!StartTurn
    <2>1. Line!Publish("running") /\ "running" \in LineEvents /\ lAnswered \subseteq lAnswered'
      BY DEF LineEvents
    <2>2. LineTypes' /\ StopsAreAsked'
      BY <1>0, <2>1, EventCases DEF LineTypes, StopsAreAsked, Line!client
    <2>3. lPc \in Submitting => "prompt" \notin pending' \cup serves' \cup lAnswered'
      BY DEF PromptIsNew
    <2>4. lPc \in Watching /\ OwnTurn => IdleIsAnswered' /\ PromptIsUnderWay'
      BY <1>0, <2>1, EventKeeps, EventInOrder DEF WatchHolds, PromptIsUnderWay
    <2> QED
      BY <1>0, <2>1, <2>2, <2>3, <2>4, EventKeeps, SessionKeeps
  <1>3. CASE Line!Promote
    <2> USE <1>3 DEF Line!Promote, Line!client
    <2>1. LineTypes' /\ StopsAreAsked'
      BY DEF LineTypes, StopsAreAsked, Inputs
    <2>2. lPc \in Submitting => "prompt" \notin pending' \cup serves' \cup lAnswered'
      BY DEF PromptIsNew
    <2>3. lPc \in Watching /\ OwnTurn => IdleIsAnswered' /\ PromptIsUnderWay'
      BY DEF WatchHolds, IdleIsAnswered, PromptIsUnderWay, ErrorBefore, AnErrorWaits
    <2> QED
      BY <2>1, <2>2, <2>3, SessionKeeps
  <1>4. CASE Line!Reply
    <2> USE <1>4 DEF Line!Reply
    <2>1. Line!Publish("text") /\ "text" \in LineEvents /\ lAnswered \subseteq lAnswered'
      BY DEF LineEvents
    <2>2. LineTypes' /\ StopsAreAsked'
      BY <1>0, <2>1, EventCases DEF LineTypes, StopsAreAsked, Line!client, Inputs
    <2>3. lPc \in Submitting => "prompt" \notin pending' \cup serves' \cup lAnswered'
      BY DEF PromptIsNew
    <2>4. lPc \in Watching /\ OwnTurn => IdleIsAnswered' /\ PromptIsUnderWay'
      BY <1>0, <2>1, EventKeeps, EventInOrder DEF WatchHolds, PromptIsUnderWay
    <2> QED
      BY <1>0, <2>1, <2>2, <2>3, <2>4, EventKeeps, SessionKeeps
  <1>5. CASE Line!Ask
    <2> USE <1>5 DEF Line!Ask
    <2>1. Line!Publish("text") /\ "text" \in LineEvents /\ lAnswered \subseteq lAnswered'
      BY DEF LineEvents
    <2>2. LineTypes' /\ StopsAreAsked'
      BY <1>0, <2>1, EventCases DEF LineTypes, StopsAreAsked, Line!client
    <2>3. lPc \in Submitting => "prompt" \notin pending' \cup serves' \cup lAnswered'
      BY DEF PromptIsNew
    <2>4. lPc \in Watching /\ OwnTurn => IdleIsAnswered' /\ PromptIsUnderWay'
      BY <1>0, <2>1, EventKeeps, EventInOrder DEF WatchHolds, PromptIsUnderWay
    <2> QED
      BY <1>0, <2>1, <2>2, <2>3, <2>4, EventKeeps, SessionKeeps
  <1>6. CASE Line!EndTurn
    <2> USE <1>6 DEF Line!EndTurn, Line!client
    <2>1. LineTypes' /\ StopsAreAsked'
      BY DEF LineTypes, StopsAreAsked
    <2>2. lPc \in Submitting => "prompt" \notin pending' \cup serves' \cup lAnswered'
      BY DEF PromptIsNew
    <2>3. lPc \in Watching /\ OwnTurn => IdleIsAnswered' /\ PromptIsUnderWay'
      BY DEF WatchHolds, IdleIsAnswered, PromptIsUnderWay, ErrorBefore, AnErrorWaits,
             StopsAreAsked, OwnTurn,
             LineTypes
    <2> QED
      BY <2>1, <2>2, <2>3, SessionKeeps
  <1>7. CASE Line!Announce
    <2> USE <1>7 DEF Line!Announce
    <2>1. Line!Publish(outcome) /\ lAnswered \subseteq lAnswered'
      OBVIOUS
    <2>2. LineTypes' /\ StopsAreAsked'
      BY <1>0, <2>1, EventCases DEF LineTypes, StopsAreAsked, Line!client
    <2>3. lPc \in Submitting => "prompt" \notin pending' \cup serves' \cup lAnswered'
      BY DEF PromptIsNew
    <2>4. lPc \in Watching => connected # "no"
      BY DEF PromptIsNew, Watching
    <2>5. lPc \in Watching /\ OwnTurn => IdleIsAnswered' /\ PromptIsUnderWay'
      <3> SUFFICES ASSUME lPc \in Watching, OwnTurn, IdleIsAnswered, PromptIsUnderWay
                   PROVE  IdleIsAnswered' /\ PromptIsUnderWay'
        BY DEF WatchHolds
      <3>1. outcome = "idle" /\ connected = "yes" =>
               "prompt" \in lAnswered \/ AnErrorWaits
        BY DEF PromptIsUnderWay
      <3> QED
        BY <1>0, <2>1, <2>4, <3>1, EventKeeps, EventInOrder DEF PromptIsUnderWay, LineTypes
    <2> QED
      BY <1>0, <2>1, <2>2, <2>3, <2>5, EventKeeps, SessionKeeps
  <1> QED
    BY <1>1, <1>2, <1>3, <1>4, <1>5, <1>6, <1>7

LEMMA ClientSteps ==
  ASSUME LineInv,
         \/ Line!Connect \/ Line!ReadBefore \/ Line!Submit \/ Line!Dropped \/ Line!Tick
         \/ Line!Decide \/ Line!InterruptKey \/ Line!Interrupt \/ Line!Finish
  PROVE  LineInv'
  <1> USE DEF LineInv
  <1>1. CASE Line!Connect
    <2> USE <1>1 DEF Line!Connect, Line!Return, Line!session
    <2>1. LineTypes' /\ StopsAreAsked'
      BY DEF LineTypes, Submitting, Watching, Inputs, StopsAreAsked
    <2>2. PromptIsNew'
      BY DEF PromptIsNew, Submitting, Watching, LineTypes
    <2>3. WatchHolds'
      BY DEF WatchHolds, OwnTurn, Watching, Submitting, PromptIsNew, IdleIsAnswered,
             PromptIsUnderWay, ErrorBefore, AnErrorWaits, LineTypes
    <2>4. Line!PromptIsAnswered' /\ (lResult # "none" <=> lPc = "done")'
      BY DEF Line!PromptIsAnswered, WatchHolds, OwnTurn, PromptIsNew, Watching, LineTypes
    <2> QED
      BY <2>1, <2>2, <2>3, <2>4
  <1>2. CASE Line!ReadBefore
    <2> USE <1>2 DEF Line!ReadBefore, Line!Baseline, Line!session
    <2>1. LineTypes' /\ StopsAreAsked'
      BY DEF LineTypes, Submitting, Watching, Inputs, StopsAreAsked
    <2>2. PromptIsNew'
      BY DEF PromptIsNew, Submitting, Watching, LineTypes
    <2>3. WatchHolds'
      BY DEF WatchHolds, OwnTurn, Watching, Submitting, PromptIsNew, IdleIsAnswered,
             PromptIsUnderWay, ErrorBefore, AnErrorWaits, LineTypes
    <2>4. Line!PromptIsAnswered' /\ (lResult # "none" <=> lPc = "done")'
      BY DEF Line!PromptIsAnswered, WatchHolds, OwnTurn, PromptIsNew, Watching, LineTypes
    <2> QED
      BY <2>1, <2>2, <2>3, <2>4
  <1>3. CASE Line!Submit
    <2> USE <1>3 DEF Line!Submit, Line!Return, Line!session
    <2>1. LineTypes' /\ StopsAreAsked'
      BY DEF LineTypes, Submitting, Watching, Inputs, StopsAreAsked
    <2>2. PromptIsNew'
      BY DEF PromptIsNew, Submitting, Watching, LineTypes
    <2>3. WatchHolds'
      <3>1. CASE lPc' = "watch"
        <4>1. ~failed /\ lPc = "submit"
          BY DEF PromptIsNew, Submitting
        <4>2. ASSUME ~late' PROVE IdleIsAnswered' /\ PromptIsUnderWay'
          <5>1. lTurn' = "none" /\ "prompt" \in pending' /\ stream' = << >>
            BY <3>1, <4>2
          <5>2. 1..Len(stream') = {}
            BY <5>1
          <5> QED
            BY <5>1, <5>2 DEF IdleIsAnswered, PromptIsUnderWay
        <4> QED
          BY <3>1, <4>1, <4>2 DEF WatchHolds, OwnTurn
      <3>2. CASE lPc' = "done"
        BY <3>2 DEF WatchHolds, Watching
      <3> QED
        BY <3>1, <3>2
    <2>4. Line!PromptIsAnswered' /\ (lResult # "none" <=> lPc = "done")'
      BY DEF Line!PromptIsAnswered, WatchHolds, OwnTurn, PromptIsNew, Watching, LineTypes
    <2> QED
      BY <2>1, <2>2, <2>3, <2>4
  <1>4. CASE Line!Dropped
    <2> USE <1>4 DEF Line!Dropped, Line!Return, Line!session
    <2>1. LineTypes' /\ StopsAreAsked'
      BY DEF LineTypes, Submitting, Watching, Inputs, StopsAreAsked
    <2>2. PromptIsNew'
      BY DEF PromptIsNew, Submitting, Watching, LineTypes
    <2>3. WatchHolds'
      BY DEF WatchHolds, OwnTurn, Watching, Submitting, PromptIsNew, IdleIsAnswered,
             PromptIsUnderWay, ErrorBefore, AnErrorWaits, LineTypes
    <2>4. Line!PromptIsAnswered' /\ (lResult # "none" <=> lPc = "done")'
      BY DEF Line!PromptIsAnswered, WatchHolds, OwnTurn, PromptIsNew, Watching, LineTypes
    <2> QED
      BY <2>1, <2>2, <2>3, <2>4
  <1>5. CASE Line!Tick
    <2> USE <1>5 DEF Line!Tick, Line!session
    <2>1. LineTypes' /\ StopsAreAsked'
      BY DEF LineTypes, Submitting, Watching, Inputs, StopsAreAsked
    <2>2. PromptIsNew'
      BY DEF PromptIsNew, Submitting, Watching, LineTypes
    <2>3. WatchHolds'
      BY DEF WatchHolds, OwnTurn, Watching, Submitting, PromptIsNew, IdleIsAnswered,
             PromptIsUnderWay, ErrorBefore, AnErrorWaits, LineTypes
    <2>4. Line!PromptIsAnswered' /\ (lResult # "none" <=> lPc = "done")'
      BY DEF Line!PromptIsAnswered, WatchHolds, OwnTurn, PromptIsNew, Watching, LineTypes
    <2> QED
      BY <2>1, <2>2, <2>3, <2>4
  <1>6. CASE Line!Decide
    <2> USE <1>6 DEF Line!Decide, Line!Return, Line!session
    <2>1. LineTypes' /\ StopsAreAsked'
      BY DEF LineTypes, Submitting, Watching, Inputs, StopsAreAsked
    <2>2. PromptIsNew'
      BY DEF PromptIsNew, Submitting, Watching, LineTypes
    <2>3. WatchHolds'
      BY DEF WatchHolds, OwnTurn, Watching, Submitting, PromptIsNew, IdleIsAnswered,
             PromptIsUnderWay, ErrorBefore, AnErrorWaits, LineTypes
    <2>4. Line!PromptIsAnswered' /\ (lResult # "none" <=> lPc = "done")'
      BY DEF Line!PromptIsAnswered, WatchHolds, OwnTurn, PromptIsNew, Watching, LineTypes
    <2> QED
      BY <2>1, <2>2, <2>3, <2>4
  <1>7. CASE Line!InterruptKey
    <2> USE <1>7 DEF Line!InterruptKey, Line!Return, Line!session
    <2>1. LineTypes' /\ StopsAreAsked'
      BY DEF LineTypes, Submitting, Watching, Inputs, StopsAreAsked
    <2>2. PromptIsNew'
      BY DEF PromptIsNew, Submitting, Watching, LineTypes
    <2>3. WatchHolds'
      BY DEF WatchHolds, OwnTurn, Watching, Submitting, PromptIsNew, IdleIsAnswered,
             PromptIsUnderWay, ErrorBefore, AnErrorWaits, LineTypes
    <2>4. Line!PromptIsAnswered' /\ (lResult # "none" <=> lPc = "done")'
      BY DEF Line!PromptIsAnswered, WatchHolds, OwnTurn, PromptIsNew, Watching, LineTypes
    <2> QED
      BY <2>1, <2>2, <2>3, <2>4
  <1>8. CASE Line!Interrupt
    <2> USE <1>8 DEF Line!Interrupt, Line!session
    <2>1. LineTypes' /\ StopsAreAsked'
      BY DEF LineTypes, Submitting, Watching, Inputs, StopsAreAsked
    <2>2. PromptIsNew'
      BY DEF PromptIsNew, Submitting, Watching, LineTypes
    <2>3. WatchHolds'
      <3>1. ~OwnTurn' /\ UNCHANGED <<lPc, failed>>
        BY DEF StopsAreAsked, OwnTurn, LineTypes
      <3> QED
        BY <3>1 DEF WatchHolds
    <2>4. Line!PromptIsAnswered' /\ (lResult # "none" <=> lPc = "done")'
      BY DEF Line!PromptIsAnswered, WatchHolds, OwnTurn, PromptIsNew, Watching, LineTypes
    <2> QED
      BY <2>1, <2>2, <2>3, <2>4
  <1>9. CASE Line!Finish
    <2> USE <1>9 DEF Line!Finish, Line!Return, Line!session
    <2>1. LineTypes' /\ StopsAreAsked'
      BY DEF LineTypes, Submitting, Watching, Inputs, StopsAreAsked
    <2>2. PromptIsNew'
      BY DEF PromptIsNew, Submitting, Watching, LineTypes
    <2>3. WatchHolds'
      BY DEF WatchHolds, OwnTurn, Watching, Submitting, PromptIsNew, IdleIsAnswered,
             PromptIsUnderWay, ErrorBefore, AnErrorWaits, LineTypes
    <2>4. Line!PromptIsAnswered' /\ (lResult # "none" <=> lPc = "done")'
      BY DEF Line!PromptIsAnswered, WatchHolds, OwnTurn, PromptIsNew, Watching, LineTypes
    <2> QED
      BY <2>1, <2>2, <2>3, <2>4
  <1> QED
    BY <1>1, <1>2, <1>3, <1>4, <1>5, <1>6, <1>7, <1>8, <1>9

LEMMA ReceiveStep ==
  ASSUME LineInv, Line!Receive
  PROVE  LineInv'
  <1> USE DEF LineInv, Line!Receive, Line!session, Line!Ends
  <1>1. /\ stream' \in Seq(LineEvents) /\ Len(stream) \in Nat \ {0} /\ Head(stream) = stream[1]
        /\ stream[1] \in LineEvents
    BY ReceiveCases DEF LineTypes
  <1>2. LineTypes' /\ StopsAreAsked'
    <2>1. failed' \in BOOLEAN
      BY Zenon
    <2> QED
      BY <1>1, <2>1 DEF LineTypes, StopsAreAsked, Watching, Submitting
  <1>3. PromptIsNew'
    BY <1>1 DEF PromptIsNew, Submitting, LineTypes
  <1>4. CASE Head(stream) = "error"
    BY <1>2, <1>3, <1>4 DEF WatchHolds, Watching, Line!PromptIsAnswered
  <1>5. CASE Head(stream) # "error"
    <2>1. lPc \in Watching /\ OwnTurn => IdleIsAnswered' /\ PromptIsUnderWay'
      <3>1. lPc \in Watching /\ OwnTurn => IdleIsAnswered /\ PromptIsUnderWay
        BY DEF WatchHolds
      <3> QED
        BY <1>5, <3>1, ReceiveKeeps DEF LineTypes, PromptIsUnderWay
    <2>2. lPc \in Watching /\ OwnTurn /\ Head(stream) = "idle" => "prompt" \in lAnswered
      <3>1. ~ErrorBefore(1)
        BY <1>1 DEF ErrorBefore
      <3> QED
        BY <1>1, <3>1 DEF WatchHolds, IdleIsAnswered
    <2>3. WatchHolds'
      BY <1>5, <2>1, <2>2 DEF WatchHolds, OwnTurn, Watching
    <2> QED
      BY <1>2, <1>3, <2>3 DEF Line!PromptIsAnswered
  <1> QED
    BY <1>4, <1>5

THEOREM LineInvariance == AllSpec => []LineInv
  <1>1. AllInit => LineInv
    BY LineStarts
  <1>2. LineInv /\ [AllNext]_edgesVars => LineInv'
    <2> SUFFICES ASSUME LineInv, AllNext \/ UNCHANGED edgesVars PROVE LineInv'
      OBVIOUS
    <2>1. CASE UNCHANGED lineVars
      BY <2>1 DEF lineVars, LineInv, LineTypes, PromptIsNew, StopsAreAsked, WatchHolds, OwnTurn,
                  IdleIsAnswered, PromptIsUnderWay, ErrorBefore, AnErrorWaits,
                  Line!PromptIsAnswered
    <2>2. CASE Line!Next
      BY <2>2, SessionSteps, ClientSteps, ReceiveStep DEF Line!Next
    <2> QED
      BY <2>1, <2>2 DEF AllNext, edgesVars
  <1> QED
    BY <1>1, <1>2, PTL DEF AllSpec, edgesVars

\* PromptIsAnswered of MCEdges, for any capacity of the subscription and any number
\* of notices and requests: a client that says nothing was answered has watched a turn
\* that was under way before its prompt, or was interrupted (streamTurn,
\* finishStream).
THEOREM PromptsAreAnswered == AllSpec => []PromptIsAnswered
  <1>1. LineInv => PromptIsAnswered
    BY DEF LineInv, PromptIsAnswered
  <1> QED
    BY <1>1, LineInvariance, PTL
=============================================================================
