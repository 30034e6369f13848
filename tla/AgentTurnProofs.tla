-------------------------- MODULE AgentTurnProofs ---------------------------
(***************************************************************************)
(* Proofs about AgentTurn for any number of callers, prompts and slots, of *)
(* a root session or of a child, when nobody sends to a child before its   *)
(* creator has started it (the run turn_double shows what happens          *)
(* otherwise).  The first part is about turns and their owners, the second *)
(* about prompts: Send promises that none is overlooked.                   *)
(***************************************************************************)
EXTENDS AgentTurn, FiniteSetTheorems, TLAPS

\* A session is created by one call of CreateChild, or none, and is left alone
\* until that has started its first turn.
CreatedAlone == ~EarlySends /\ \A k, l \in Creators : k = l

\* From the creation of a turn to the end of its last event, one process is
\* responsible for it: the caller that created it, then its goroutine.  In the
\* last two places the turn is over and may have been replaced.
Owning == Draining \cup {"register", "start", "permit", "run", "drained", "finish", "publish"}
Ending == {"complete", "restart"}

\* A turn that somebody is responsible for is the session's turn and active, so
\* that no second one is created.
OwnersAreCurrent ==
    \A p \in Procs :
      /\ pc[p] \in Owning => state[p] = turn /\ Busy /\ ~completed[turn]
      /\ pc[p] \in Ending => state[p] \in Turns /\ status[state[p]] \in Final
      /\ pc[p] = "complete" => ~completed[state[p]]

\* Nobody shares the responsibility for a turn.
OwnersAreAlone ==
    \A p, q \in Procs :
      pc[p] \in Owning \cup Ending /\ pc[q] \in Owning \cup Ending /\ state[p] = state[q]
        => p = q

\* The goroutine that is about to start does not run yet.
StartIsFresh ==
    \A p \in Procs :
      pc[p] = "start" /\ op[p] # "create" => state[p] = p \/ pc[state[p]] = "idle"

\* Until CreateChild has started the first turn there is no other, and nobody
\* else does more than wait for that one.
CreatorIsAlone ==
    \A k \in Creators : op[k] = "create" =>
      /\ \A p \in Procs \ {k} : pc[p] \in {"idle", "wait"}
      /\ pc[k] \notin {"register", "start"} => turn = NoTurn
      /\ pc[k] \in {"sendLock", "sendQuota", "sendCreate", "register", "start"}

\* A process is in the places of its kind of call.
PlacesMatch ==
    \A p \in Procs :
      /\ pc[p] \in {"register"} => op[p] = "create"
      /\ p \in Turns => op[p] # "create" /\ pc[p] \notin {"sendLock", "register"}
      /\ op[p] = "create" => p \in Creators

\* An active turn has not completed, and one that is complete owns no permit.
CompletedIsOver ==
    \A t \in Turns : completed[t] => status[t] \notin Active

\* Permits are with calls that decide on a turn, or with the active turn.
PermitsArePlaced ==
    /\ \A p \in Procs : quota[p] = "granted" => pc[p] \in {"sendCreate", "emptyCreate"}
    /\ \A t \in Turns : releaseQuota[t] => t = turn /\ status[t] \in Active \ {"blocked"}
    /\ \A p \in Procs : pc[p] \in {"permit", "publish"} => ~releaseQuota[state[p]]
    /\ permits = Cardinality({p \in Procs : quota[p] = "granted"})
                   + Cardinality({t \in Turns : releaseQuota[t]})

\* A shutdown that waits, waits for the last turn.
ShutdownIsLast ==
    /\ stopped => shuttingDown /\ ~Busy
    /\ \A c \in Procs : op[c] = "shutdown" =>
         /\ pc[c] = "wait" /\ shuttingDown
         /\ Busy => state[c] = turn

\* The inductive invariant.
IInv ==
    /\ TypeOK /\ PlacesMatch /\ CreatorIsAlone /\ OwnersAreCurrent /\ OwnersAreAlone
    /\ StartIsFresh /\ CompletedIsOver /\ PermitsArePlaced /\ ShutdownIsLast

-----------------------------------------------------------------------------
(* Types.                                                                  *)

Places == CallerPlaces \cup RunnerPlaces \cup {"idle"}
LocalTypes ==
    /\ pc \in [Procs -> Places] /\ op \in [Procs -> Ops]
    /\ arg \in [Callers -> Messages \cup {NoMessage}]
    /\ state \in [Procs -> Turns \cup {NoTurn}]
    /\ quota \in [Procs -> {"none", "granted", "blocked"}]
    /\ result \in [Procs -> Final] /\ cutoff \in [Procs -> Nat]
StoreTypes ==
    /\ sequence \in Nat /\ admitted \in [Messages -> Nat] /\ promoted \subseteq Messages
    /\ reply \in [Messages -> {"none", "created", "duplicate"}]
TurnTypes ==
    /\ turn \in Turns \cup {NoTurn}
    /\ status \in [Turns -> Active \cup Final \cup {"free"}]
    /\ wake \in [Turns -> BOOLEAN] /\ cancelled \in [Turns -> BOOLEAN]
    /\ completed \in [Turns -> BOOLEAN] /\ releaseQuota \in [Turns -> BOOLEAN]
    /\ steer \in [Turns -> Nat]
FlagTypes ==
    /\ shuttingDown \in BOOLEAN /\ removed \in BOOLEAN /\ stopped \in BOOLEAN
    /\ permits \in Int

LEMMA TypesByGroup == TypeOK <=> LocalTypes /\ StoreTypes /\ TurnTypes /\ FlagTypes
  BY DEF TypeOK, LocalTypes, StoreTypes, TurnTypes, FlagTypes, Places

LEMMA GotoTypes ==
  ASSUME LocalTypes, NEW p, NEW place \in Places, Goto(p, place)
  PROVE  pc' \in [Procs -> Places]
  BY DEF Goto, LocalTypes

LEMMA ReturnTypes ==
  ASSUME LocalTypes, NEW p, Return(p)
  PROVE  LocalTypes'
  BY DEF Return, LocalTypes, Places, Ops, Final

\* CreateChild fails to register the child (the second disjunct of Register).
Abort(c) ==
    LET t == state[c] IN
    /\ cancelled' = [cancelled EXCEPT ![t] = TRUE]
    /\ permits' = IF releaseQuota[t] THEN permits - 1 ELSE permits
    /\ releaseQuota' = [releaseQuota EXCEPT ![t] = FALSE]
    /\ status' = [status EXCEPT ![t] = "canceled"]
    /\ turn' = IF turn = t THEN NoTurn ELSE turn
    /\ completed' = [completed EXCEPT ![t] = TRUE]
    /\ Excuse
    /\ Return(c)
    /\ UNCHANGED <<shuttingDown, removed, wake, steer>>

LEMMA AdmitTypes ==
  ASSUME StoreTypes, NEW m, NEW outcome, Admit(m, outcome)
  PROVE  StoreTypes'
  <1>1. sequence' \in Nat /\ admitted' \in [Messages -> Nat]
    BY DEF Admit, StoreTypes
  <1>2. CASE outcome = "created"
    BY <1>1, <1>2 DEF Admit, StoreTypes
  <1>3. CASE outcome = "duplicate"
    BY <1>1, <1>3 DEF Admit, StoreTypes
  <1>4. CASE outcome \notin {"created", "duplicate"}
    BY <1>1, <1>4 DEF Admit, StoreTypes
  <1> QED
    BY <1>2, <1>3, <1>4

LEMMA ExcuseTypes ==
  ASSUME StoreTypes, Excuse, UNCHANGED store
  PROVE  StoreTypes'
  BY DEF Excuse, StoreTypes, store

LEMMA FailsTypes ==
  ASSUME LocalTypes, NEW p, NEW place \in Places, Fails(p, place)
  PROVE  LocalTypes'
  <1>1. pc' \in [Procs -> Places]
    BY GotoTypes DEF Fails
  <1> QED
    BY <1>1 DEF Fails, ErrorOf, LocalTypes, Final

LEMMA NewTurnTypes ==
  ASSUME LocalTypes, TurnTypes, NEW p \in Procs, NEW t \in Turns, NewTurn(p, t)
  PROVE  /\ TurnTypes'
         /\ state' \in [Procs -> Turns \cup {NoTurn}]
         /\ quota' \in [Procs -> {"none", "granted", "blocked"}]
  BY DEF NewTurn, TurnTypes, LocalTypes, Active

LEMMA TypesStep == TypeOK /\ Next => TypeOK'
  <1> SUFFICES ASSUME LocalTypes, StoreTypes, TurnTypes, FlagTypes, Next
               PROVE  LocalTypes' /\ StoreTypes' /\ TurnTypes' /\ FlagTypes'
    BY DEF TypeOK, LocalTypes, StoreTypes, TurnTypes, FlagTypes, Places
  <1> USE DEF session, turns, store, locals, history
  <1>1. ASSUME NEW c \in Callers, Call(c)
        PROVE  LocalTypes' /\ StoreTypes' /\ TurnTypes' /\ FlagTypes'
    <2>1. ASSUME NEW m \in Messages, Send(c, m) PROVE LocalTypes'
      BY <2>1 DEF Send, Goto, LocalTypes, Places, CallerPlaces, Ops
    <2>2. ASSUME NEW o \in {"wake", "resume"}, CallEmpty(c, o) PROVE LocalTypes'
      BY <2>2 DEF CallEmpty, Goto, LocalTypes, Places, CallerPlaces, Ops
    <2>3. ASSUME NEW o \in {"interrupt", "shutdown"}, Stop(c, o),
                 UNCHANGED <<arg, quota, result, cutoff, store, turn, completed, releaseQuota,
                 steer>>
          PROVE  LocalTypes' /\ StoreTypes' /\ TurnTypes'
      <3>1. LocalTypes'
        BY <2>3 DEF Stop, Goto, Busy, LocalTypes, TurnTypes, Places, CallerPlaces, Ops
      <3>2. StoreTypes'
        BY <2>3, ExcuseTypes DEF Stop
      <3>3. TurnTypes'
        BY <2>3 DEF Stop, TurnTypes, Active
      <3> QED
        BY <3>1, <3>2, <3>3
    <2>4. CASE Interrupt(c)
      BY <2>3, <2>4 DEF Interrupt, FlagTypes
    <2>5. CASE Shutdown(c)
      <3>1. CASE Stop(c, "shutdown") /\ UNCHANGED stopped
        BY <2>3, <2>5, <3>1 DEF Shutdown, FlagTypes
      <3>2. CASE UNCHANGED <<status, wake, cancelled, pc, op, state, reply>> /\ stopped'
        BY <2>5, <3>2 DEF Shutdown, FlagTypes, LocalTypes, StoreTypes, TurnTypes
      <3> QED
        BY <2>5, <3>1, <3>2 DEF Shutdown
    <2>6. CASE Remove(c)
      BY <2>6 DEF Remove, FlagTypes, LocalTypes, StoreTypes, TurnTypes
    <2>7. ASSUME UNCHANGED <<session, turns, store, permits, history>>
          PROVE  StoreTypes' /\ TurnTypes' /\ FlagTypes'
      BY <2>7 DEF StoreTypes, TurnTypes, FlagTypes
    <2> QED
      BY <1>1, <2>1, <2>2, <2>4, <2>5, <2>6, <2>7 DEF Call, Send, CallEmpty
  <1>2. ASSUME NEW c \in Callers, CallerGivesUp(c)
        PROVE  LocalTypes' /\ StoreTypes' /\ TurnTypes' /\ FlagTypes'
    BY <1>2, ReturnTypes DEF CallerGivesUp, StoreTypes, TurnTypes, FlagTypes
  <1>3. ASSUME NEW p \in Procs, CallStep(p)
        PROVE  LocalTypes' /\ StoreTypes' /\ TurnTypes' /\ FlagTypes'
    <2>1. ASSUME NEW o \in AdmitOutcomes, p \in Callers, SendJoin(p, o)
          PROVE  LocalTypes' /\ StoreTypes' /\ TurnTypes' /\ FlagTypes'
      <3>1. StoreTypes'
        BY <2>1, AdmitTypes DEF SendJoin
      <3>2. Return(p) => LocalTypes'
        BY ReturnTypes
      <3>3. ASSUME ~Return(p) PROVE LocalTypes'
        <4>1. turn \in Turns /\ Goto(p, "register") /\ state' = [state EXCEPT ![p] = turn]
              /\ UNCHANGED <<op, arg, quota, result, cutoff>>
          BY <2>1, <3>3 DEF SendJoin, AdmittedTo, Busy, TurnTypes
        <4> QED
          BY <4>1, GotoTypes DEF LocalTypes, Places, CallerPlaces
      <3>4. sequence' \in Nat
        BY <3>1 DEF StoreTypes
      <3>5. TurnTypes'
        BY <2>1, <3>4 DEF SendJoin, TurnTypes
      <3> QED
        BY <2>1, <3>1, <3>2, <3>3, <3>5 DEF SendJoin, FlagTypes
    <2>2. ASSUME NEW o \in AdmitOutcomes, p \in Callers, SendRefused(p, o)
          PROVE  LocalTypes' /\ StoreTypes' /\ TurnTypes' /\ FlagTypes'
      <3>1. StoreTypes'
        BY <2>2, AdmitTypes DEF SendRefused, StoreTypes
      <3>2. LocalTypes'
        BY <2>2, ReturnTypes DEF SendRefused
      <3> QED
        BY <2>2, <3>1, <3>2 DEF SendRefused, TurnTypes, FlagTypes
    <2>3. CASE p \in Callers /\ SendLock(p)
      <3>1. LocalTypes'
        BY <2>3, ReturnTypes DEF SendLock, Goto, LocalTypes, Places, CallerPlaces, TurnTypes
      <3> QED
        BY <2>3, <3>1 DEF SendLock, StoreTypes, TurnTypes, FlagTypes
    <2>4. CASE p \in Callers /\ SendRetry(p)
      BY <2>4 DEF SendRetry, Goto, LocalTypes, Places, CallerPlaces, StoreTypes, TurnTypes,
         FlagTypes
    <2>5. CASE (p \in Callers /\ SendAgain(p)) \/ EmptyAgain(p)
      BY <2>5 DEF SendAgain, EmptyAgain, GiveBack, Goto, LocalTypes, Places, CallerPlaces,
         StoreTypes, TurnTypes, FlagTypes
    <2>6. CASE p \in Callers /\ Register(p)
      <3>1. CASE Goto(p, "start") /\ UNCHANGED <<session, turns, op, locals, permits, reply>>
        <4>1. pc' \in [Procs -> Places]
          BY <3>1, GotoTypes DEF Places, CallerPlaces
        <4> QED
          BY <2>6, <3>1, <4>1 DEF Register, LocalTypes, StoreTypes, TurnTypes, FlagTypes
      <3>2. CASE Abort(p)
        <4>1. StoreTypes' /\ LocalTypes'
          BY <2>6, <3>2, ExcuseTypes, ReturnTypes DEF Register, Abort
        <4>2. status' \in [Turns -> Active \cup Final \cup {"free"}]
          BY <3>2 DEF Abort, TurnTypes, Final
        <4>3. TurnTypes' /\ FlagTypes'
          BY <2>6, <3>2, <4>2 DEF Abort, Register, TurnTypes, FlagTypes
        <4> QED
          BY <4>1, <4>3
      <3> QED
        BY <2>6, <3>1, <3>2 DEF Register, Abort
    <2>7. CASE p \in Callers /\ WaitDone(p)
      BY <2>7, ReturnTypes DEF WaitDone, StoreTypes, TurnTypes, FlagTypes
    <2>8. ASSUME NEW t \in Turns, (p \in Callers /\ SendCreate(p, t)) \/ EmptyCreate(p, t)
          PROVE  LocalTypes' /\ StoreTypes' /\ TurnTypes' /\ FlagTypes'
      <3>1. NewTurn(p, t) /\ \E place \in {"register", "start"} : Goto(p, place)
        BY <2>8 DEF SendCreate, EmptyCreate
      <3>2. pc' \in [Procs -> Places]
        BY <3>1, GotoTypes DEF Places, CallerPlaces
      <3>3. StoreTypes'
        BY <2>8, AdmitTypes DEF SendCreate, EmptyCreate, StoreTypes
      <3> QED
        BY <2>8, <3>1, <3>2, <3>3, NewTurnTypes DEF SendCreate, EmptyCreate, NewTurn, LocalTypes,
           FlagTypes
    <2>9. ASSUME NEW a \in QuotaAnswers, Quota(p, a)
          PROVE  LocalTypes' /\ StoreTypes' /\ TurnTypes' /\ FlagTypes'
      <3>1. CASE a \in Kept(p)
        <4>1. a \in {"none", "granted", "blocked"}
          BY <3>1 DEF Kept
        <4> QED
          BY <2>9, <3>1, <4>1 DEF Quota, Goto, LocalTypes, Places, CallerPlaces, StoreTypes,
             TurnTypes, FlagTypes
      <3>2. CASE a \notin Kept(p)
        <4>1. LocalTypes'
          BY <2>9, <3>2, ReturnTypes DEF Quota
        <4>2. StoreTypes'
          BY <2>9, <3>2, ExcuseTypes DEF Quota, StoreTypes
        <4> QED
          BY <2>9, <3>2, <4>1, <4>2 DEF Quota, TurnTypes, FlagTypes
      <3> QED
        BY <3>1, <3>2
    <2>10. CASE EmptyLock(p)
      <3>1. LocalTypes'
        BY <2>10, ReturnTypes DEF EmptyLock, Goto, LocalTypes, Places, CallerPlaces, TurnTypes
      <3>2. TurnTypes'
        BY <2>10 DEF EmptyLock, TurnTypes, Busy
      <3> QED
        BY <2>10, <3>1, <3>2 DEF EmptyLock, StoreTypes, FlagTypes
    <2>11. CASE Start(p)
      BY <2>11 DEF Start, LocalTypes, Places, CallerPlaces, RunnerPlaces, Ops, Final, StoreTypes,
         TurnTypes, FlagTypes
    <2> QED
      BY <1>3, <2>1, <2>2, <2>3, <2>4, <2>5, <2>6, <2>7, <2>8, <2>9, <2>10, <2>11 DEF CallStep
  <1>4. ASSUME NEW g \in Procs, RunnerStep(g)
        PROVE  LocalTypes' /\ StoreTypes' /\ TurnTypes' /\ FlagTypes'
    <2>1. CASE PermitGranted(g)
      <3>1. LocalTypes'
        BY <2>1 DEF PermitGranted, Goto, LocalTypes, Places, RunnerPlaces, Final
      <3>2. TurnTypes'
        BY <2>1 DEF PermitGranted, TurnTypes, Active
      <3> QED
        BY <2>1, <3>1, <3>2 DEF PermitGranted, StoreTypes, FlagTypes
    <2>2. ASSUME NEW place \in {"finish", "drained"}, Fails(g, place), UNCHANGED store
          PROVE  LocalTypes' /\ StoreTypes' /\ TurnTypes' /\ FlagTypes'
      BY <2>2, FailsTypes, ExcuseTypes DEF Fails, Places, RunnerPlaces, TurnTypes, FlagTypes
    <2>3. CASE PermitFails(g) \/ RunEnds(g) \/ DrainFails(g)
      BY <2>2, <2>3 DEF PermitFails, RunEnds, DrainFails
    <2>4. CASE Run(g)
      BY <2>4 DEF Run, Goto, LocalTypes, Places, RunnerPlaces, Draining, StoreTypes, TurnTypes,
         FlagTypes
    <2>5. CASE ReadCutoff(g)
      BY <2>5 DEF ReadCutoff, Goto, LocalTypes, Places, RunnerPlaces, Draining, StoreTypes,
         TurnTypes, FlagTypes
    <2>6. CASE PromoteSteers(g)
      <3>1. StoreTypes'
        BY <2>6 DEF PromoteSteers, Fails, Excuse, Pending, StoreTypes
      <3>2. LocalTypes'
        BY <2>6, FailsTypes DEF PromoteSteers, Goto, LocalTypes, Places, RunnerPlaces, Draining
      <3> QED
        BY <2>6, <3>1, <3>2 DEF PromoteSteers, Fails, TurnTypes, FlagTypes
    <2>7. CASE AcknowledgeSteers(g)
      BY <2>7 DEF AcknowledgeSteers, Goto, LocalTypes, Places, RunnerPlaces, Draining, StoreTypes,
         TurnTypes, FlagTypes
    <2>8. CASE Provider(g)
      BY <2>8 DEF Provider, Goto, LocalTypes, Places, RunnerPlaces, Draining, Final, StoreTypes,
         TurnTypes, FlagTypes
    <2>9. CASE Continue(g)
      <3>1. CASE Goto(g, "cutoff") /\ UNCHANGED <<session, turns, op, locals, permits, history>>
        BY <2>9, <3>1 DEF Continue, Goto, LocalTypes, Places, RunnerPlaces, Draining, StoreTypes,
           TurnTypes, FlagTypes
      <3> QED
        BY <2>2, <2>9, <3>1 DEF Continue
    <2>10. CASE WakeCheck(g)
      <3>1. LocalTypes'
        BY <2>10 DEF WakeCheck, Goto, LocalTypes, Places, RunnerPlaces, Draining, Final
      <3> QED
        BY <2>10, <3>1 DEF WakeCheck, StoreTypes, TurnTypes, FlagTypes
    <2>11. CASE Finish(g)
      <3>1. LocalTypes'
        BY <2>11 DEF Finish, Goto, LocalTypes, Places, RunnerPlaces, Final
      <3>2. TurnTypes'
        BY <2>11 DEF Finish, TurnTypes, Active
      <3> QED
        BY <2>11, <3>1, <3>2 DEF Finish, StoreTypes, FlagTypes
    <2>12. CASE Publish(g)
      BY <2>12 DEF Publish, Goto, LocalTypes, Places, RunnerPlaces, StoreTypes, TurnTypes, FlagTypes
    <2>13. CASE Complete(g)
      BY <2>13 DEF Complete, Goto, LocalTypes, Places, RunnerPlaces, StoreTypes, TurnTypes,
         FlagTypes
    <2>14. CASE Restart(g)
      <3>1. LocalTypes'
        BY <2>14, ReturnTypes DEF Restart, Goto, LocalTypes, Places, CallerPlaces
      <3> QED
        BY <2>14, <3>1 DEF Restart, StoreTypes, TurnTypes, FlagTypes
    <2> QED
      BY <1>4, <2>1, <2>3, <2>4, <2>5, <2>6, <2>7, <2>8, <2>9, <2>10, <2>11, <2>12, <2>13, <2>14
         DEF RunnerStep
  <1> QED
    BY <1>1, <1>2, <1>3, <1>4 DEF Next

-----------------------------------------------------------------------------
(* Steps by their effect.  Most do nothing to the turns: they move one      *)
(* process, which keeps or gives up its turn and takes or gives back its    *)
(* own permits.                                                             *)

Others(p) ==
    \A q \in Procs \ {p} :
      pc'[q] = pc[q] /\ op'[q] = op[q] /\ state'[q] = state[q] /\ quota'[q] = quota[q]

Granted(p) == IF quota[p] = "granted" THEN 1 ELSE 0

Ordinary(p) ==
    /\ Others(p)
    /\ UNCHANGED <<turn, status, cancelled, completed, releaseQuota>>
    /\ permits' = permits + Granted(p)' - Granted(p)
    /\ quota'[p] = "granted" => pc'[p] \in {"sendCreate", "emptyCreate"}
    /\ shuttingDown => shuttingDown'
    /\ stopped' => \/ stopped \/ (~Busy /\ shuttingDown')
                   \/ op[p] = "shutdown" /\ completed[state[p]]
    /\ pc'[p] \in Owning \cup Ending =>
         /\ pc[p] \in Owning /\ pc'[p] \in Owning \ {"register", "permit", "publish"}
         /\ state'[p] = state[p]
    /\ pc[p] # "complete"
    /\ pc[p] \in Owning =>
         /\ pc'[p] \in Owning /\ op'[p] = op[p]
         /\ pc'[p] # "start" => pc[p] \notin {"register", "start"}
    /\ pc'[p] = "start" => op'[p] = "create"
    /\ op'[p] # "shutdown"
    /\ op'[p] = "create" =>
         /\ op[p] = "create"
         /\ \/ pc'[p] \in {"sendLock", "sendQuota", "sendCreate"} /\ turn = NoTurn
            \/ pc'[p] = "start"
    /\ p \in Turns => pc[p] # "idle" /\ pc'[p] # "sendLock"
    /\ Starting /\ pc[p] \in {"idle", "wait"} => pc'[p] \in {"idle", "wait"}

LEMMA ReturnIsOrdinary ==
  ASSUME TypeOK, PlacesMatch, NEW p \in Procs, Return(p),
         permits' = permits - Granted(p), UNCHANGED <<turn, status, cancelled, completed,
         releaseQuota>>,
         p \in Turns => pc[p] # "idle", pc[p] \notin Owning \cup {"complete"},
         shuttingDown => shuttingDown', 
         stopped' => stopped \/ (op[p] = "shutdown" /\ completed[state[p]])
  PROVE  Ordinary(p)
  <1>1. /\ pc'[p] = "idle" /\ op'[p] = "none" /\ quota'[p] = "none" /\ Others(p)
    BY DEF Return, Others, TypeOK
  <1>2. permits \in Int
    BY DEF TypeOK
  <1> QED
    BY <1>1, <1>2 DEF Ordinary, Granted, Owning, Ending, Draining

\* An interrupt or a shutdown that finds an active turn.
Stops(c) == Interrupt(c) \/ (Shutdown(c) /\ Stop(c, "shutdown"))

\* Calls begin, or are refused at once, or stop the turn.
LEMMA CallCases ==
  ASSUME IInv, CreatedAlone, NEW c \in Callers \ Creators, Call(c)
  PROVE  Ordinary(c) \/ Stops(c)
  <1> USE DEF session, turns, store, locals, history
  <1>1. c \in Procs /\ c \notin Turns /\ pc[c] = "idle"
    BY TurnAssumption DEF Procs, Call, Send, CallEmpty, Interrupt, Shutdown, Remove
  <1>2. op[c] # "shutdown" /\ op[c] # "create" /\ quota[c] # "granted" /\ permits \in Int
    BY <1>1 DEF IInv, ShutdownIsLast, PlacesMatch, PermitsArePlaced, TypeOK
  <1>3. ASSUME NEW m \in Messages, ~Starting, Send(c, m)
        PROVE  Ordinary(c)
    <2>1. pc'[c] = "sendLock" /\ op'[c] = "send" /\ quota'[c] = quota[c] /\ Others(c)
      BY <1>1, <1>3 DEF Send, Goto, Others, IInv, TypeOK
    <2> QED
      BY <1>1, <1>2, <1>3, <2>1 DEF Ordinary, Send, Granted, Owning, Ending, Draining
  <1>4. ASSUME NEW o \in {"wake", "resume"}, ~Starting, CallEmpty(c, o)
        PROVE  Ordinary(c)
    <2>1. pc'[c] = "emptyLock" /\ op'[c] = o /\ quota'[c] = quota[c] /\ Others(c)
      BY <1>1, <1>4 DEF CallEmpty, Goto, Others, IInv, TypeOK
    <2> QED
      BY <1>1, <1>2, <1>4, <2>1 DEF Ordinary, CallEmpty, Granted, Owning, Ending, Draining
  <1>5. ASSUME UNCHANGED <<turn, status, cancelled, completed, releaseQuota, pc, op, state, quota,
  permits>>,
               shuttingDown => shuttingDown', stopped' => stopped \/ (~Busy /\ shuttingDown')
        PROVE  Ordinary(c)
    BY <1>1, <1>2, <1>5 DEF Ordinary, Others, Granted, Owning, Ending, Draining, IInv, TypeOK
  <1>6. CASE Shutdown(c) /\ ~Stop(c, "shutdown")
    BY <1>5, <1>6 DEF Shutdown
  <1>7. CASE Remove(c)
    BY <1>5, <1>7 DEF Remove
  <1> QED
    BY <1>3, <1>4, <1>6, <1>7 DEF Call, Stops, CreatedAlone

\* A process goes on with what it has.
LEMMA MoveIsOrdinary ==
  ASSUME IInv, NEW p \in Procs, NEW place, Goto(p, place), pc[p] \notin {"idle", "wait",
         "complete"},
         UNCHANGED <<turn, status, cancelled, completed, releaseQuota, op, permits, shuttingDown,
         stopped>>,
         quota' = quota \/ (quota' = [quota EXCEPT ![p] = "none"] /\ quota[p] # "granted"),
         quota[p] # "granted",
         place \in Owning <=> pc[p] \in Owning,
         place \in Owning =>
           /\ pc[p] \notin {"register", "start"} /\ place \notin {"register", "permit", "publish", "start"}
           /\ state' = state,
         place \notin Ending,
         \E t \in Turns \cup {NoTurn} : state' = [state EXCEPT ![p] = t],
         op[p] = "create" => place \in {"sendLock", "sendQuota", "sendCreate"} /\ turn = NoTurn,
         p \in Turns => place # "sendLock"
  PROVE  Ordinary(p)
  <1>1. Others(p) /\ pc'[p] = place /\ op'[p] = op[p] /\ quota'[p] # "granted"
    BY DEF Goto, Others, IInv, TypeOK
  <1>2. permits \in Int /\ op[p] # "shutdown"
    BY DEF IInv, TypeOK, ShutdownIsLast
  <1>3. pc'[p] \in Owning \cup Ending => state'[p] = state[p]
    BY <1>1
  <1> QED
    BY <1>1, <1>2, <1>3 DEF Ordinary, Granted, Owning, Ending, Draining

\* The second disjunct of Register, and what begins a turn.
Aborts(p) == pc[p] = "register" /\ Abort(p) /\ UNCHANGED <<store, stopped>>
Creates(p, t) == (p \in Callers /\ SendCreate(p, t)) \/ EmptyCreate(p, t)

LEMMA CallStepCases ==
  ASSUME IInv, CreatedAlone, NEW p \in Procs, CallStep(p)
  PROVE  Ordinary(p) \/ Aborts(p) \/ Start(p) \/ \E t \in Turns : Creates(p, t)
  <1> USE DEF session, turns, store, locals, history
  <1>1. /\ permits \in Int /\ TypeOK /\ PlacesMatch
        /\ turn \in Turns \cup {NoTurn}
        /\ pc \in [Procs -> Places] /\ op \in [Procs -> Ops]
        /\ quota \in [Procs -> {"none", "granted", "blocked"}]
        /\ state \in [Procs -> Turns \cup {NoTurn}]
    BY DEF IInv, TypeOK, Places
  <1>2. quota[p] = "granted" => pc[p] \in {"sendCreate", "emptyCreate"}
    BY DEF IInv, PermitsArePlaced
  <1>3. op[p] = "create" =>
          /\ pc[p] \in {"sendLock", "sendQuota", "sendCreate", "register", "start"}
          /\ pc[p] \notin {"register", "start"} => turn = NoTurn /\ ~Busy
    BY DEF IInv, CreatorIsAlone, PlacesMatch, Busy
  <1>4. pc[p] # "wait" => op[p] # "shutdown"
    BY DEF IInv, ShutdownIsLast
  <1>5. p \in Callers <=> p \notin Turns
    BY TurnAssumption DEF Procs
  <1>6. CASE pc[p] # "idle" /\ pc[p] \notin Owning \cup {"complete"} /\ Return(p) /\ UNCHANGED <<turn, status, cancelled, completed, releaseQuota, shuttingDown>>
             /\ permits' = permits - Granted(p)
             /\ (stopped' => stopped \/ (op[p] = "shutdown" /\ completed[state[p]]))
    BY <1>1, <1>6, ReturnIsOrdinary
  <1>7. CASE \E o \in AdmitOutcomes : SendJoin(p, o)
    <2>1. op[p] # "create"
      BY <1>3, <1>7 DEF SendJoin
    <2>2. Return(p)
      BY <1>7, <2>1 DEF SendJoin, AdmittedTo
    <2> QED
      BY <1>1, <1>2, <1>6, <1>7, <2>2 DEF SendJoin, Granted, Owning, Draining
  <1>8. CASE \E o \in AdmitOutcomes : SendRefused(p, o)
    BY <1>1, <1>6, <1>8 DEF SendRefused, Granted, Owning, Draining
  <1>9. CASE p \in Callers /\ SendLock(p)
    <2>1. CASE Return(p)
      BY <1>1, <1>2, <1>6, <1>9, <2>1 DEF SendLock, Granted, Owning, Draining
    <2>2. CASE Busy /\ Goto(p, "sendWait") /\ state' = [state EXCEPT ![p] = turn]
               /\ UNCHANGED <<op, arg, quota, result, cutoff>>
      BY <1>1, <1>2, <1>3, <1>5, <1>9, <2>2, MoveIsOrdinary DEF SendLock, Owning, Ending, Draining
    <2>3. CASE ~Busy /\ Goto(p, "sendQuota") /\ UNCHANGED <<op, locals>>
      <3>1. state' = [state EXCEPT ![p] = state[p]] /\ state[p] \in Turns \cup {NoTurn}
        BY <1>1, <2>3
      <3> QED
        BY <1>1, <1>2, <1>3, <1>5, <1>9, <2>3, <3>1, MoveIsOrdinary DEF SendLock, Owning, Ending,
           Draining
    <2> QED
      BY <1>9, <2>1, <2>2, <2>3 DEF SendLock
  <1>10. CASE p \in Callers /\ SendRetry(p)
    BY <1>1, <1>2, <1>3, <1>5, <1>10, MoveIsOrdinary DEF SendRetry, Owning, Ending, Draining
  <1>11. CASE (p \in Callers /\ SendAgain(p)) \/ EmptyAgain(p)
    <2> DEFINE place == IF pc[p] = "sendCreate" THEN "sendLock" ELSE "emptyLock"
    <2>1. Goto(p, place) /\ op[p] # "create" /\ GiveBack(p) /\ pc[p] \in {"sendCreate", "emptyCreate"}
          /\ UNCHANGED <<op, state, turn, status, cancelled, completed, releaseQuota, shuttingDown, stopped>>
      BY <1>3, <1>11 DEF SendAgain, EmptyAgain
    <2>2. p \in Turns => place = "emptyLock"
      BY <1>5, <1>11 DEF EmptyAgain
    <2>3. place \in {"sendLock", "emptyLock"}
      OBVIOUS
    <2> HIDE DEF place
    <2>4. pc'[p] = place /\ quota'[p] = "none" /\ Others(p) /\ op'[p] = op[p]
          /\ permits' = permits - Granted(p)
      BY <1>1, <2>1 DEF Goto, GiveBack, Others, Granted
    <2> QED
      BY <1>1, <1>4, <2>1, <2>2, <2>3, <2>4 DEF Ordinary, Granted, Owning, Ending, Draining
  <1>12. CASE p \in Callers /\ Register(p)
    <2>1. CASE Goto(p, "start") /\ UNCHANGED <<session, turns, op, locals, permits, reply>>
      <3>1. pc'[p] = "start" /\ Others(p) /\ op[p] = "create" /\ pc[p] = "register"
        BY <1>1, <1>12, <2>1 DEF Goto, Others, PlacesMatch, Register
      <3> QED
        BY <1>1, <1>2, <1>5, <1>12, <2>1, <3>1 DEF Register, Ordinary, Granted, Owning, Ending,
           Draining
    <2> QED
      BY <1>12, <2>1 DEF Register, Aborts, Abort
  <1>13. CASE p \in Callers /\ WaitDone(p)
    <2>1. stopped' => stopped \/ op[p] = "shutdown"
      BY <1>13, Zenon DEF WaitDone
    <2> QED
      BY <1>1, <1>2, <1>6, <1>13, <2>1 DEF WaitDone, Granted, Owning, Draining
  <1>14. CASE \E t \in Turns : Creates(p, t)
    BY <1>14
  <1>15. ASSUME NEW a \in QuotaAnswers, Quota(p, a)
         PROVE  Ordinary(p)
    <2>1. CASE a \notin Kept(p)
      <3>1. /\ Return(p) /\ pc[p] \in {"sendQuota", "emptyQuota"} /\ permits' = permits
            /\ UNCHANGED <<turn, status, cancelled, completed, releaseQuota, shuttingDown>>
            /\ (stopped' => stopped)
        BY <1>15, <2>1 DEF Quota
      <3>2. permits - Granted(p) = permits
        BY <1>1, <1>2, <3>1 DEF Granted
      <3>3. pc[p] # "idle" /\ pc[p] \notin Owning \cup {"complete"} /\ permits' = permits - Granted(p)
        BY <3>1, <3>2 DEF Owning, Draining
      <3> QED
        BY <1>1, <3>1, <3>3, ReturnIsOrdinary
    <2>2. CASE a \in Kept(p)
      <3> DEFINE place == IF pc[p] = "sendQuota" THEN "sendCreate" ELSE "emptyCreate"
      <3>1. Goto(p, place) /\ quota' = [quota EXCEPT ![p] = a]
        BY <1>15, <2>2 DEF Quota
      <3>2. /\ permits' = IF a = "granted" THEN permits + 1 ELSE permits
            /\ UNCHANGED <<op, state, turn, status, cancelled, completed, releaseQuota, shuttingDown, stopped>>
            /\ pc[p] \in {"sendQuota", "emptyQuota"}
        BY <1>15, <2>2 DEF Quota
      <3>3. place \in {"sendCreate", "emptyCreate"} /\ (op[p] = "create" => place = "sendCreate")
        BY <1>3, <3>2
      <3> HIDE DEF place
      <3>4. pc'[p] = place /\ quota'[p] = a /\ Others(p) /\ op'[p] = op[p]
        BY <1>1, <3>1, <3>2 DEF Goto, Others
      <3>5. permits' = permits + Granted(p)' - Granted(p)
        BY <1>1, <1>2, <3>2, <3>4 DEF Granted
      <3> QED
        BY <1>3, <1>4, <3>2, <3>3, <3>4, <3>5 DEF Ordinary, Owning, Ending, Draining
    <2> QED
      BY <2>1, <2>2
  <1>16. CASE EmptyLock(p)
    <2>1. CASE Return(p)
      BY <1>1, <1>2, <1>6, <1>16, <2>1 DEF EmptyLock, Granted, Owning, Draining
    <2>2. CASE Busy /\ Goto(p, "wait") /\ state' = [state EXCEPT ![p] = turn]
               /\ UNCHANGED <<op, arg, quota, result, cutoff>>
      BY <1>1, <1>2, <1>3, <1>16, <2>2, MoveIsOrdinary DEF EmptyLock, Owning, Ending, Draining
    <2>3. CASE ~Busy /\ Goto(p, "emptyQuota") /\ UNCHANGED <<wake, op, locals>>
      <3>1. state' = [state EXCEPT ![p] = state[p]] /\ state[p] \in Turns \cup {NoTurn}
        BY <1>1, <2>3
      <3> QED
        BY <1>1, <1>2, <1>3, <1>16, <2>3, <3>1, MoveIsOrdinary DEF EmptyLock, Owning, Ending,
           Draining
    <2> QED
      BY <1>16, <2>1, <2>2, <2>3 DEF EmptyLock
  <1> QED
    BY <1>3, <1>7, <1>8, <1>9, <1>10, <1>11, <1>12, <1>13, <1>14, <1>15, <1>16 DEF CallStep, Creates

LEMMA RunnerStepCases ==
  ASSUME IInv, NEW g \in Procs, RunnerStep(g)
  PROVE  Ordinary(g) \/ PermitGranted(g) \/ Finish(g) \/ Publish(g) \/ Complete(g)
  <1> USE DEF session, turns, store, locals, history
  <1>1. /\ pc[g] \in RunnerPlaces
        /\ UNCHANGED <<op, state, quota, permits>> \/ Restart(g) \/ PermitGranted(g) \/ Finish(g)
    BY DEF RunnerStep, Runs, RunnerPlaces, Draining, PermitGranted, PermitFails, Run, RunEnds,
       ReadCutoff, PromoteSteers, AcknowledgeSteers, Provider, DrainFails, Continue, WakeCheck,
       Finish, Publish, Complete, Restart, Fails
  <1>2. op[g] # "create" /\ quota[g] # "granted" /\ TypeOK /\ PlacesMatch /\ permits \in Int
    BY <1>1 DEF IInv, CreatorIsAlone, PlacesMatch, PermitsArePlaced, TypeOK, RunnerPlaces, Draining
  <1>3. state' = state => \E t \in Turns \cup {NoTurn} : state' = [state EXCEPT ![g] = t]
    <2>1. state = [state EXCEPT ![g] = state[g]] /\ state[g] \in Turns \cup {NoTurn}
      BY <1>2 DEF TypeOK
    <2> QED
      BY <2>1
  <1>4. ASSUME NEW place \in (Owning \ {"register", "start", "permit",
  "publish"}) \cup {"emptyLock"},
               pc[g] \in Owning <=> place # "emptyLock", pc[g] # "complete", Goto(g, place),
               UNCHANGED <<turn, status, cancelled, completed, releaseQuota, op, permits,
               shuttingDown, stopped,
                           state, quota>>
        PROVE  Ordinary(g)
    BY <1>1, <1>2, <1>3, <1>4, MoveIsOrdinary DEF Owning, Ending, Draining, RunnerPlaces
  <1>5. ASSUME NEW place \in {"finish", "drained"}, pc[g] \in Owning, Fails(g, place)
        PROVE  Ordinary(g)
    BY <1>4, <1>5 DEF Fails, Owning, Draining
  <1>6. CASE PermitFails(g) \/ RunEnds(g) \/ DrainFails(g)
    BY <1>5, <1>6 DEF PermitFails, RunEnds, DrainFails, Runs, Owning, Draining
  <1>7. CASE Run(g)
    BY <1>4, <1>7 DEF Run, Runs, Owning, Draining
  <1>8. CASE ReadCutoff(g) \/ AcknowledgeSteers(g) \/ Provider(g)
    BY <1>4, <1>8 DEF ReadCutoff, AcknowledgeSteers, Provider, Runs, Owning, Draining
  <1>9. CASE PromoteSteers(g)
    BY <1>4, <1>5, <1>9 DEF PromoteSteers, Runs, Owning, Draining
  <1>10. CASE Continue(g)
    BY <1>4, <1>5, <1>10 DEF Continue, Runs, Owning, Draining
  <1>11. CASE WakeCheck(g)
    BY <1>4, <1>11 DEF WakeCheck, Runs, Owning, Draining
  <1>12. CASE Restart(g)
    <2>1. CASE Return(g)
      <3>1. permits' = permits - Granted(g)
        BY <1>2, <1>12 DEF Restart, Granted
      <3> QED
        BY <1>2, <1>12, <2>1, <3>1, ReturnIsOrdinary DEF Restart, Runs, Owning, Draining
    <2>2. CASE Goto(g, "emptyLock") /\ UNCHANGED <<op, locals>>
      BY <1>4, <1>12, <2>2 DEF Restart, Runs, Owning, Draining
    <2> QED
      BY <1>12, <2>1, <2>2 DEF Restart
  <1> QED
    BY <1>6, <1>7, <1>8, <1>9, <1>10, <1>11, <1>12 DEF RunnerStep

LEMMA GivingUpIsOrdinary ==
  ASSUME IInv, NEW c \in Callers, CallerGivesUp(c)
  PROVE  Ordinary(c)
  <1>1. /\ Return(c) /\ pc[c] # "idle" /\ pc[c] \notin Owning \cup {"complete"} /\ permits' = permits /\ quota[c] # "granted"
        /\ UNCHANGED <<turn, status, cancelled, completed, releaseQuota, shuttingDown>>
        /\ (stopped' => stopped)
    BY DEF CallerGivesUp, session, turns, history, IInv, PermitsArePlaced, Procs,
       Owning, Draining
  <1>2. TypeOK /\ PlacesMatch /\ permits' = permits - Granted(c)
    BY <1>1 DEF IInv, TypeOK, Granted
  <1> QED
    BY <1>1, <1>2, ReturnIsOrdinary DEF Procs

\* Every step is ordinary, or does something to a turn.
LEMMA StepCases ==
  ASSUME IInv, CreatedAlone, Next
  PROVE  \/ \E p \in Procs : Ordinary(p)
         \/ \E p \in Procs : Aborts(p)
         \/ \E p \in Procs : Start(p)
         \/ \E p \in Procs, t \in Turns : Creates(p, t)
         \/ \E c \in Callers : Stops(c)
         \/ \E g \in Procs : PermitGranted(g)
         \/ \E g \in Procs : Finish(g)
         \/ \E g \in Procs : Publish(g)
         \/ \E g \in Procs : Complete(g)
  <1>2. CASE \E c \in Callers \ Creators : Call(c)
    BY <1>2, CallCases DEF Procs
  <1>3. CASE \E c \in Callers : CallerGivesUp(c)
    BY <1>3, GivingUpIsOrdinary DEF Procs
  <1>4. CASE \E p \in Procs : CallStep(p)
    BY <1>4, CallStepCases
  <1>5. CASE \E p \in Procs : RunnerStep(p)
    BY <1>5, RunnerStepCases
  <1> QED
    BY <1>2, <1>3, <1>4, <1>5 DEF Next

-----------------------------------------------------------------------------
(* Counting permits.                                                       *)

LEMMA CountOne ==
  ASSUME NEW S, IsFiniteSet(S), NEW A, A \subseteq S, NEW B, B \subseteq S, NEW e \in S,
         \A x \in S \ {e} : x \in A <=> x \in B
  PROVE  Cardinality(B) = Cardinality(A) + (IF e \in B THEN 1 ELSE 0) - (IF e \in A THEN 1 ELSE 0)
  <1>1. IsFiniteSet(A) /\ IsFiniteSet(B)
    BY FS_Subset
  <1>2. Cardinality(A) \in Nat /\ Cardinality(B) \in Nat
    BY <1>1, FS_CardinalityType
  <1>3. CASE e \in A <=> e \in B
    <2>1. A = B
      BY <1>3
    <2> QED
      BY <1>2, <2>1
  <1>4. CASE e \in A /\ e \notin B
    <2>1. A = B \cup {e}
      BY <1>4
    <2>2. Cardinality(A) = Cardinality(B) + 1
      BY <1>1, <1>4, <2>1, FS_AddElement
    <2> QED
      BY <1>2, <1>4, <2>2
  <1>5. CASE e \notin A /\ e \in B
    <2>1. B = A \cup {e}
      BY <1>5
    <2>2. Cardinality(B) = Cardinality(A) + 1
      BY <1>1, <1>5, <2>1, FS_AddElement
    <2> QED
      BY <1>2, <1>5, <2>2
  <1> QED
    BY <1>3, <1>4, <1>5

GrantedOut == Cardinality({p \in Procs : quota[p] = "granted"})
HeldByTurns == Cardinality({t \in Turns : releaseQuota[t]})
Held(t) == IF releaseQuota[t] THEN 1 ELSE 0

LEMMA ProcsAreFinite == IsFiniteSet(Procs) /\ IsFiniteSet(Turns)
  BY TurnAssumption, FS_Union DEF Procs

LEMMA GrantedChanges ==
  ASSUME NEW p \in Procs, \A q \in Procs \ {p} : quota'[q] = quota[q]
  PROVE  GrantedOut' = GrantedOut + Granted(p)' - Granted(p)
  <1> DEFINE A == {q \in Procs : quota[q] = "granted"}
             B == {q \in Procs : quota'[q] = "granted"}
  <1>1. Cardinality(B) = Cardinality(A) + (IF p \in B THEN 1 ELSE 0) - (IF p \in A THEN 1 ELSE 0)
    <2>1. A \subseteq Procs /\ B \subseteq Procs /\ \A x \in Procs \ {p} : x \in A <=> x \in B
      OBVIOUS
    <2> HIDE DEF A, B
    <2> QED
      BY <2>1, ProcsAreFinite, CountOne
  <1>2. GrantedOut = Cardinality(A) /\ GrantedOut' = Cardinality(B)
    BY DEF GrantedOut
  <1> QED
    BY <1>1, <1>2 DEF Granted

LEMMA HeldChanges ==
  ASSUME NEW t \in Turns, \A u \in Turns \ {t} : releaseQuota'[u] = releaseQuota[u]
  PROVE  HeldByTurns' = HeldByTurns + Held(t)' - Held(t)
  <1> DEFINE A == {u \in Turns : releaseQuota[u]}
             B == {u \in Turns : releaseQuota'[u]}
  <1>1. Cardinality(B) = Cardinality(A) + (IF t \in B THEN 1 ELSE 0) - (IF t \in A THEN 1 ELSE 0)
    <2>1. A \subseteq Turns /\ B \subseteq Turns /\ \A x \in Turns \ {t} : x \in A <=> x \in B
      OBVIOUS
    <2> HIDE DEF A, B
    <2> QED
      BY <2>1, ProcsAreFinite, CountOne
  <1>2. HeldByTurns = Cardinality(A) /\ HeldByTurns' = Cardinality(B)
    BY DEF HeldByTurns
  <1> QED
    BY <1>1, <1>2 DEF Held

LEMMA CountsAreNaturals ==
  GrantedOut \in Nat /\ HeldByTurns \in Nat
  <1>1. IsFiniteSet({p \in Procs : quota[p] = "granted"}) /\ IsFiniteSet({t \in Turns : releaseQuota[t]})
    BY ProcsAreFinite, FS_Subset
  <1> QED
    BY <1>1, FS_CardinalityType DEF GrantedOut, HeldByTurns

-----------------------------------------------------------------------------
(* Ordinary steps.                                                         *)

LEMMA OrdinaryKeeps ==
  ASSUME IInv, NEW p \in Procs, Ordinary(p)
  PROVE  /\ PlacesMatch' /\ CreatorIsAlone' /\ OwnersAreCurrent' /\ OwnersAreAlone'
         /\ StartIsFresh' /\ CompletedIsOver' /\ PermitsArePlaced' /\ ShutdownIsLast'
  <1> USE DEF IInv, Ordinary, Others
  <1>1. PlacesMatch'
    BY DEF PlacesMatch, Owning, Ending, Draining
  <1>2. CreatorIsAlone'
    BY TurnAssumption DEF CreatorIsAlone, PlacesMatch, Starting, Procs
  <1>3. \A q \in Procs :
          /\ pc'[q] \in Owning => pc[q] \in Owning /\ state'[q] = state[q]
          /\ pc'[q] \in Ending => pc[q] \in Ending /\ state'[q] = state[q] /\ pc'[q] = pc[q]
    BY DEF Owning, Ending, Draining
  <1>4. OwnersAreCurrent'
    BY <1>3 DEF OwnersAreCurrent, Busy, Ending
  <1>5. OwnersAreAlone'
    BY <1>3 DEF OwnersAreAlone
  <1>6. StartIsFresh'
    <2> SUFFICES ASSUME NEW q \in Procs, pc'[q] = "start", op'[q] # "create"
                 PROVE  state'[q] = q \/ pc'[state'[q]] = "idle"
      BY DEF StartIsFresh
    <2>1. q # p /\ pc[q] = "start" /\ op[q] # "create" /\ state'[q] = state[q]
      OBVIOUS
    <2>2. state[q] \in Turns
      BY <2>1 DEF OwnersAreCurrent, Owning, Busy, TypeOK
    <2>3. CASE pc[state[q]] = "idle"
      BY <2>1, <2>2, <2>3 DEF Procs
    <2> QED
      BY <2>1, <2>3 DEF StartIsFresh
  <1>7. CompletedIsOver'
    BY DEF CompletedIsOver
  <1>8. PermitsArePlaced'
    <2>1. \A q \in Procs : quota'[q] = "granted" => pc'[q] \in {"sendCreate", "emptyCreate"}
      BY DEF PermitsArePlaced
    <2>2. \A t \in Turns : releaseQuota'[t] => t = turn' /\ status'[t] \in Active \ {"blocked"}
      BY DEF PermitsArePlaced
    <2>3. \A q \in Procs : pc'[q] \in {"permit", "publish"} => ~releaseQuota'[state'[q]]
      BY DEF PermitsArePlaced, Owning
    <2>4. GrantedOut' = GrantedOut + Granted(p)' - Granted(p) /\ HeldByTurns' = HeldByTurns
      BY GrantedChanges DEF HeldByTurns
    <2>5. permits = GrantedOut + HeldByTurns
      BY DEF PermitsArePlaced, GrantedOut, HeldByTurns
    <2>6. permits' = GrantedOut' + HeldByTurns'
      BY <2>4, <2>5, CountsAreNaturals DEF Granted
    <2> QED
      BY <2>1, <2>2, <2>3, <2>6 DEF PermitsArePlaced, GrantedOut, HeldByTurns
  <1>9. ShutdownIsLast'
    <2>1. Busy' = Busy
      BY DEF Busy
    <2>2. ~(op[p] = "shutdown" /\ completed[state[p]] /\ Busy)
      BY DEF ShutdownIsLast, CompletedIsOver, Busy, TypeOK
    <2>3. stopped' => shuttingDown' /\ ~Busy
      BY <2>2 DEF ShutdownIsLast
    <2>4. \A c \in Procs : op'[c] = "shutdown" =>
            pc'[c] = "wait" /\ shuttingDown' /\ (Busy => state'[c] = turn')
      BY DEF ShutdownIsLast
    <2> QED
      BY <2>1, <2>3, <2>4 DEF ShutdownIsLast
  <1> QED
    BY <1>1, <1>2, <1>4, <1>5, <1>6, <1>7, <1>8, <1>9

-----------------------------------------------------------------------------
(* Steps that do something to a turn.                                      *)

\* What the places of owners say about the turn of g.
LEMMA OwnerFacts ==
  ASSUME IInv, NEW g \in Procs, pc[g] \in Owning
  PROVE  /\ state[g] = turn /\ turn \in Turns /\ status[turn] \in Active /\ ~completed[turn]
         /\ \A q \in Procs \ {g} : pc[q] \notin Owning
         /\ \A q \in Procs \ {g} : pc[q] \in Ending => state[q] # turn
         /\ op[g] # "shutdown" /\ quota[g] # "granted" /\ ~stopped
  BY DEF IInv, OwnersAreCurrent, OwnersAreAlone, Busy, TypeOK, Owning, Ending, Draining,
     ShutdownIsLast, PermitsArePlaced

\* A step that changes no quota and one turn's permit.
LEMMA CountsOneTurn ==
  ASSUME IInv, NEW t \in Turns, UNCHANGED quota,
         \A u \in Turns \ {t} : releaseQuota'[u] = releaseQuota[u],
         permits' = permits + Held(t)' - Held(t)
  PROVE  permits' = GrantedOut' + HeldByTurns'
  <1>1. permits = GrantedOut + HeldByTurns
    BY DEF IInv, PermitsArePlaced, GrantedOut, HeldByTurns
  <1>2. GrantedOut' = GrantedOut
    BY DEF GrantedOut
  <1> QED
    BY <1>1, <1>2, HeldChanges, CountsAreNaturals DEF Held

LEMMA StopsKeeps ==
  ASSUME IInv, NEW c \in Callers, Stops(c)
  PROVE  /\ PlacesMatch' /\ CreatorIsAlone' /\ OwnersAreCurrent' /\ OwnersAreAlone'
         /\ StartIsFresh' /\ CompletedIsOver' /\ PermitsArePlaced' /\ ShutdownIsLast'
  <1>1. /\ pc[c] = "idle" /\ Busy /\ pc'[c] = "wait" /\ state'[c] = turn
        /\ op'[c] \in {"interrupt", "shutdown"}
        /\ op'[c] = "shutdown" => shuttingDown'
        /\ shuttingDown => shuttingDown'
        /\ status' = [status EXCEPT ![turn] = "interrupting"]
        /\ UNCHANGED <<turn, completed, releaseQuota, quota, permits>>
        /\ \A q \in Procs \ {c} : pc'[q] = pc[q] /\ op'[q] = op[q] /\ state'[q] = state[q]
        /\ c \in Procs /\ c \notin Turns /\ turn \in Turns /\ (stopped' => stopped)
    BY TurnAssumption DEF Stops, Interrupt, Shutdown, Stop, Goto, IInv, TypeOK, Procs, Busy,
       session, store
  <1>2. /\ Busy' /\ status'[turn] = "interrupting"
        /\ \A t \in Turns \ {turn} : status'[t] = status[t]
    BY <1>1 DEF Busy, Active, IInv, TypeOK
  <1>3. PlacesMatch'
    BY <1>1 DEF IInv, PlacesMatch
  <1>4. CreatorIsAlone'
    BY <1>1, TurnAssumption DEF IInv, CreatorIsAlone, Procs
  <1>5. OwnersAreCurrent'
    BY <1>1, <1>2 DEF IInv, OwnersAreCurrent, Owning, Ending, Draining, Busy, Active, Final
  <1>6. OwnersAreAlone'
    BY <1>1 DEF IInv, OwnersAreAlone, Owning, Ending, Draining
  <1>7. StartIsFresh'
    BY <1>1 DEF IInv, StartIsFresh, OwnersAreCurrent, Owning, Procs
  <1>8. CompletedIsOver'
    BY <1>1, <1>2 DEF IInv, CompletedIsOver, Busy
  <1>9. PermitsArePlaced'
    <2>1. permits' = GrantedOut' + HeldByTurns'
      BY <1>1 DEF IInv, PermitsArePlaced, GrantedOut, HeldByTurns
    <2>2. \A t \in Turns : releaseQuota'[t] => t = turn' /\ status'[t] \in Active \ {"blocked"}
      BY <1>1, <1>2 DEF IInv, PermitsArePlaced, Active
    <2>3. \A q \in Procs : quota'[q] = "granted" => pc'[q] \in {"sendCreate", "emptyCreate"}
      BY <1>1 DEF IInv, PermitsArePlaced
    <2>4. \A q \in Procs : pc'[q] \in {"permit", "publish"} => ~releaseQuota'[state'[q]]
      BY <1>1 DEF IInv, PermitsArePlaced
    <2> QED
      BY <2>1, <2>2, <2>3, <2>4 DEF PermitsArePlaced, GrantedOut, HeldByTurns
  <1>10. ShutdownIsLast'
    BY <1>1 DEF IInv, ShutdownIsLast
  <1> QED
    BY <1>3, <1>4, <1>5, <1>6, <1>7, <1>8, <1>9, <1>10

\* Only CreateChild registers, and nobody else owns a turn meanwhile.
LEMMA AbortsKeeps ==
  ASSUME IInv, CreatedAlone, NEW p \in Procs, Aborts(p)
  PROVE  /\ PlacesMatch' /\ CreatorIsAlone' /\ OwnersAreCurrent' /\ OwnersAreAlone'
         /\ StartIsFresh' /\ CompletedIsOver' /\ PermitsArePlaced' /\ ShutdownIsLast'
  <1>1. /\ state[p] = turn /\ turn \in Turns /\ op[p] = "create" /\ p \in Creators
        /\ \A q \in Procs \ {p} : pc[q] \in {"idle", "wait"} /\ quota[q] # "granted"
        /\ quota[p] # "granted" /\ p \in Callers /\ p \notin Turns
    BY OwnerFacts, TurnAssumption DEF Aborts, IInv, PlacesMatch, CreatorIsAlone, PermitsArePlaced,
       Owning, Procs
  <1>2. /\ pc'[p] = "idle" /\ op'[p] = "none" /\ state'[p] = NoTurn /\ quota' = [quota EXCEPT ![p] = "none"]
        /\ \A q \in Procs \ {p} : pc'[q] = pc[q] /\ op'[q] = op[q] /\ state'[q] = state[q]
        /\ turn' = NoTurn /\ (stopped' => stopped) /\ UNCHANGED shuttingDown
        /\ status' = [status EXCEPT ![turn] = "canceled"]
        /\ completed' = [completed EXCEPT ![turn] = TRUE]
        /\ releaseQuota' = [releaseQuota EXCEPT ![turn] = FALSE]
        /\ permits' = IF releaseQuota[turn] THEN permits - 1 ELSE permits
    BY <1>1 DEF Aborts, Abort, Return, IInv, TypeOK
  <1>3. ~Busy' /\ \A q \in Procs : pc'[q] \in {"idle", "wait"}
    BY <1>1, <1>2 DEF Busy
  <1>4. PlacesMatch'
    BY <1>1, <1>2 DEF IInv, PlacesMatch
  <1>5. CreatorIsAlone'
    BY <1>1, <1>2 DEF CreatedAlone, CreatorIsAlone
  <1>6. OwnersAreCurrent' /\ OwnersAreAlone' /\ StartIsFresh'
    BY <1>3 DEF OwnersAreCurrent, OwnersAreAlone, StartIsFresh, Owning, Ending, Draining
  <1>7. CompletedIsOver'
    BY <1>1, <1>2 DEF IInv, CompletedIsOver, TypeOK, Active
  <1>8. PermitsArePlaced'
    <2>1. \A t \in Turns : ~releaseQuota'[t]
      BY <1>1, <1>2 DEF IInv, PermitsArePlaced, TypeOK
    <2>2. \A q \in Procs : quota'[q] # "granted"
      BY <1>1, <1>2 DEF IInv, TypeOK
    <2>3. permits' = GrantedOut' + HeldByTurns'
      <3>1. GrantedOut' = GrantedOut + Granted(p)' - Granted(p)
        BY <1>2, GrantedChanges DEF IInv, TypeOK
      <3>2. PICK t \in Turns : t = turn
        BY <1>1
      <3>3. HeldByTurns' = HeldByTurns + Held(t)' - Held(t)
        <4>1. \A u \in Turns \ {t} : releaseQuota'[u] = releaseQuota[u]
          BY <1>2, <3>2 DEF IInv, TypeOK
        <4> QED
          BY <4>1, HeldChanges
      <3>4. Held(t)' = 0 /\ permits' = permits - Held(t) /\ permits \in Int
        BY <1>2, <2>1, <3>2 DEF Held, IInv, TypeOK
      <3>5. permits = GrantedOut + HeldByTurns
        BY DEF IInv, PermitsArePlaced, GrantedOut, HeldByTurns
      <3>6. GrantedOut' = GrantedOut
        BY <1>1, <2>2, <3>1, CountsAreNaturals DEF Granted
      <3> QED
        BY <3>3, <3>4, <3>5, <3>6, CountsAreNaturals DEF Held
    <2> QED
      BY <1>3, <2>1, <2>2, <2>3 DEF PermitsArePlaced, GrantedOut, HeldByTurns
  <1>9. ShutdownIsLast'
    BY <1>1, <1>2, <1>3 DEF IInv, ShutdownIsLast
  <1> QED
    BY <1>4, <1>5, <1>6, <1>7, <1>8, <1>9

\* A turn gets its goroutine, which is responsible for it from now on.
LEMMA StartKeeps ==
  ASSUME IInv, NEW p \in Procs, Start(p)
  PROVE  /\ PlacesMatch' /\ CreatorIsAlone' /\ OwnersAreCurrent' /\ OwnersAreAlone'
         /\ StartIsFresh' /\ CompletedIsOver' /\ PermitsArePlaced' /\ ShutdownIsLast'
  <1> DEFINE g == IF op[p] = "create" THEN p ELSE state[p]
  <1>1. /\ pc[p] = "start" /\ state[p] = turn /\ turn \in Turns /\ status[turn] \in Active
        /\ ~completed[turn] /\ g \in Procs /\ ~stopped
        /\ \A q \in Procs \ {p} : pc[q] \notin Owning /\ (pc[q] \in Ending => state[q] # turn)
        /\ UNCHANGED <<session, turns, quota, permits, stopped>>
    BY OwnerFacts DEF Start, Owning, Procs, history
  <1>2. g = p \/ (pc[g] = "idle" /\ g = turn)
    BY <1>1 DEF IInv, StartIsFresh
  <1>3. /\ pc'[g] \in {"finish", "permit", "run"} /\ op'[g] = "turn" /\ state'[g] = turn
        /\ pc'[g] = "permit" => status[turn] = "blocked"
        /\ g # p => /\ pc'[p] \in {"idle", "wait"} /\ op'[p] \in {op[p], "none"}
                    /\ op'[p] # "create"
        /\ \A q \in Procs \ {p, g} : pc'[q] = pc[q] /\ op'[q] = op[q] /\ state'[q] = state[q]
    BY <1>1 DEF Start, IInv, TypeOK
  <1> HIDE DEF g
  <1>4. \A q \in Procs \ {g} : pc'[q] \notin Owning /\ (pc'[q] \in Ending => state'[q] # turn)
    BY <1>1, <1>3 DEF Owning, Ending, Draining
  <1>5. PlacesMatch'
    BY <1>1, <1>2, <1>3 DEF IInv, PlacesMatch
  <1>6. CreatorIsAlone'
    BY <1>1, <1>2, <1>3, TurnAssumption DEF IInv, CreatorIsAlone, Procs
  <1>7. OwnersAreCurrent'
    <2>1. Busy' /\ pc'[g] \notin Ending
      BY <1>1, <1>3, TurnAssumption DEF Busy, session, turns, Ending
    <2>2. \A q \in Procs \ {g} : pc'[q] \in Ending => pc[q] \in Ending /\ pc'[q] = pc[q] /\ state'[q] = state[q]
      BY <1>1, <1>3 DEF Ending
    <2> QED
      BY <1>1, <1>3, <1>4, <2>1, <2>2 DEF IInv, OwnersAreCurrent, session, turns
  <1>8. OwnersAreAlone'
    BY <1>1, <1>3, <1>4 DEF IInv, OwnersAreAlone, Owning, Ending, Draining
  <1>9. StartIsFresh'
    BY <1>3, <1>4 DEF StartIsFresh, Owning
  <1>10. CompletedIsOver'
    BY <1>1 DEF IInv, CompletedIsOver, session, turns
  <1>11. PermitsArePlaced'
    <2>1. permits' = GrantedOut' + HeldByTurns'
      BY <1>1 DEF IInv, PermitsArePlaced, GrantedOut, HeldByTurns, turns
    <2>2. \A t \in Turns : releaseQuota'[t] => t = turn' /\ status'[t] \in Active \ {"blocked"}
      BY <1>1 DEF IInv, PermitsArePlaced, session, turns
    <2>3. \A q \in Procs : quota'[q] = "granted" => pc'[q] \in {"sendCreate", "emptyCreate"}
      BY <1>1, <1>2, <1>3 DEF IInv, PermitsArePlaced
    <2>4. \A q \in Procs : pc'[q] \in {"permit", "publish"} => ~releaseQuota'[state'[q]]
      BY <1>1, <1>3, <1>4, <2>2 DEF Owning, session, turns
    <2> QED
      BY <2>1, <2>2, <2>3, <2>4 DEF PermitsArePlaced, GrantedOut, HeldByTurns
  <1>12. ShutdownIsLast'
    <2>1. Busy' = Busy
      BY <1>1 DEF Busy, session, turns
    <2> QED
      BY <1>1, <1>2, <1>3, <2>1 DEF IInv, ShutdownIsLast, session
  <1> QED
    BY <1>5, <1>6, <1>7, <1>8, <1>9, <1>10, <1>11, <1>12

\* A turn is created when there is none, in a slot nobody refers to.
LEMMA CreatesKeeps ==
  ASSUME IInv, NEW p \in Procs, NEW t \in Turns, Creates(p, t)
  PROVE  /\ PlacesMatch' /\ CreatorIsAlone' /\ OwnersAreCurrent' /\ OwnersAreAlone'
         /\ StartIsFresh' /\ CompletedIsOver' /\ PermitsArePlaced' /\ ShutdownIsLast'
  <1>1. /\ ~Busy /\ ~shuttingDown /\ NewTurn(p, t) /\ pc[p] \in {"sendCreate", "emptyCreate"}
        /\ pc[p] = "sendCreate" => p \in Callers
        /\ UNCHANGED <<op, shuttingDown, stopped>>
        /\ Goto(p, IF op[p] = "create" /\ pc[p] = "sendCreate" THEN "register" ELSE "start")
    BY DEF Creates, SendCreate, EmptyCreate, history
  <1>2. /\ turn' = t /\ state'[p] = t /\ pc'[p] \in {"register", "start"}
        /\ pc'[p] = "register" => op[p] = "create"
        /\ \A q \in Procs \ {p} : pc'[q] = pc[q] /\ state'[q] = state[q] /\ state[q] # t
        /\ status'[t] = IF quota[p] = "blocked" THEN "blocked" ELSE "running"
        /\ ~completed'[t] /\ releaseQuota'[t] = (quota[p] = "granted")
        /\ pc[t] = "idle" \/ t = p
        /\ \A u \in Turns \ {t} : /\ status'[u] = status[u] /\ completed'[u] = completed[u]
                                  /\ releaseQuota'[u] = releaseQuota[u]
        /\ quota' = [quota EXCEPT ![p] = "none"] /\ permits' = permits
    BY <1>1 DEF NewTurn, FreeFor, Goto, IInv, TypeOK
  <1>3. /\ \A q \in Procs : pc[q] \notin Owning
        /\ \A u \in Turns : ~releaseQuota[u]
        /\ \A q \in Procs : pc'[q] \in Owning => q = p
        /\ \A q \in Procs : pc'[q] \in Ending => q # p
        /\ status'[t] \in Active /\ Busy'
    BY <1>1, <1>2, TurnAssumption DEF IInv, OwnersAreCurrent, PermitsArePlaced, Busy, Active,
       Ending, TypeOK
  <1>4. PlacesMatch'
    BY <1>1, <1>2, TurnAssumption DEF IInv, PlacesMatch
  <1>5. CreatorIsAlone'
    BY <1>1, <1>2, TurnAssumption DEF IInv, CreatorIsAlone, Procs
  <1>6. OwnersAreCurrent'
    <2>1. ASSUME NEW q \in Procs, pc'[q] \in Ending
          PROVE  /\ state'[q] \in Turns /\ status'[state'[q]] \in Final
                 /\ pc'[q] = "complete" => ~completed'[state'[q]]
      BY <1>2, <1>3, <2>1 DEF IInv, OwnersAreCurrent
    <2>2. ASSUME NEW q \in Procs, pc'[q] \in Owning
          PROVE  state'[q] = turn' /\ Busy' /\ ~completed'[turn']
      BY <1>2, <1>3, <2>2
    <2>3. "complete" \in Ending
      BY DEF Ending
    <2> QED
      BY <2>1, <2>2, <2>3 DEF OwnersAreCurrent
  <1>7. OwnersAreAlone'
    BY <1>2, <1>3 DEF IInv, OwnersAreAlone
  <1>8. StartIsFresh'
    BY <1>2, <1>3 DEF StartIsFresh, Owning, Procs
  <1>9. CompletedIsOver'
    BY <1>2 DEF IInv, CompletedIsOver
  <1>10. PermitsArePlaced'
    <2>1. permits' = GrantedOut' + HeldByTurns'
      <3>1. permits = GrantedOut + HeldByTurns
        BY DEF IInv, PermitsArePlaced, GrantedOut, HeldByTurns
      <3>2. GrantedOut' = GrantedOut + Granted(p)' - Granted(p)
        BY <1>2, GrantedChanges DEF IInv, TypeOK
      <3>3. HeldByTurns' = HeldByTurns + Held(t)' - Held(t)
        BY <1>2, HeldChanges
      <3>4. Granted(p)' = 0 /\ Held(t) = 0 /\ Held(t)' = Granted(p)
        BY <1>2, <1>3 DEF Granted, Held, IInv, TypeOK
      <3> QED
        BY <1>2, <3>1, <3>2, <3>3, <3>4, CountsAreNaturals DEF Granted
    <2>2. \A u \in Turns : releaseQuota'[u] => u = turn' /\ status'[u] \in Active \ {"blocked"}
      BY <1>2, <1>3 DEF Active
    <2>3. \A q \in Procs : quota'[q] = "granted" => pc'[q] \in {"sendCreate", "emptyCreate"}
      BY <1>2 DEF IInv, PermitsArePlaced, TypeOK
    <2>4. \A q \in Procs : pc'[q] \in {"permit", "publish"} => ~releaseQuota'[state'[q]]
      BY <1>2, <1>3 DEF Owning
    <2> QED
      BY <2>1, <2>2, <2>3, <2>4 DEF PermitsArePlaced, GrantedOut, HeldByTurns
  <1>11. ShutdownIsLast'
    BY <1>1, <1>2 DEF IInv, ShutdownIsLast
  <1> QED
    BY <1>4, <1>5, <1>6, <1>7, <1>8, <1>9, <1>10, <1>11

\* A goroutine that goes on with its turn, whose status stays active.
LEMMA RunnerKeeps ==
  ASSUME IInv, NEW g \in Procs, NEW t \in Turns, t = turn, pc[g] \in Owning \ {"register", "start"},
         NEW place \in {"run", "finish", "publish"}, Goto(g, place),
         status'[t] \in Active, \A u \in Turns \ {t} : status'[u] = status[u],
         UNCHANGED <<turn, completed, op, state, quota, shuttingDown, stopped>>,
         \A u \in Turns \ {t} : releaseQuota'[u] = releaseQuota[u],
         releaseQuota'[t] => status'[t] # "blocked" /\ place # "publish",
         permits' = permits + Held(t)' - Held(t)
  PROVE  /\ PlacesMatch' /\ CreatorIsAlone' /\ OwnersAreCurrent' /\ OwnersAreAlone'
         /\ StartIsFresh' /\ CompletedIsOver' /\ PermitsArePlaced' /\ ShutdownIsLast'
  <1>1. /\ state[g] = t /\ status[t] \in Active /\ ~completed[t] /\ op[g] # "shutdown"
        /\ \A q \in Procs \ {g} : pc[q] \notin Owning /\ (pc[q] \in Ending => state[q] # t)
        /\ quota[g] # "granted" /\ ~stopped
    BY OwnerFacts
  <1>2. op[g] # "create"
    BY <1>1 DEF IInv, CreatorIsAlone, PlacesMatch, Owning, Draining
  <1>3. pc'[g] = place /\ \A q \in Procs \ {g} : pc'[q] = pc[q]
    BY DEF Goto, IInv, TypeOK
  <1>4. Busy' /\ Busy
    BY <1>1, TurnAssumption DEF Busy
  <1>5. PlacesMatch'
    BY <1>3 DEF IInv, PlacesMatch
  <1>6. CreatorIsAlone'
    <2>1. g \in Procs /\ pc[g] \notin {"idle", "wait"}
      BY DEF Owning, Draining
    <2> QED
      BY <1>2, <1>3, <2>1 DEF IInv, CreatorIsAlone
  <1>7. OwnersAreCurrent'
    <2>1. place \in Owning /\ place \notin Ending
      BY DEF Owning, Ending
    <2>2. ASSUME NEW q \in Procs \ {g}
          PROVE  /\ pc'[q] \notin Owning
                 /\ pc'[q] \in Ending => state'[q] \in Turns /\ status'[state'[q]] \in Final
                 /\ pc'[q] = "complete" => ~completed'[state'[q]]
      BY <1>1, <1>3, <2>2 DEF IInv, OwnersAreCurrent, Ending
    <2>3. state'[g] = turn' /\ ~completed'[turn']
      BY <1>1
    <2> QED
      BY <1>3, <1>4, <2>1, <2>2, <2>3 DEF OwnersAreCurrent, Ending
  <1>8. OwnersAreAlone'
    <2>1. ASSUME NEW q \in Procs, pc'[q] \in Owning \cup Ending
          PROVE  pc[q] \in Owning \cup Ending
      BY <1>3, <2>1
    <2> QED
      BY <2>1 DEF IInv, OwnersAreAlone
  <1>9. StartIsFresh'
    BY <1>1, <1>3 DEF StartIsFresh, Owning
  <1>10. CompletedIsOver'
    BY <1>1 DEF IInv, CompletedIsOver
  <1>11. PermitsArePlaced'
    <2>1. permits' = GrantedOut' + HeldByTurns'
      BY CountsOneTurn
    <2>2. \A u \in Turns : releaseQuota'[u] => u = turn' /\ status'[u] \in Active \ {"blocked"}
      BY DEF IInv, PermitsArePlaced
    <2>3. \A q \in Procs : quota'[q] = "granted" => pc'[q] \in {"sendCreate", "emptyCreate"}
      BY <1>1, <1>3 DEF IInv, PermitsArePlaced
    <2>4. \A q \in Procs : pc'[q] \in {"permit", "publish"} => ~releaseQuota'[state'[q]]
      BY <1>1, <1>3 DEF Owning
    <2> QED
      BY <2>1, <2>2, <2>3, <2>4 DEF PermitsArePlaced, GrantedOut, HeldByTurns
  <1>12. ShutdownIsLast'
    <2>1. \A c \in Procs : op[c] = "shutdown" => c # g
      BY <1>1
    <2> QED
      BY <1>1, <1>3, <1>4, <2>1 DEF IInv, ShutdownIsLast
  <1> QED
    BY <1>5, <1>6, <1>7, <1>8, <1>9, <1>10, <1>11, <1>12

LEMMA PermitGrantedKeeps ==
  ASSUME IInv, NEW g \in Procs, PermitGranted(g)
  PROVE  /\ PlacesMatch' /\ CreatorIsAlone' /\ OwnersAreCurrent' /\ OwnersAreAlone'
         /\ StartIsFresh' /\ CompletedIsOver' /\ PermitsArePlaced' /\ ShutdownIsLast'
  <1>1. pc[g] \in Owning \ {"register", "start"} /\ pc[g] = "permit"
    BY DEF PermitGranted, Runs, Owning
  <1>2. PICK t \in Turns : t = turn /\ state[g] = t /\ status[t] \in Active
    BY <1>1, OwnerFacts
  <1>3. ~releaseQuota[t] /\ permits \in Int
    BY <1>1, <1>2 DEF IInv, PermitsArePlaced, TypeOK
  <1>4. UNCHANGED <<turn, completed, op, state, quota, shuttingDown, stopped>>
    BY DEF PermitGranted, session, history
  <1>5. CASE cancelled[t]
    <2>1. Goto(g, "finish") /\ UNCHANGED <<status, releaseQuota, permits>>
      BY <1>2, <1>5 DEF PermitGranted
    <2>2. permits' = permits + Held(t)' - Held(t)
      BY <1>3, <2>1 DEF Held
    <2> QED
      BY <1>1, <1>2, <1>3, <1>4, <2>1, <2>2, RunnerKeeps
  <1>6. CASE ~cancelled[t]
    <2>1. /\ Goto(g, "run") /\ permits' = permits + 1
          /\ status' = [status EXCEPT ![t] = "running"]
          /\ releaseQuota' = [releaseQuota EXCEPT ![t] = TRUE]
      BY <1>2, <1>6 DEF PermitGranted
    <2>2. /\ status'[t] = "running" /\ \A u \in Turns \ {t} : status'[u] = status[u]
          /\ releaseQuota'[t] /\ \A u \in Turns \ {t} : releaseQuota'[u] = releaseQuota[u]
      BY <2>1 DEF IInv, TypeOK
    <2>3. permits' = permits + Held(t)' - Held(t) /\ status'[t] \in Active
      BY <1>3, <2>1, <2>2 DEF Held, Active
    <2> QED
      BY <1>1, <1>2, <1>4, <2>1, <2>2, <2>3, RunnerKeeps
  <1> QED
    BY <1>5, <1>6

LEMMA FinishKeeps ==
  ASSUME IInv, NEW g \in Procs, Finish(g)
  PROVE  /\ PlacesMatch' /\ CreatorIsAlone' /\ OwnersAreCurrent' /\ OwnersAreAlone'
         /\ StartIsFresh' /\ CompletedIsOver' /\ PermitsArePlaced' /\ ShutdownIsLast'
  <1>1. pc[g] \in Owning \ {"register", "start"}
    BY DEF Finish, Runs, Owning
  <1>2. PICK t \in Turns : t = turn /\ state[g] = t
    BY <1>1, OwnerFacts
  <1>3. /\ UNCHANGED <<turn, completed, op, state, quota, shuttingDown, stopped>>
        /\ Goto(g, "publish") /\ status' = [status EXCEPT ![t] = "interrupting"]
        /\ releaseQuota' = [releaseQuota EXCEPT ![t] = FALSE]
        /\ permits' = IF releaseQuota[t] THEN permits - 1 ELSE permits
    BY <1>2 DEF Finish, session, history
  <1>4. /\ status'[t] = "interrupting" /\ \A u \in Turns \ {t} : status'[u] = status[u]
        /\ ~releaseQuota'[t] /\ \A u \in Turns \ {t} : releaseQuota'[u] = releaseQuota[u]
        /\ permits \in Int
    BY <1>3 DEF IInv, TypeOK
  <1>5. permits' = permits + Held(t)' - Held(t) /\ status'[t] \in Active
    BY <1>3, <1>4 DEF Held, Active
  <1> QED
    BY <1>1, <1>2, <1>3, <1>4, <1>5, RunnerKeeps

\* The turn is over; somebody may replace it before its completion is out.
LEMMA PublishKeeps ==
  ASSUME IInv, TypeOK', NEW g \in Procs, Publish(g)
  PROVE  /\ PlacesMatch' /\ CreatorIsAlone' /\ OwnersAreCurrent' /\ OwnersAreAlone'
         /\ StartIsFresh' /\ CompletedIsOver' /\ PermitsArePlaced' /\ ShutdownIsLast'
  <1>1. /\ pc[g] = "publish" /\ pc[g] \in Owning /\ op[g] # "create"
        /\ UNCHANGED <<turn, completed, releaseQuota, op, state, quota, permits, shuttingDown, stopped>>
    BY DEF Publish, Runs, Owning, session, locals, history, IInv, CreatorIsAlone, PlacesMatch
  <1>2. PICK t \in Turns : t = turn
    BY <1>1, OwnerFacts
  <1>3. /\ state[g] = t /\ ~completed[t] /\ op[g] # "shutdown" /\ quota[g] # "granted" /\ ~stopped
        /\ \A q \in Procs \ {g} : pc[q] \notin Owning /\ (pc[q] \in Ending => state[q] # t)
        /\ ~releaseQuota[t]
    BY <1>1, <1>2, OwnerFacts DEF IInv, PermitsArePlaced
  <1>4. /\ pc'[g] = "complete" /\ \A q \in Procs \ {g} : pc'[q] = pc[q]
        /\ status'[t] \in Final /\ \A u \in Turns \ {t} : status'[u] = status[u]
    BY <1>2, <1>3 DEF Publish, Goto, IInv, TypeOK
  <1>5. ~Busy' /\ \A q \in Procs : pc'[q] \notin Owning
    <2>1. status'[t] \notin Active /\ "complete" \notin Owning
      BY <1>4 DEF Active, Final, Owning, Draining
    <2> QED
      BY <1>1, <1>2, <1>3, <1>4, <2>1 DEF Busy
  <1>6. PlacesMatch'
    BY <1>1, <1>4 DEF IInv, PlacesMatch
  <1>7. CreatorIsAlone'
    BY <1>1, <1>4 DEF IInv, CreatorIsAlone
  <1>8. OwnersAreCurrent'
    BY <1>1, <1>3, <1>4, <1>5 DEF IInv, OwnersAreCurrent
  <1>9. OwnersAreAlone'
    BY <1>1, <1>3, <1>4 DEF IInv, OwnersAreAlone
  <1>10. StartIsFresh'
    BY <1>5 DEF StartIsFresh, Owning
  <1>11. CompletedIsOver'
    BY <1>1, <1>3, <1>4 DEF IInv, CompletedIsOver
  <1>12. PermitsArePlaced'
    <2>1. \A u \in Turns : releaseQuota'[u] => u = turn' /\ status'[u] \in Active \ {"blocked"}
      BY <1>1, <1>3, <1>4 DEF IInv, PermitsArePlaced
    <2>2. \A q \in Procs : quota'[q] = "granted" => pc'[q] \in {"sendCreate", "emptyCreate"}
      BY <1>1, <1>3, <1>4 DEF IInv, PermitsArePlaced
    <2>3. \A q \in Procs : pc'[q] \in {"permit", "publish"} => ~releaseQuota'[state'[q]]
      BY <1>5 DEF Owning
    <2> QED
      BY <1>1, <2>1, <2>2, <2>3 DEF IInv, PermitsArePlaced
  <1>13. ShutdownIsLast'
    BY <1>1, <1>3, <1>4, <1>5 DEF IInv, ShutdownIsLast
  <1> QED
    BY <1>6, <1>7, <1>8, <1>9, <1>10, <1>11, <1>12, <1>13

LEMMA CompleteKeeps ==
  ASSUME IInv, NEW g \in Procs, Complete(g)
  PROVE  /\ PlacesMatch' /\ CreatorIsAlone' /\ OwnersAreCurrent' /\ OwnersAreAlone'
         /\ StartIsFresh' /\ CompletedIsOver' /\ PermitsArePlaced' /\ ShutdownIsLast'
  <1>1. /\ pc[g] = "complete" /\ pc[g] \in Ending /\ op[g] # "create" /\ op[g] # "shutdown"
        /\ UNCHANGED <<turn, status, releaseQuota, op, state, quota, permits, shuttingDown, stopped>>
        /\ quota[g] # "granted"
    BY DEF Complete, Runs, Ending, session, locals, history, IInv, CreatorIsAlone, PlacesMatch,
       ShutdownIsLast, PermitsArePlaced
  <1>2. PICK t \in Turns : t = state[g]
    BY <1>1 DEF IInv, OwnersAreCurrent
  <1>3. /\ status[t] \in Final /\ status[t] \notin Active
        /\ \A q \in Procs \ {g} : pc[q] \in Ending => state[q] # t
    BY <1>1, <1>2 DEF IInv, OwnersAreCurrent, OwnersAreAlone, Active, Final
  <1>4. t = turn => \A q \in Procs : pc[q] \notin Owning
    BY <1>3 DEF IInv, OwnersAreCurrent, Busy
  <1>5. /\ pc'[g] = "restart" /\ pc'[g] \in Ending /\ pc'[g] \notin Owning
        /\ \A q \in Procs \ {g} : pc'[q] = pc[q]
        /\ completed'[t] /\ \A u \in Turns \ {t} : completed'[u] = completed[u]
    BY <1>2 DEF Complete, Goto, IInv, TypeOK, Owning, Ending, Draining
  <1>6. Busy' = Busy
    BY <1>1 DEF Busy
  <1>7. PlacesMatch'
    BY <1>1, <1>5 DEF IInv, PlacesMatch
  <1>8. CreatorIsAlone'
    BY <1>1, <1>5 DEF IInv, CreatorIsAlone
  <1>9. OwnersAreCurrent'
    <2>1. ASSUME NEW q \in Procs, pc'[q] \in Owning
          PROVE  state'[q] = turn' /\ Busy' /\ ~completed'[turn']
      <3>1. q # g /\ pc[q] \in Owning
        BY <1>5, <2>1
      <3>2. t # turn /\ turn \in Turns /\ ~completed[turn] /\ state[q] = turn /\ Busy
        BY <1>4, <3>1, OwnerFacts DEF IInv, OwnersAreCurrent
      <3> QED
        BY <1>1, <1>5, <1>6, <3>2
    <2>2. ASSUME NEW q \in Procs, pc'[q] \in Ending
          PROVE  state'[q] \in Turns /\ status'[state'[q]] \in Final
      BY <1>1, <1>2, <1>3, <1>5, <2>2 DEF IInv, OwnersAreCurrent
    <2>3. ASSUME NEW q \in Procs, pc'[q] = "complete"
          PROVE  ~completed'[state'[q]]
      <3>1. q # g /\ pc[q] = "complete" /\ pc[q] \in Ending
        BY <1>5, <2>3 DEF Ending
      <3> QED
        BY <1>1, <1>3, <1>5, <3>1 DEF IInv, OwnersAreCurrent
    <2> QED
      BY <2>1, <2>2, <2>3 DEF OwnersAreCurrent
  <1>10. OwnersAreAlone'
    BY <1>1, <1>5 DEF IInv, OwnersAreAlone
  <1>11. StartIsFresh'
    <2> SUFFICES ASSUME NEW q \in Procs, pc'[q] = "start", op'[q] # "create"
                 PROVE  state'[q] = q \/ pc'[state'[q]] = "idle"
      BY DEF StartIsFresh
    <2>1. q # g /\ pc[q] = "start" /\ op[q] # "create" /\ pc[q] \in Owning
      BY <1>1, <1>5 DEF Owning
    <2>2. state[q] \in Procs
      BY <2>1, OwnerFacts DEF Procs
    <2> QED
      BY <1>1, <1>5, <2>1, <2>2 DEF IInv, StartIsFresh
  <1>12. CompletedIsOver'
    BY <1>1, <1>3, <1>5 DEF IInv, CompletedIsOver
  <1>13. PermitsArePlaced'
    BY <1>1, <1>5 DEF IInv, PermitsArePlaced
  <1>14. ShutdownIsLast'
    BY <1>1, <1>5, <1>6 DEF IInv, ShutdownIsLast
  <1> QED
    BY <1>7, <1>8, <1>9, <1>10, <1>11, <1>12, <1>13, <1>14

-----------------------------------------------------------------------------
(* The theorems.                                                           *)

LEMMA InitHolds ==
  ASSUME CreatedAlone, Init
  PROVE  IInv
  <1>1. TypeOK
    <2>1. arg \in [Callers -> Messages \cup {NoMessage}]
      BY TurnAssumption DEF Init
    <2>2. /\ pc \in [Procs -> CallerPlaces \cup RunnerPlaces \cup {"idle"}]
          /\ op \in [Procs -> Ops] /\ result \in [Procs -> Final]
      BY DEF Init, CallerPlaces, Ops, Final
    <2>3. /\ state \in [Procs -> Turns \cup {NoTurn}] /\ cutoff \in [Procs -> Nat]
          /\ quota \in [Procs -> {"none", "granted", "blocked"}]
      BY DEF Init
    <2>4. /\ sequence \in Nat /\ admitted \in [Messages -> Nat] /\ promoted \subseteq Messages
          /\ reply \in [Messages -> {"none", "created", "duplicate"}] /\ permits \in Int
      BY DEF Init
    <2>5. /\ turn \in Turns \cup {NoTurn}
          /\ shuttingDown \in BOOLEAN /\ removed \in BOOLEAN /\ stopped \in BOOLEAN
          /\ status \in [Turns -> Active \cup Final \cup {"free"}]
          /\ wake \in [Turns -> BOOLEAN] /\ cancelled \in [Turns -> BOOLEAN]
          /\ completed \in [Turns -> BOOLEAN] /\ releaseQuota \in [Turns -> BOOLEAN]
          /\ steer \in [Turns -> Nat]
      BY DEF Init
    <2> QED
      BY <2>1, <2>2, <2>3, <2>4, <2>5 DEF TypeOK
  <1>2. /\ \A p \in Procs : /\ pc[p] = IF p \in Creators THEN "sendLock" ELSE "idle"
                            /\ op[p] = IF p \in Creators THEN "create" ELSE "none"
                            /\ quota[p] = "none"
        /\ \A t \in Turns : ~releaseQuota[t] /\ ~completed[t]
        /\ turn = NoTurn /\ ~Busy /\ ~stopped
    BY DEF Init, Busy
  <1>3. PlacesMatch
    BY <1>2, TurnAssumption DEF PlacesMatch
  <1>4. OwnersAreCurrent /\ OwnersAreAlone /\ StartIsFresh
    BY <1>2 DEF OwnersAreCurrent, OwnersAreAlone, StartIsFresh, Owning, Ending, Draining
  <1>5. CompletedIsOver /\ ShutdownIsLast
    BY <1>2 DEF CompletedIsOver, ShutdownIsLast
  <1>6. PermitsArePlaced
    <2>1. {p \in Procs : quota[p] = "granted"} = {} /\ {t \in Turns : releaseQuota[t]} = {}
      BY <1>2
    <2>2. GrantedOut = 0 /\ HeldByTurns = 0 /\ permits = 0
      BY <2>1, FS_EmptySet DEF Init, GrantedOut, HeldByTurns
    <2>3. permits = GrantedOut + HeldByTurns
      BY <2>2
    <2> QED
      BY <1>2, <2>3 DEF PermitsArePlaced, GrantedOut, HeldByTurns
  <1>7. CreatorIsAlone
    BY <1>2, TurnAssumption DEF CreatedAlone, CreatorIsAlone, Procs
  <1> QED
    BY <1>1, <1>3, <1>4, <1>5, <1>6, <1>7 DEF IInv

LEMMA StepHolds ==
  ASSUME CreatedAlone, IInv, Next
  PROVE  IInv'
  <1>1. TypeOK'
    BY TypesStep DEF IInv
  <1>2. CASE \E p \in Procs : Ordinary(p)
    BY <1>1, <1>2, OrdinaryKeeps DEF IInv
  <1>3. CASE \E p \in Procs : Aborts(p)
    BY <1>1, <1>3, AbortsKeeps DEF IInv
  <1>4. CASE \E p \in Procs : Start(p)
    BY <1>1, <1>4, StartKeeps DEF IInv
  <1>5. CASE \E p \in Procs, t \in Turns : Creates(p, t)
    BY <1>1, <1>5, CreatesKeeps DEF IInv
  <1>6. CASE \E c \in Callers : Stops(c)
    BY <1>1, <1>6, StopsKeeps DEF IInv
  <1>7. CASE \E g \in Procs : PermitGranted(g)
    BY <1>1, <1>7, PermitGrantedKeeps DEF IInv
  <1>8. CASE \E g \in Procs : Finish(g)
    BY <1>1, <1>8, FinishKeeps DEF IInv
  <1>9. CASE \E g \in Procs : Publish(g)
    BY <1>1, <1>9, PublishKeeps DEF IInv
  <1>10. CASE \E g \in Procs : Complete(g)
    BY <1>1, <1>10, CompleteKeeps DEF IInv
  <1> QED
    BY <1>1, <1>2, <1>3, <1>4, <1>5, <1>6, <1>7, <1>8, <1>9, <1>10, StepCases DEF IInv

LEMMA StutterHolds ==
  ASSUME IInv, UNCHANGED vars
  PROVE  IInv'
  <1>1. /\ UNCHANGED <<turn, shuttingDown, removed, status, wake, cancelled, completed, releaseQuota,
                       steer, sequence, admitted, promoted, pc, op, arg, state, quota, result,
                       cutoff,
                       permits, reply, stopped>>
    BY DEF vars, session, turns, store, locals, history
  <1> QED
    BY <1>1 DEF IInv, TypeOK, PlacesMatch, CreatorIsAlone, OwnersAreCurrent, OwnersAreAlone,
       StartIsFresh, CompletedIsOver, PermitsArePlaced, ShutdownIsLast, Busy

\* The inductive invariant holds in every reachable state.
THEOREM Invariance ==
  ASSUME CreatedAlone
  PROVE  Spec => []IInv
  <1>1. Init => IInv
    BY InitHolds
  <1>2. IInv /\ [Next]_vars => IInv'
    BY StepHolds, StutterHolds
  <1> QED
    BY <1>1, <1>2, PTL DEF Spec

\* At most one goroutine drains a session (startTurn, runTurn): of two that drain
\* both would be responsible for the session's turn.
THEOREM OneDrain ==
  ASSUME CreatedAlone
  PROVE  Spec => []AtMostOneDrain
  <1>1. IInv => AtMostOneDrain
    BY DEF IInv, AtMostOneDrain, OwnersAreCurrent, OwnersAreAlone, Owning
  <1> QED
    BY <1>1, Invariance, PTL

\* What drains is the session's turn and active, so that every Send, Interrupt
\* and Shutdown finds it through s.turn (agentSession.turn).
THEOREM DrainsAreCurrent ==
  ASSUME CreatedAlone
  PROVE  Spec => []DrainIsCurrent
  <1>1. IInv => DrainIsCurrent
    BY DEF IInv, DrainIsCurrent, OwnersAreCurrent, Owning, Busy
  <1> QED
    BY <1>1, Invariance, PTL

\* A session that Shutdown has stopped is quiet for good, and no path through
\* Send, Wake, Resume, the goroutine or CreateChild loses a permit or returns one
\* twice (shutdown, finishTurn, abortTurn, tryAcquireTurnQuota).
THEOREM StopsLeaveNothing ==
  ASSUME CreatedAlone
  PROVE  Spec => []StopsAreClean
  <1>1. IInv => StoppedIsQuiet
    BY DEF IInv, StoppedIsQuiet, ShutdownIsLast, OwnersAreCurrent, Owning
  <1>2. IInv => NoPermitLeak
    BY DEF IInv, NoPermitLeak, PermitsArePlaced, CompletedIsOver
  <1>3. IInv => StopsAreClean
    BY <1>1, <1>2 DEF StopsAreClean
  <1> QED
    BY <1>3, Invariance, PTL

-----------------------------------------------------------------------------
(* No prompt is overlooked.                                                *)

\* A prompt that Send admitted, that no drain has taken, and that nobody was told
\* may stay unprocessed.
Owed(m) == m \in Pending /\ reply[m] = "created" /\ ~shuttingDown /\ ~removed

\* The process responsible for the active turn will still look for the prompt:
\* its drain has yet to fix its cutoff, or has fixed it late enough, or the wake
\* flag will be found by the final check or at the turn's end.
Serves(p, m) ==
    /\ pc[p] \in Owning
    /\ \/ /\ ~cancelled[turn]
          /\ \/ pc[p] \in {"register", "start", "permit", "run", "cutoff"}
             \/ pc[p] = "promote" /\ admitted[m] <= cutoff[p]
             \/ pc[p] \in {"promote", "acknowledge", "provider", "drained"} /\ wake[turn]
       \/ pc[p] \in {"finish", "publish"} /\ wake[turn]

\* A goroutine whose turn is over is about to begin another one for its wake.
Restarts(p) ==
    \/ pc[p] \in {"complete", "restart"} /\ wake[state[p]]
    \/ op[p] = "turn" /\ pc[p] \in {"emptyLock", "emptyQuota", "emptyCreate"}

Answered(m) == IF Busy THEN \E p \in Procs : Serves(p, m) ELSE \E p \in Procs : Restarts(p)

OwedAreServed == \A m \in Messages : Owed(m) => Answered(m)

\* An active turn has somebody responsible for it, a goroutine or its creator.
TurnsHaveOwners ==
    /\ Busy => \E p \in Procs : pc[p] \in Owning
    /\ \A p \in Procs : pc[p] \in RunnerPlaces => op[p] = "turn"

\* The context of the active turn ends exactly when the turn is interrupted.
CancelMatches == Busy => (cancelled[turn] <=> status[turn] = "interrupting")

\* Prompts are numbered in the order of their admission, which a drain's cutoff
\* does not run ahead of, and what Send reports has been admitted.
AdmissionsInOrder ==
    /\ \A m \in Messages : admitted[m] <= sequence /\ (reply[m] # "none" => admitted[m] # 0)
    /\ \A p \in Procs : cutoff[p] <= sequence

\* A drain acknowledges only what it has promoted.
CutoffIsPromoted ==
    \A p \in Procs : pc[p] = "acknowledge" =>
      \A m \in Messages : admitted[m] \in 1..cutoff[p] => m \in promoted

\* A signal that nobody has acknowledged belongs to a turn that is not complete.
SignalsHaveTurns ==
    \A t \in Turns : steer[t] # 0 /\ ~completed[t] =>
      \E p \in Procs : state[p] = t /\ pc[p] \in Owning \cup {"complete"}

\* The inductive invariant.
PInv ==
    /\ OwedAreServed /\ TurnsHaveOwners /\ CancelMatches /\ AdmissionsInOrder
    /\ CutoffIsPromoted /\ SignalsHaveTurns

-----------------------------------------------------------------------------
(* What steps do to the store.                                             *)

LEMMA Typed ==
  ASSUME IInv
  PROVE  /\ turn \in Turns \cup {NoTurn} /\ sequence \in Nat /\ promoted \subseteq Messages
         /\ admitted \in [Messages -> Nat] /\ cutoff \in [Procs -> Nat] /\ steer \in [Turns -> Nat]
         /\ reply \in [Messages -> {"none", "created", "duplicate"}]
         /\ pc \in [Procs -> Places] /\ op \in [Procs -> Ops]
         /\ state \in [Procs -> Turns \cup {NoTurn}] /\ wake \in [Turns -> BOOLEAN]
         /\ cancelled \in [Turns -> BOOLEAN] /\ completed \in [Turns -> BOOLEAN]
         /\ status \in [Turns -> Active \cup Final \cup {"free"}]
         /\ arg \in [Callers -> Messages \cup {NoMessage}]
  BY DEF IInv, TypeOK, Places

\* Nothing is admitted, promoted or cut off; promises are kept or taken back.
Passive ==
    /\ UNCHANGED <<sequence, admitted, promoted>>
    /\ reply' = reply \/ Excuse
    /\ \A q \in Procs :
         /\ cutoff'[q] \in {0, cutoff[q]}
         /\ pc'[q] \in {"promote", "acknowledge"} => pc[q] = pc'[q] /\ cutoff'[q] = cutoff[q]

LEMMA MoveIsPassive ==
  ASSUME IInv, NEW p \in Procs, UNCHANGED <<sequence, admitted, promoted>>, reply' = reply \/ Excuse,
         cutoff' = cutoff \/ cutoff' = [cutoff EXCEPT ![p] = 0],
         \A q \in Procs \ {p} : pc'[q] = pc[q],
         pc'[p] \in {"promote", "acknowledge"} => pc'[p] = pc[p] /\ cutoff' = cutoff
  PROVE  Passive
  BY Typed DEF Passive

\* A call returns, or goes to one of its places.
LEMMA CallIsPassive ==
  ASSUME IInv, NEW p \in Procs, UNCHANGED <<sequence, admitted, promoted>>, reply' = reply \/ Excuse,
         Return(p) \/ (cutoff' = cutoff /\ \E place \in CallerPlaces : Goto(p, place))
  PROVE  Passive
  <1>1. CASE Return(p)
    <2>1. pc'[p] = "idle" /\ \A q \in Procs \ {p} : pc'[q] = pc[q]
      BY <1>1, Typed DEF Return
    <2> QED
      BY <1>1, <2>1, MoveIsPassive DEF Return
  <1>2. CASE cutoff' = cutoff /\ \E place \in CallerPlaces : Goto(p, place)
    <2>1. pc'[p] \in CallerPlaces /\ \A q \in Procs \ {p} : pc'[q] = pc[q]
      BY <1>2, Typed DEF Goto
    <2> QED
      BY <1>2, <2>1, MoveIsPassive DEF CallerPlaces
  <1> QED
    BY <1>1, <1>2

LEMMA FailsIsPassive ==
  ASSUME IInv, NEW g \in Procs, NEW place \in {"finish", "drained"}, Fails(g, place),
         UNCHANGED store
  PROVE  Passive
  <1>1. pc'[g] = place /\ \A q \in Procs \ {g} : pc'[q] = pc[q]
    BY Typed DEF Fails, Goto
  <1> QED
    BY <1>1, MoveIsPassive DEF Fails, store

\* The steps that admit or take prompts.
Admits(p) ==
    \/ \E o \in AdmitOutcomes : p \in Callers /\ (SendJoin(p, o) \/ SendRefused(p, o))
    \/ \E t \in Turns : p \in Callers /\ SendCreate(p, t)
Takes(g) == ReadCutoff(g) \/ PromoteSteers(g) \/ AcknowledgeSteers(g)

LEMMA CallsArePassive ==
  ASSUME IInv, NEW c \in Callers, Call(c)
  PROVE  Passive
  <1> USE DEF session, turns, store, locals, history
  <1>1. CASE \E m \in Messages : Send(c, m)
    BY <1>1, CallIsPassive DEF Send, Procs, CallerPlaces
  <1>2. CASE \E o \in {"wake", "resume"} : CallEmpty(c, o)
    BY <1>2, CallIsPassive DEF CallEmpty, Procs, CallerPlaces
  <1>3. CASE Interrupt(c)
    BY <1>3, CallIsPassive DEF Interrupt, Stop, Procs, CallerPlaces
  <1>4. CASE Shutdown(c)
    <2>1. CASE Stop(c, "shutdown")
      BY <1>4, <2>1, CallIsPassive DEF Shutdown, Stop, Procs, CallerPlaces
    <2>2. CASE UNCHANGED <<pc, reply>>
      BY <1>4, <2>2, Typed DEF Shutdown, Passive
    <2> QED
      BY <1>4, <2>1, <2>2 DEF Shutdown
  <1>5. CASE Remove(c)
    BY <1>5, Typed DEF Remove, Passive
  <1> QED
    BY <1>1, <1>2, <1>3, <1>4, <1>5 DEF Call

LEMMA CallStepsArePassive ==
  ASSUME IInv, NEW p \in Procs, CallStep(p), ~Admits(p)
  PROVE  Passive
  <1> USE DEF session, turns, store, locals, history
  <1>1. CASE SendLock(p)
    BY <1>1, CallIsPassive DEF SendLock, CallerPlaces
  <1>2. CASE SendRetry(p) \/ SendAgain(p) \/ EmptyAgain(p)
    BY <1>2, CallIsPassive DEF SendRetry, SendAgain, EmptyAgain, CallerPlaces
  <1>3. CASE Register(p)
    BY <1>3, CallIsPassive DEF Register, CallerPlaces
  <1>4. CASE WaitDone(p)
    BY <1>4, CallIsPassive DEF WaitDone
  <1>5. CASE \E t \in Turns : EmptyCreate(p, t)
    BY <1>5, CallIsPassive DEF EmptyCreate, CallerPlaces
  <1>6. ASSUME NEW a \in QuotaAnswers, Quota(p, a) PROVE Passive
    <2>1. CASE a \in Kept(p)
      <3>1. \E place \in CallerPlaces : Goto(p, place)
        BY <1>6, <2>1 DEF Quota, CallerPlaces
      <3> QED
        BY <1>6, <2>1, <3>1, CallIsPassive DEF Quota
    <2>2. CASE a \notin Kept(p)
      BY <1>6, <2>2, CallIsPassive DEF Quota
    <2> QED
      BY <2>1, <2>2
  <1>7. CASE EmptyLock(p)
    BY <1>7, CallIsPassive DEF EmptyLock, CallerPlaces
  <1>8. CASE Start(p)
    <2>1. \A q \in Procs : pc'[q] \in {"promote", "acknowledge"} => pc'[q] = pc[q]
      BY <1>8, Typed DEF Start
    <2> QED
      BY <1>8, <2>1, Typed DEF Start, Passive
  <1> QED
    BY <1>1, <1>2, <1>3, <1>4, <1>5, <1>6, <1>7, <1>8 DEF CallStep, Admits

LEMMA RunnersArePassive ==
  ASSUME IInv, NEW g \in Procs, RunnerStep(g), ~Takes(g)
  PROVE  Passive
  <1> USE DEF session, turns, store, locals, history
  <1>1. ASSUME NEW place \in {"run", "finish", "cutoff", "drained", "publish", "complete",
  "restart"},
               Goto(g, place), UNCHANGED <<sequence, admitted, promoted, reply, cutoff>>
        PROVE  Passive
    <2>1. pc'[g] = place /\ \A q \in Procs \ {g} : pc'[q] = pc[q]
      BY <1>1, Typed DEF Goto
    <2> QED
      BY <1>1, <2>1, MoveIsPassive
  <1>2. CASE PermitFails(g) \/ RunEnds(g) \/ DrainFails(g)
    BY <1>2, FailsIsPassive DEF PermitFails, RunEnds, DrainFails
  <1>3. CASE Continue(g)
    BY <1>1, <1>3, FailsIsPassive DEF Continue
  <1>4. CASE PermitGranted(g)
    BY <1>1, <1>4 DEF PermitGranted
  <1>5. CASE Run(g) \/ Provider(g)
    BY <1>1, <1>5 DEF Run, Provider
  <1>6. CASE WakeCheck(g)
    BY <1>1, <1>6 DEF WakeCheck
  <1>7. CASE Finish(g) \/ Publish(g) \/ Complete(g)
    BY <1>1, <1>7 DEF Finish, Publish, Complete
  <1>8. CASE Restart(g)
    BY <1>8, CallIsPassive DEF Restart, CallerPlaces
  <1> QED
    BY <1>2, <1>3, <1>4, <1>5, <1>6, <1>7, <1>8 DEF RunnerStep, Takes

LEMMA GivingUpIsPassive ==
  ASSUME IInv, NEW c \in Callers, CallerGivesUp(c)
  PROVE  Passive
  BY CallIsPassive DEF CallerGivesUp, Procs, session, turns, store, locals, history

LEMMA PassiveCases ==
  ASSUME IInv, Next
  PROVE  Passive \/ \E p \in Procs : Admits(p) \/ Takes(p)
  BY CallsArePassive, CallStepsArePassive, RunnersArePassive, GivingUpIsPassive DEF Next


\* An admission numbers at most one message, a new one, and reports what it did.
Numbered(m) ==
    /\ promoted' = promoted /\ sequence' \in {sequence, sequence + 1}
    /\ \A n \in Messages :
         /\ \/ admitted'[n] = admitted[n]
            \/ n = m /\ admitted[n] = 0 /\ sequence' = sequence + 1 /\ admitted'[n] = sequence'
         /\ reply'[n] = reply[n] \/ (n = m /\ reply'[n] \in {"created", "duplicate"} /\ admitted'[n] # 0)
         /\ reply'[n] = "created" /\ reply[n] # "created" => n = m /\ sequence' = sequence + 1

LEMMA AdmitNumbers ==
  ASSUME IInv, NEW m, NEW o \in AdmitOutcomes, Admit(m, o)
  PROVE  /\ Numbered(m)
         /\ o # "created" => \A n \in Messages : reply'[n] = "created" => reply[n] = "created"
  <1>1. CASE o = "created"
    BY <1>1, Typed DEF Admit, Numbered
  <1>2. CASE o = "duplicate"
    BY <1>2, Typed DEF Admit, Numbered
  <1>3. CASE o = "error"
    BY <1>3, Typed DEF Admit, Numbered
  <1>4. CASE o = "errorAfterCommit"
    BY <1>4, Typed DEF Admit, Numbered
  <1> QED
    BY <1>1, <1>2, <1>3, <1>4 DEF AdmitOutcomes

LEMMA AdmitsNumbers ==
  ASSUME IInv, NEW p \in Procs, Admits(p)
  PROVE  /\ \E m \in Messages \cup {NoMessage} : Numbered(m)
         /\ \A q \in Procs :
              /\ cutoff'[q] \in {0, cutoff[q]}
              /\ pc'[q] \in {"promote", "acknowledge"} => pc[q] = pc'[q] /\ cutoff'[q] = cutoff[q]
  <1> USE DEF session, turns, store, locals, history
  <1>1. arg[p] \in Messages \cup {NoMessage} /\ p \in Callers
    BY Typed DEF Admits
  <1>2. ASSUME NEW o \in AdmitOutcomes, SendJoin(p, o)
        PROVE  /\ Numbered(arg[p])
               /\ Return(p) \/ (Goto(p, "register") /\ cutoff' = cutoff)
    BY <1>2, AdmitNumbers DEF SendJoin, AdmittedTo
  <1>3. ASSUME NEW o \in AdmitOutcomes, SendRefused(p, o)
        PROVE  Numbered(arg[p]) /\ Return(p)
    <2>1. CASE Admit(arg[p], o)
      BY <1>3, <2>1, AdmitNumbers DEF SendRefused
    <2>2. CASE UNCHANGED <<store, reply>>
      BY <1>3, <2>2, Typed DEF SendRefused, Numbered
    <2> QED
      BY <1>3, <2>1, <2>2 DEF SendRefused
  <1>4. ASSUME NEW t \in Turns, SendCreate(p, t)
        PROVE  Numbered(arg[p]) /\ cutoff' = cutoff /\ \E place \in {"register", "start"} : Goto(p, place)
    BY <1>4, AdmitNumbers DEF SendCreate, AdmitOutcomes
  <1>5. Return(p) \/ (cutoff' = cutoff /\ \E place \in {"register", "start"} : Goto(p, place))
    BY <1>2, <1>3, <1>4 DEF Admits
  <1>6. \A q \in Procs :
          /\ cutoff'[q] \in {0, cutoff[q]}
          /\ pc'[q] \in {"promote", "acknowledge"} => pc[q] = pc'[q] /\ cutoff'[q] = cutoff[q]
    <2>1. CASE Return(p)
      BY <2>1, Typed DEF Return
    <2>2. CASE cutoff' = cutoff /\ \E place \in {"register", "start"} : Goto(p, place)
      BY <2>2, Typed DEF Goto
    <2> QED
      BY <1>5, <2>1, <2>2
  <1> QED
    BY <1>1, <1>2, <1>3, <1>4, <1>6 DEF Admits

\* The numbers stay in order, and a drain acknowledges what it promoted.
LEMMA NumbersStep ==
  ASSUME IInv, AdmissionsInOrder, CutoffIsPromoted, Next
  PROVE  AdmissionsInOrder' /\ CutoffIsPromoted'
  <1> USE Typed
  <1>1. CASE Passive
    BY <1>1 DEF Passive, Excuse, AdmissionsInOrder, CutoffIsPromoted
  <1>2. ASSUME NEW p \in Procs, Admits(p)
        PROVE  AdmissionsInOrder' /\ CutoffIsPromoted'
    <2>1. PICK m : Numbered(m)
      BY <1>2, AdmitsNumbers
    <2>2. \A q \in Procs :
            /\ cutoff'[q] \in {0, cutoff[q]}
            /\ pc'[q] = "acknowledge" => pc[q] = pc'[q] /\ cutoff'[q] = cutoff[q]
      BY <1>2, AdmitsNumbers
    <2>3. AdmissionsInOrder'
      BY <2>1, <2>2 DEF Numbered, AdmissionsInOrder
    <2>4. CutoffIsPromoted'
      BY <2>1, <2>2 DEF Numbered, AdmissionsInOrder, CutoffIsPromoted
    <2> QED
      BY <2>3, <2>4
  <1>3. ASSUME NEW g \in Procs, ReadCutoff(g)
        PROVE  AdmissionsInOrder' /\ CutoffIsPromoted'
    BY <1>3 DEF ReadCutoff, Goto, store, history, AdmissionsInOrder, CutoffIsPromoted
  <1>4. ASSUME NEW g \in Procs, PromoteSteers(g)
        PROVE  AdmissionsInOrder' /\ CutoffIsPromoted'
    <2>1. /\ promoted' = promoted \cup {m \in Pending : admitted[m] <= cutoff[g]}
          /\ UNCHANGED <<sequence, admitted>>
      BY <1>4 DEF PromoteSteers
    <2>2. CASE Goto(g, "acknowledge") /\ UNCHANGED <<session, turns, op, locals, permits, history>>
      BY <2>1, <2>2 DEF Goto, locals, history, AdmissionsInOrder, CutoffIsPromoted, Pending
    <2>3. CASE Fails(g, "drained")
      BY <2>1, <2>3 DEF Fails, Goto, Excuse, AdmissionsInOrder, CutoffIsPromoted
    <2> QED
      BY <1>4, <2>2, <2>3 DEF PromoteSteers
  <1>5. ASSUME NEW g \in Procs, AcknowledgeSteers(g)
        PROVE  AdmissionsInOrder' /\ CutoffIsPromoted'
    BY <1>5 DEF AcknowledgeSteers, Goto, store, history, AdmissionsInOrder, CutoffIsPromoted
  <1> QED
    BY <1>1, <1>2, <1>3, <1>4, <1>5, PassiveCases DEF Takes

-----------------------------------------------------------------------------
(* Turns and who is responsible for them.                                  *)

LEMMA OwnersStep ==
  ASSUME IInv, IInv', CreatedAlone, TurnsHaveOwners, CancelMatches, Next
  PROVE  TurnsHaveOwners' /\ CancelMatches'
  <1> USE Typed
  <1>1. ASSUME NEW p \in Procs, Ordinary(p)
        PROVE  TurnsHaveOwners' /\ CancelMatches'
    <2>1. Busy' = Busy /\ \A q \in Procs : pc[q] \in Owning => pc'[q] \in Owning
      BY <1>1 DEF Ordinary, Others, Busy
    <2>2. ASSUME NEW q \in Procs, pc'[q] \in RunnerPlaces
          PROVE  op'[q] = "turn"
      <3>1. CASE q # p
        BY <1>1, <2>2, <3>1 DEF Ordinary, Others, TurnsHaveOwners
      <3>2. CASE q = p
        <4>1. pc[p] \in RunnerPlaces /\ op'[p] = op[p]
          BY <1>1, <2>2, <3>2 DEF Ordinary, RunnerPlaces, Owning, Ending, Draining
        <4> QED
          BY <3>2, <4>1 DEF TurnsHaveOwners
      <3> QED
        BY <3>1, <3>2
    <2>3. CancelMatches'
      BY <1>1, <2>1 DEF Ordinary, CancelMatches
    <2> QED
      BY <2>1, <2>2, <2>3 DEF TurnsHaveOwners
  <1>2. ASSUME NEW p \in Procs, Aborts(p)
        PROVE  TurnsHaveOwners' /\ CancelMatches'
    <2>1. turn' = NoTurn /\ op'[p] = "none" /\ pc'[p] = "idle"
          /\ \A q \in Procs \ {p} : pc'[q] = pc[q] /\ op'[q] = op[q]
      BY <1>2, OwnerFacts DEF Aborts, Abort, Return, Owning
    <2> QED
      BY <2>1 DEF TurnsHaveOwners, CancelMatches, Busy, RunnerPlaces, Draining
  <1>3. ASSUME NEW p \in Procs, Start(p)
        PROVE  TurnsHaveOwners' /\ CancelMatches'
    <2> DEFINE g == IF op[p] = "create" THEN p ELSE state[p]
    <2>1. g \in Procs /\ state[p] = turn /\ turn \in Turns
      BY <1>3, OwnerFacts DEF Start, Owning, Procs
    <2>2. /\ pc'[g] \in {"finish", "permit", "run"} /\ op'[g] = "turn"
          /\ g # p => pc'[p] \in {"idle", "wait"}
          /\ \A q \in Procs \ {p, g} : pc'[q] = pc[q] /\ op'[q] = op[q]
          /\ UNCHANGED <<turn, status, cancelled>>
      BY <1>3, <2>1 DEF Start, session, turns
    <2> HIDE DEF g
    <2>3. \A q \in Procs : pc'[q] \in RunnerPlaces => op'[q] = "turn"
      BY <2>1, <2>2 DEF TurnsHaveOwners, RunnerPlaces, Draining
    <2>4. pc'[g] \in Owning
      BY <2>2 DEF Owning
    <2> QED
      BY <2>1, <2>2, <2>3, <2>4 DEF TurnsHaveOwners, CancelMatches, Busy
  <1>4. ASSUME NEW p \in Procs, NEW t \in Turns, Creates(p, t)
        PROVE  TurnsHaveOwners' /\ CancelMatches'
    <2>1. /\ turn' = t /\ ~cancelled'[t] /\ status'[t] \in {"blocked", "running"}
          /\ pc'[p] \in {"register", "start"}
          /\ \A q \in Procs \ {p} : pc'[q] = pc[q]
          /\ op' = op
      BY <1>4 DEF Creates, SendCreate, EmptyCreate, NewTurn, Goto
    <2>2. pc'[p] \in Owning /\ pc'[p] \notin RunnerPlaces
      BY <2>1 DEF Owning, RunnerPlaces, Draining
    <2> QED
      BY <2>1, <2>2 DEF TurnsHaveOwners, CancelMatches, Busy
  <1>5. ASSUME NEW c \in Callers, Stops(c)
        PROVE  TurnsHaveOwners' /\ CancelMatches'
    <2>1. /\ pc[c] = "idle" /\ Busy /\ turn' = turn /\ turn \in Turns /\ c \in Procs
          /\ status'[turn] = "interrupting" /\ cancelled'[turn] /\ pc'[c] = "wait"
          /\ \A q \in Procs \ {c} : pc'[q] = pc[q] /\ op'[q] = op[q]
      BY <1>5 DEF Stops, Interrupt, Shutdown, Stop, Goto, Busy, session, Procs
    <2>2. \A q \in Procs : pc[q] \in Owning => pc'[q] \in Owning
      BY <2>1 DEF Owning, Draining
    <2>3. pc'[c] \notin RunnerPlaces
      BY <2>1 DEF RunnerPlaces, Draining
    <2> QED
      BY <2>1, <2>2, <2>3 DEF TurnsHaveOwners, CancelMatches
  <1>6. ASSUME NEW g \in Procs, PermitGranted(g) \/ Finish(g)
        PROVE  TurnsHaveOwners' /\ CancelMatches'
    <2>1. pc[g] \in Owning /\ pc[g] \in RunnerPlaces
      BY <1>6 DEF PermitGranted, Finish, Runs, Owning, RunnerPlaces
    <2>2. state[g] = turn /\ turn \in Turns /\ Busy /\ op[g] = "turn"
      BY <2>1, OwnerFacts, TurnAssumption DEF TurnsHaveOwners, Busy
    <2>3. /\ pc'[g] \in {"run", "finish", "publish"} /\ op' = op /\ turn' = turn
          /\ \A q \in Procs \ {g} : pc'[q] = pc[q]
      BY <1>6 DEF PermitGranted, Finish, Goto, session
    <2>4. cancelled'[turn] <=> status'[turn] = "interrupting"
      <3>1. CASE PermitGranted(g) /\ cancelled[turn]
        BY <2>2, <3>1 DEF PermitGranted, CancelMatches
      <3>2. CASE PermitGranted(g) /\ ~cancelled[turn]
        BY <2>2, <3>2 DEF PermitGranted, CancelMatches
      <3>3. CASE Finish(g)
        BY <2>2, <3>3 DEF Finish
      <3> QED
        BY <1>6, <3>1, <3>2, <3>3
    <2>5. pc'[g] \in Owning
      BY <2>3 DEF Owning
    <2> QED
      BY <2>2, <2>3, <2>4, <2>5 DEF TurnsHaveOwners, CancelMatches
  <1>7. ASSUME NEW g \in Procs, Publish(g) \/ Complete(g)
        PROVE  TurnsHaveOwners' /\ CancelMatches'
    <2>1. pc[g] \in {"publish", "complete"} /\ pc[g] \in RunnerPlaces
      BY <1>7 DEF Publish, Complete, Runs, RunnerPlaces
    <2>2. /\ pc'[g] \in {"complete", "restart"} /\ op' = op /\ UNCHANGED <<turn, cancelled>>
          /\ \A q \in Procs \ {g} : pc'[q] = pc[q]
      BY <1>7 DEF Publish, Complete, Goto, session
    <2>3. Busy' => Complete(g) /\ Busy /\ status'[turn] = status[turn]
      <3>1. CASE Publish(g)
        <4>1. state[g] = turn /\ turn \in Turns /\ status' = [status EXCEPT ![turn] = result[g]] /\ result[g] \in Final
          BY <3>1, OwnerFacts DEF Publish, Runs, Owning, IInv, TypeOK
        <4> QED
          BY <2>2, <4>1 DEF Busy, Active, Final
      <3>2. CASE Complete(g)
        BY <2>2, <3>2 DEF Busy, Complete
      <3> QED
        BY <1>7, <3>1, <3>2
    <2>4. Complete(g) => pc[g] \notin Owning
      BY DEF Complete, Runs, Owning, Draining
    <2> QED
      BY <2>1, <2>2, <2>3, <2>4 DEF TurnsHaveOwners, CancelMatches
  <1> QED
    BY <1>1, <1>2, <1>3, <1>4, <1>5, <1>6, <1>7, StepCases

\* Who touches a steer signal.
LEMMA SteerSteps ==
  ASSUME Next
  PROVE  \/ steer' = steer
         \/ \E p \in Procs, o \in AdmitOutcomes : SendJoin(p, o)
         \/ \E p \in Procs, t \in Turns : Creates(p, t)
         \/ \E g \in Procs : AcknowledgeSteers(g)
  BY DEF Next, Call, Send, CallEmpty, Interrupt, Shutdown, Stop, Remove, CallerGivesUp, CallStep,
     SendRefused, SendLock, SendRetry, SendAgain, Register, WaitDone, Quota, EmptyLock, EmptyAgain,
     Start, RunnerStep, PermitGranted, PermitFails, Run, RunEnds, ReadCutoff, PromoteSteers,
     Provider, DrainFails, Continue, WakeCheck, Finish, Publish, Complete, Restart, Fails, turns,
     Creates

\* Only a prompt that joins the active turn raises a signal.
LEMMA SteerCases ==
  ASSUME IInv, Next
  PROVE  \A t \in Turns : steer'[t] # 0 => steer'[t] = steer[t] \/ (t = turn /\ Busy)
  <1>2. ASSUME NEW p \in Procs, NEW o \in AdmitOutcomes, SendJoin(p, o)
        PROVE  Busy /\ (steer' = steer \/ steer' = [steer EXCEPT ![turn] = sequence'])
    BY <1>2 DEF SendJoin
  <1>3. ASSUME NEW p \in Procs, NEW t \in Turns, Creates(p, t)
        PROVE  steer' = [steer EXCEPT ![t] = 0]
    BY <1>3 DEF Creates, SendCreate, EmptyCreate, NewTurn
  <1>4. ASSUME NEW g \in Procs, AcknowledgeSteers(g)
        PROVE  steer' = [t \in Turns |-> IF t = turn /\ steer[t] <= cutoff[g] THEN 0 ELSE steer[t]]
    BY <1>4 DEF AcknowledgeSteers
  <1> QED
    BY <1>2, <1>3, <1>4, SteerSteps, Typed

\* Signals are raised for active turns and go with them.
LEMMA SignalsStep ==
  ASSUME IInv, CreatedAlone, TurnsHaveOwners, SignalsHaveTurns, Next
  PROVE  SignalsHaveTurns'
  <1> USE Typed
  <1> DEFINE InTurn == Owning \cup {"complete"}
  <1>1. \A t \in Turns : steer'[t] # 0 =>
          completed[t] \/ \E p \in Procs : state[p] = t /\ pc[p] \in InTurn
    <2> SUFFICES ASSUME NEW t \in Turns, steer'[t] # 0, ~completed[t]
                 PROVE  \E p \in Procs : state[p] = t /\ pc[p] \in InTurn
      OBVIOUS
    <2>1. CASE steer[t] # 0
      BY <2>1 DEF SignalsHaveTurns
    <2>2. CASE t = turn /\ Busy
      BY <2>2, OwnerFacts DEF TurnsHaveOwners
    <2> QED
      BY <2>1, <2>2, SteerCases
  <1>2. ASSUME \A t \in Turns, p \in Procs :
                 ~completed'[t] /\ state[p] = t /\ pc[p] \in InTurn =>
                   \E q \in Procs : state'[q] = t /\ pc'[q] \in InTurn,
               \A t \in Turns : completed[t] => completed'[t]
        PROVE  SignalsHaveTurns'
    BY <1>1, <1>2 DEF SignalsHaveTurns
  <1>3. ASSUME NEW p \in Procs, \A q \in Procs \ {p} : pc'[q] = pc[q] /\ state'[q] = state[q],
               completed' = completed, pc[p] \in InTurn => pc'[p] \in InTurn /\ state'[p] = state[p]
        PROVE  SignalsHaveTurns'
    BY <1>2, <1>3
  <1>4. "complete" \notin Owning /\ "idle" \notin InTurn
    BY DEF Owning, Draining
  <1>5. CASE \E p \in Procs : Ordinary(p)
    BY <1>3, <1>5 DEF Ordinary, Others
  <1>6. ASSUME NEW p \in Procs, Aborts(p) PROVE SignalsHaveTurns'
    <2>1. state[p] = turn /\ turn \in Turns
      BY <1>6, OwnerFacts DEF Aborts, Owning
    <2>2. /\ completed' = [completed EXCEPT ![turn] = TRUE]
          /\ \A q \in Procs \ {p} : pc'[q] = pc[q] /\ state'[q] = state[q]
      BY <1>6, <2>1 DEF Aborts, Abort, Return
    <2> QED
      BY <1>2, <2>1, <2>2
  <1>7. ASSUME NEW p \in Procs, Start(p) PROVE SignalsHaveTurns'
    <2> DEFINE g == IF op[p] = "create" THEN p ELSE state[p]
    <2>1. /\ g \in Procs /\ state[p] = turn /\ turn \in Turns
          /\ g = p \/ pc[g] = "idle"
      BY <1>7, OwnerFacts DEF Start, Owning, Procs, IInv, StartIsFresh
    <2>2. /\ pc'[g] \in {"finish", "permit", "run"} /\ state'[g] = turn
          /\ \A q \in Procs \ {p, g} : pc'[q] = pc[q] /\ state'[q] = state[q]
          /\ completed' = completed
      BY <1>7, <2>1 DEF Start, turns
    <2> HIDE DEF g
    <2>3. pc'[g] \in InTurn
      BY <2>2 DEF Owning
    <2> QED
      BY <1>2, <1>4, <2>1, <2>2, <2>3
  <1>8. ASSUME NEW p \in Procs, NEW t \in Turns, Creates(p, t) PROVE SignalsHaveTurns'
    <2>1. /\ pc[p] \in {"sendCreate", "emptyCreate"} /\ \A q \in Procs \ {p} : state[q] # t
          /\ steer'[t] = 0 /\ \A u \in Turns \ {t} : completed'[u] = completed[u]
          /\ \A q \in Procs \ {p} : pc'[q] = pc[q] /\ state'[q] = state[q]
      BY <1>8 DEF Creates, SendCreate, EmptyCreate, NewTurn, FreeFor, Goto
    <2>2. pc[p] \notin InTurn
      BY <2>1 DEF Owning, Draining
    <2> QED
      BY <1>1, <2>1, <2>2 DEF SignalsHaveTurns
  <1>9. ASSUME NEW c \in Callers, Stops(c) PROVE SignalsHaveTurns'
    <2>1. /\ pc[c] = "idle" /\ c \in Procs /\ completed' = completed
          /\ \A q \in Procs \ {c} : pc'[q] = pc[q] /\ state'[q] = state[q]
      BY <1>9 DEF Stops, Interrupt, Shutdown, Stop, Goto, Procs
    <2> QED
      BY <1>3, <1>4, <2>1
  <1>10. ASSUME NEW g \in Procs, PermitGranted(g) \/ Finish(g) \/ Publish(g) PROVE SignalsHaveTurns'
    <2>1. /\ pc'[g] \in {"run", "finish", "publish", "complete"}
          /\ \A q \in Procs \ {g} : pc'[q] = pc[q]
          /\ state' = state /\ completed' = completed
      BY <1>10 DEF PermitGranted, Finish, Publish, Goto, locals
    <2>2. pc'[g] \in InTurn
      BY <2>1 DEF Owning
    <2> QED
      BY <1>3, <2>1, <2>2
  <1>11. ASSUME NEW g \in Procs, Complete(g) PROVE SignalsHaveTurns'
    <2>1. /\ completed' = [completed EXCEPT ![state[g]] = TRUE] /\ state[g] \in Turns
          /\ \A q \in Procs \ {g} : pc'[q] = pc[q] /\ state' = state
      BY <1>11 DEF Complete, Runs, Goto, locals
    <2> QED
      BY <1>2, <2>1
  <1> QED
    BY <1>5, <1>6, <1>7, <1>8, <1>9, <1>10, <1>11, StepCases

\* A signal is cleared when its turn ends or when every prompt it stands for has
\* been promoted.
LEMMA SignalStep ==
  ASSUME IInv, CutoffIsPromoted, SignalsHaveTurns, Next
  PROVE  \A t \in Turns :
           steer[t] # 0 /\ steer'[t] = 0 /\ completed'[t] = completed[t] =>
             \A m \in Messages : admitted[m] \in 1..steer[t] => m \in promoted
  <1> USE Typed
  <1> SUFFICES ASSUME NEW t \in Turns, steer[t] # 0, steer'[t] = 0, completed'[t] = completed[t],
                      NEW m \in Messages, admitted[m] \in 1..steer[t]
               PROVE  m \in promoted
    OBVIOUS
  <1>1. ASSUME NEW p \in Procs, NEW o \in AdmitOutcomes, SendJoin(p, o)
        PROVE  FALSE
    <2>1. steer' = [steer EXCEPT ![turn] = sequence'] /\ o = "created"
      BY <1>1 DEF SendJoin
    <2>2. sequence' = sequence + 1
      BY <1>1, <2>1 DEF SendJoin, Admit
    <2> QED
      BY <2>1, <2>2
  <1>2. ASSUME NEW p \in Procs, NEW u \in Turns, Creates(p, u)
        PROVE  FALSE
    <2>1. /\ pc[p] \in {"sendCreate", "emptyCreate"} /\ \A q \in Procs \ {p} : state[q] # u
          /\ steer' = [steer EXCEPT ![u] = 0] /\ ~completed'[u]
      BY <1>2 DEF Creates, SendCreate, EmptyCreate, NewTurn, FreeFor
    <2>2. PICK q \in Procs : state[q] = t /\ pc[q] \in Owning \cup {"complete"}
      BY <2>1 DEF SignalsHaveTurns
    <2> QED
      BY <2>1, <2>2 DEF Owning, Draining
  <1>3. ASSUME NEW g \in Procs, AcknowledgeSteers(g)
        PROVE  m \in promoted
    <2>1. steer[t] <= cutoff[g] /\ pc[g] = "acknowledge"
      BY <1>3 DEF AcknowledgeSteers, Runs
    <2> QED
      BY <2>1 DEF CutoffIsPromoted
  <1> QED
    BY <1>1, <1>2, <1>3, SteerSteps

-----------------------------------------------------------------------------
(* Debts: nobody but an admission incurs one, and whoever is to serve them  *)
(* goes on doing so.                                                        *)

LEMMA FlagsStay ==
  ASSUME Next
  PROVE  (shuttingDown => shuttingDown') /\ (removed => removed')
  <1>1. \/ UNCHANGED <<shuttingDown, removed>>
        \/ \E c \in Callers : Shutdown(c) \/ Remove(c)
    BY DEF Next, Call, Send, CallEmpty, Interrupt, Stop, CallerGivesUp, CallStep, SendJoin,
       SendRefused, SendLock, SendRetry, SendAgain, Register, WaitDone, SendCreate, EmptyCreate,
       Quota, EmptyLock, EmptyAgain, Start, RunnerStep, PermitGranted, PermitFails, Run, RunEnds,
       ReadCutoff, PromoteSteers, AcknowledgeSteers, Provider, DrainFails, Continue, WakeCheck,
       Finish, Publish, Complete, Restart, Fails, session
  <1> QED
    BY <1>1 DEF Shutdown, Remove

\* A debt that was there before.
OldDebt(m) == Owed(m) /\ admitted'[m] = admitted[m]

LEMMA DebtsAreOld ==
  ASSUME IInv, Next, Passive \/ \E g \in Procs : Takes(g), NEW m \in Messages, Owed(m)'
  PROVE  OldDebt(m) /\ ~Excuse
  <1>1. /\ admitted' = admitted /\ promoted \subseteq promoted'
        /\ reply' = reply \/ Excuse
    BY DEF Passive, Takes, ReadCutoff, PromoteSteers, AcknowledgeSteers, Fails, store, history
  <1>2. m \in Pending /\ ~shuttingDown /\ ~removed
    BY <1>1, FlagsStay, Typed DEF Owed, Pending
  <1>3. ~Excuse
    BY <1>2 DEF Excuse, Owed
  <1> QED
    BY <1>1, <1>2, <1>3 DEF Owed, OldDebt

\* An admission may add one, which had not been reported before.
LEMMA DebtsOfAdmissions ==
  ASSUME IInv, Next, AdmissionsInOrder, NEW p \in Procs, Admits(p), NEW m \in Messages, Owed(m)'
  PROVE  OldDebt(m) \/ reply[m] # "created"
  <1>1. PICK n : Numbered(n)
    BY AdmitsNumbers
  <1> SUFFICES ASSUME reply[m] = "created" PROVE OldDebt(m)
    OBVIOUS
  <1>2. admitted[m] # 0 /\ admitted'[m] = admitted[m] /\ m \notin promoted
    BY <1>1 DEF Numbered, AdmissionsInOrder, Owed, Pending
  <1> QED
    BY <1>2, FlagsStay, Typed DEF Owed, OldDebt, Pending

LEMMA OwnerServes ==
  ASSUME IInv, OwedAreServed, NEW g \in Procs, pc[g] \in Owning, NEW m \in Messages, Owed(m)
  PROVE  Serves(g, m) /\ Busy /\ state[g] = turn /\ turn \in Turns
  <1>1. Busy /\ state[g] = turn /\ turn \in Turns /\ \A q \in Procs \ {g} : pc[q] \notin Owning
    BY OwnerFacts, TurnAssumption DEF Busy
  <1> QED
    BY <1>1 DEF OwedAreServed, Answered, Serves

\* A step of somebody who is not responsible for the active turn.
LEMMA Bystander ==
  ASSUME IInv, OwedAreServed, NEW p \in Procs, Ordinary(p), pc[p] \notin Owning,
         ~Busy /\ Restarts(p) => Restarts(p)',
         \A t \in Turns : wake[t] => wake'[t],
         \A q \in Procs : pc'[q] = "promote" => cutoff'[q] = cutoff[q],
         NEW m \in Messages, OldDebt(m)
  PROVE  Answered(m)'
  <1>1. Busy' = Busy /\ turn' = turn /\ cancelled' = cancelled
    BY DEF Ordinary, Busy
  <1>2. CASE Busy
    <2>1. PICK q \in Procs : Serves(q, m)
      BY <1>2 DEF OwedAreServed, Answered, OldDebt
    <2>2. q # p /\ turn \in Turns /\ pc'[q] = pc[q]
      BY <2>1, OwnerFacts DEF Serves, Ordinary, Others
    <2>3. Serves(q, m)'
      BY <1>1, <2>1, <2>2 DEF Serves, OldDebt
    <2> QED
      BY <1>1, <1>2, <2>3 DEF Answered
  <1>3. CASE ~Busy
    <2>1. PICK q \in Procs : Restarts(q)
      BY <1>3 DEF OwedAreServed, Answered, OldDebt
    <2>2. CASE q = p
      BY <1>1, <1>3, <2>1, <2>2 DEF Answered
    <2>3. CASE q # p
      <3>1. pc'[q] = pc[q] /\ op'[q] = op[q] /\ state'[q] = state[q]
        BY <2>3 DEF Ordinary, Others
      <3>2. pc[q] \in {"complete", "restart"} => state[q] \in Turns
        BY DEF IInv, OwnersAreCurrent, Ending
      <3>3. Restarts(q)'
        BY <2>1, <3>1, <3>2 DEF Restarts
      <3> QED
        BY <1>1, <1>3, <3>3 DEF Answered
    <2> QED
      BY <2>2, <2>3
  <1> QED
    BY <1>2, <1>3

LEMMA CallsServe ==
  ASSUME IInv, CreatedAlone, OwedAreServed, Next, NEW c \in Callers \ Creators, Call(c)
  PROVE  OwedAreServed'
  <1>1. pc[c] = "idle" /\ c \in Procs /\ (Stops(c) => Excuse) /\ (wake' = wake \/ Stops(c))
    BY DEF Call, Send, CallEmpty, Interrupt, Shutdown, Remove, Stops, Stop, Procs, turns
  <1>2. Passive
    BY CallsArePassive
  <1>3. ASSUME NEW m \in Messages, Owed(m)'
        PROVE  Answered(m)'
    <2>1. OldDebt(m) /\ ~Excuse
      BY <1>2, <1>3, DebtsAreOld
    <2>2. Ordinary(c) /\ wake' = wake
      BY <1>1, <2>1, CallCases
    <2>3. pc[c] \notin Owning /\ ~Restarts(c)
      BY <1>1 DEF Owning, Draining, Restarts
    <2> QED
      BY <1>1, <1>2, <2>1, <2>2, <2>3, Bystander DEF Passive
  <1> QED
    BY <1>3 DEF OwedAreServed

LEMMA GivingUpServes ==
  ASSUME IInv, OwedAreServed, Next, NEW c \in Callers, CallerGivesUp(c)
  PROVE  OwedAreServed'
  <1>1. pc[c] \in {"sendWait", "wait"} /\ c \in Procs /\ wake' = wake
    BY DEF CallerGivesUp, Procs, turns
  <1>2. pc[c] \notin Owning /\ ~Restarts(c)
    BY <1>1 DEF Owning, Draining, Restarts
  <1>3. ASSUME NEW m \in Messages, Owed(m)'
        PROVE  Answered(m)'
    BY <1>1, <1>2, <1>3, GivingUpIsPassive, GivingUpIsOrdinary, DebtsAreOld, Bystander DEF Passive
  <1> QED
    BY <1>3 DEF OwedAreServed

-----------------------------------------------------------------------------
(* Steps of calls under way.                                               *)

\* They set wake flags but clear none, except of a new turn.
LEMMA CallStepWakes ==
  ASSUME IInv, NEW p \in Procs, CallStep(p)
  PROVE  (\A t \in Turns : wake[t] => wake'[t]) \/ \E t \in Turns : Creates(p, t)
  <1>1. \/ wake' = wake
        \/ EmptyLock(p)
        \/ \E o \in AdmitOutcomes : SendJoin(p, o)
        \/ \E t \in Turns : Creates(p, t)
    BY DEF CallStep, Creates, SendRefused, SendLock, SendRetry, SendAgain, Register, WaitDone,
       Quota, EmptyAgain, Start, turns
  <1> QED
    BY <1>1, Typed DEF EmptyLock, SendJoin

\* A goroutine that is about to begin another turn goes on, unless the session is
\* closed, its quota is refused or somebody else's turn is there.
LEMMA RestartGoesOn ==
  ASSUME IInv, NEW p \in Procs, CallStep(p), Restarts(p), ~Busy, ~shuttingDown, ~removed
  PROVE  Restarts(p)' \/ Excuse \/ \E t \in Turns : Creates(p, t)
  <1>1. pc[p] \in CallerPlaces
    BY DEF CallStep, SendJoin, SendRefused, SendLock, SendRetry, SendAgain, Register, WaitDone,
       SendCreate, EmptyCreate, Quota, EmptyLock, EmptyAgain, Start, CallerPlaces
  <1>2. op[p] = "turn" /\ pc[p] \in {"emptyLock", "emptyQuota", "emptyCreate"}
    BY <1>1 DEF Restarts, CallerPlaces
  <1>3. \/ EmptyLock(p) \/ EmptyAgain(p) \/ \E a \in QuotaAnswers : Quota(p, a)
        \/ \E t \in Turns : Creates(p, t)
    BY <1>2 DEF CallStep, Creates, SendJoin, SendRefused, SendLock, SendRetry, SendAgain, Register,
       WaitDone, SendCreate, Start
  <1>4. CASE EmptyLock(p)
    BY <1>2, <1>4, Typed DEF EmptyLock, Goto, Restarts
  <1>5. CASE EmptyAgain(p)
    BY <1>2, <1>5, Typed DEF EmptyAgain, Goto, Restarts
  <1>6. ASSUME NEW a \in QuotaAnswers, Quota(p, a) PROVE Restarts(p)' \/ Excuse
    BY <1>2, <1>6, Typed DEF Quota, Goto, Restarts
  <1> QED
    BY <1>3, <1>4, <1>5, <1>6

\* A prompt that joins the active turn will be looked for.
LEMMA JoinServes ==
  ASSUME IInv, TurnsHaveOwners, CancelMatches, NEW p \in Procs, SendJoin(p, "created"),
         Ordinary(p), NEW m \in Messages
  PROVE  Answered(m)'
  <1>1. /\ Busy /\ status[turn] = "running" /\ wake'[turn] /\ pc[p] = "sendLock" /\ turn \in Turns
    BY Typed, TurnAssumption DEF SendJoin, Busy
  <1>2. Busy' /\ turn' = turn /\ ~cancelled'[turn]
    BY <1>1 DEF Ordinary, Busy, CancelMatches
  <1>3. PICK g \in Procs : pc[g] \in Owning
    BY <1>1 DEF TurnsHaveOwners
  <1>4. pc[p] \notin Owning
    BY <1>1 DEF Owning, Draining
  <1>5. pc'[g] = pc[g]
    BY <1>3, <1>4 DEF Ordinary, Others
  <1>6. Serves(g, m)'
    BY <1>1, <1>2, <1>3, <1>5 DEF Serves, Owning, Draining
  <1> QED
    BY <1>2, <1>6 DEF Answered

\* A new turn looks for everything.
LEMMA CreationServes ==
  ASSUME IInv, NEW p \in Procs, NEW t \in Turns, Creates(p, t), NEW m \in Messages
  PROVE  Answered(m)'
  <1>1. /\ turn' = t /\ ~cancelled'[t] /\ status'[t] \in Active /\ pc'[p] \in {"register", "start"}
    BY Typed DEF Creates, SendCreate, EmptyCreate, NewTurn, Goto, Active
  <1>2. Busy'
    BY <1>1, TurnAssumption DEF Busy
  <1>3. Serves(p, m)'
    BY <1>1 DEF Serves, Owning
  <1> QED
    BY <1>2, <1>3 DEF Answered

\* The goroutine of a turn that starts looks for what its creator would have.
LEMMA StartServes ==
  ASSUME IInv, OwedAreServed, CancelMatches, NEW p \in Procs, Start(p), NEW m \in Messages,
         OldDebt(m)
  PROVE  Answered(m)'
  <1> DEFINE g == IF op[p] = "create" THEN p ELSE state[p]
  <1>1. /\ Serves(p, m) /\ Busy /\ state[p] = turn /\ turn \in Turns /\ pc[p] = "start" /\ g \in Procs
    <2>1. pc[p] = "start" /\ pc[p] \in Owning
      BY DEF Start, Owning
    <2> QED
      BY <2>1, OwnerServes DEF OldDebt, Procs
  <1>2. ~cancelled[turn] /\ status[turn] # "interrupting"
    BY <1>1 DEF Serves, CancelMatches
  <1>3. /\ pc'[g] \in {"permit", "run"}
        /\ UNCHANGED <<turn, status, cancelled>>
    BY <1>1, <1>2, Typed DEF Start, session, turns
  <1>4. PICK h \in Procs : h = g
    BY <1>1
  <1>5. Serves(h, m)' /\ Busy'
    BY <1>1, <1>2, <1>3, <1>4 DEF Serves, Owning, Busy
  <1> QED
    BY <1>5 DEF Answered

\* Register leaves the creator responsible.
LEMMA RegistrationServes ==
  ASSUME IInv, OwedAreServed, NEW p \in Procs, Ordinary(p), CallStep(p), pc[p] \in Owning,
         NEW m \in Messages, OldDebt(m)
  PROVE  Answered(m)'
  <1>1. Serves(p, m) /\ Busy /\ turn \in Turns
    BY OwnerServes DEF OldDebt
  <1>2. pc[p] \in {"register", "start"}
    BY DEF CallStep, SendJoin, SendRefused, SendLock, SendRetry, SendAgain, Register, WaitDone,
       SendCreate, EmptyCreate, Quota, EmptyLock, EmptyAgain, Start, Owning, Draining
  <1>3. pc'[p] = "start" /\ UNCHANGED <<turn, status, cancelled>>
    BY <1>2 DEF Ordinary, Owning
  <1>4. Serves(p, m)' /\ Busy'
    BY <1>1, <1>2, <1>3 DEF Serves, Owning, Busy
  <1> QED
    BY <1>4 DEF Answered

LEMMA CallStepsServe ==
  ASSUME IInv, CreatedAlone, PInv, Next, NEW p \in Procs, CallStep(p)
  PROVE  OwedAreServed'
  <1> SUFFICES ASSUME NEW m \in Messages, Owed(m)'
               PROVE  Answered(m)'
    BY DEF OwedAreServed
  <1>1. CASE \E t \in Turns : Creates(p, t)
    BY <1>1, CreationServes
  <1>2. CASE Aborts(p)
    <2>1. Excuse /\ Register(p)
      BY <1>2 DEF Aborts, Abort, Register
    <2>2. ~Admits(p)
      BY <2>1 DEF Register, Admits, SendJoin, SendRefused, SendCreate
    <2> QED
      BY <2>1, <2>2, CallStepsArePassive, DebtsAreOld
  <1>3. CASE Start(p)
    <2>1. ~Admits(p)
      BY <1>3 DEF Start, Admits, SendJoin, SendRefused, SendCreate
    <2> QED
      BY <1>3, <2>1, CallStepsArePassive, DebtsAreOld, StartServes DEF PInv
  <1>4. CASE Ordinary(p) /\ ~\E t \in Turns : Creates(p, t)
    <2>1. \A t \in Turns : wake[t] => wake'[t]
      BY <1>4, CallStepWakes
    <2>2. \A q \in Procs : pc'[q] = "promote" => cutoff'[q] = cutoff[q]
      BY CallStepsArePassive, AdmitsNumbers DEF Passive
    <2>3. CASE OldDebt(m) /\ ~Excuse
      <3>1. CASE pc[p] \in Owning
        BY <1>4, <2>3, <3>1, RegistrationServes DEF PInv
      <3>2. CASE pc[p] \notin Owning
        <4>1. ~Busy /\ Restarts(p) => Restarts(p)'
          BY <1>4, <2>3, RestartGoesOn DEF OldDebt, Owed
        <4> QED
          BY <1>4, <2>1, <2>2, <2>3, <3>2, <4>1, Bystander DEF PInv
      <3> QED
        BY <3>1, <3>2
    <2>4. CASE Admits(p)
      <3>1. CASE reply[m] # "created"
        <4>1. PICK o \in AdmitOutcomes : SendJoin(p, o) \/ SendRefused(p, o)
          BY <1>4, <2>4 DEF Admits, Creates
        <4>2. o = "created" /\ SendJoin(p, o)
          <5>1. CASE SendJoin(p, o)
            BY <3>1, <5>1, AdmitNumbers DEF SendJoin, Owed
          <5>2. CASE SendRefused(p, o)
            BY <3>1, <5>2, AdmitNumbers DEF SendRefused, Owed
          <5> QED
            BY <4>1, <5>1, <5>2
        <4> QED
          BY <1>4, <4>2, JoinServes DEF PInv
      <3>2. CASE OldDebt(m)
        <4>1. pc[p] \in {"sendLock", "sendCreate"}
          BY <2>4 DEF Admits, SendJoin, SendRefused, SendCreate
        <4>2. pc[p] \notin Owning /\ ~Restarts(p)
          BY <4>1 DEF Owning, Draining, Restarts
        <4> QED
          BY <1>4, <2>1, <2>2, <3>2, <4>2, Bystander DEF PInv
      <3> QED
        BY <2>4, <3>1, <3>2, DebtsOfAdmissions DEF PInv
    <2> QED
      BY <2>3, <2>4, CallStepsArePassive, DebtsAreOld
  <1> QED
    BY <1>1, <1>2, <1>3, <1>4, CallStepCases

-----------------------------------------------------------------------------
(* Steps of a turn's goroutine.                                            *)

\* While it drains, the goroutine of the turn goes on looking.
LEMMA DrainServes ==
  ASSUME IInv, AdmissionsInOrder, NEW g \in Procs, NEW m \in Messages, Serves(g, m), OldDebt(m),
         Owed(m)', ~Excuse,
         Busy, state[g] = turn, turn \in Turns,
         Run(g) \/ Takes(g) \/ Provider(g) \/ Continue(g) \/ WakeCheck(g)
  PROVE  Serves(g, m)' /\ UNCHANGED <<turn, status>>
  <1> USE Typed DEF session, turns, store, locals, history
  <1>1. CASE Run(g)
    BY <1>1 DEF Run, Runs, Goto, Serves, Owning, Draining
  <1>2. CASE ReadCutoff(g)
    BY <1>2 DEF AdmissionsInOrder, ReadCutoff, Runs, Goto, Serves, Owning, Draining
  <1>3. CASE PromoteSteers(g)
    <2>1. Goto(g, "acknowledge") /\ UNCHANGED <<turn, status, wake, cancelled>>
      BY <1>3 DEF PromoteSteers, Fails
    <2>2. ~(admitted[m] <= cutoff[g])
      BY <1>3 DEF PromoteSteers, Owed, OldDebt, Pending
    <2>3. pc[g] = "promote"
      BY <1>3 DEF PromoteSteers, Runs
    <2> QED
      BY <2>1, <2>2, <2>3 DEF Goto, Serves, Owning, Draining
  <1>4. CASE AcknowledgeSteers(g)
    BY <1>4 DEF AcknowledgeSteers, Runs, Goto, Serves, Owning, Draining
  <1>5. CASE Provider(g)
    BY <1>5 DEF Provider, Runs, Goto, Serves, Owning, Draining
  <1>6. CASE Continue(g)
    BY <1>6 DEF Continue, Fails, Runs, Goto, Serves, Owning, Draining
  <1>7. CASE WakeCheck(g)
    BY <1>7 DEF WakeCheck, Runs, Goto, Serves, Owning, Draining
  <1> QED
    BY <1>1, <1>2, <1>3, <1>4, <1>5, <1>6, <1>7 DEF Takes

\* A turn that ends passes its wake flag on to the one after it.
LEMMA EndServes ==
  ASSUME IInv, NEW g \in Procs, NEW m \in Messages, Serves(g, m), OldDebt(m),
         Busy, state[g] = turn, turn \in Turns, CancelMatches,
         PermitGranted(g) \/ Finish(g) \/ Publish(g)
  PROVE  Answered(m)'
  <1> USE Typed DEF session, turns, store, locals, history
  <1>1. CASE PermitGranted(g)
    <2>1. pc[g] = "permit" /\ ~cancelled[turn]
      BY <1>1 DEF PermitGranted, Runs, Serves, Draining
    <2>2. pc'[g] = "run" /\ UNCHANGED <<turn, cancelled>> /\ status'[turn] = "running"
      BY <1>1, <2>1 DEF PermitGranted, Goto
    <2>3. Busy' /\ Serves(g, m)'
      BY <2>1, <2>2, TurnAssumption DEF Busy, Active, Serves, Owning
    <2> QED
      BY <2>3 DEF Answered
  <1>2. CASE Finish(g)
    <2>1. pc[g] = "finish" /\ wake[turn]
      BY <1>2 DEF Finish, Runs, Serves
    <2>2. pc'[g] = "publish" /\ UNCHANGED <<turn, wake>> /\ status'[turn] = "interrupting"
      BY <1>2 DEF Finish, Goto
    <2>3. Busy' /\ Serves(g, m)'
      BY <2>1, <2>2, TurnAssumption DEF Busy, Active, Serves, Owning
    <2> QED
      BY <2>3 DEF Answered
  <1>3. CASE Publish(g)
    <2>1. pc[g] = "publish" /\ wake[turn]
      BY <1>3 DEF Publish, Runs, Serves
    <2>2. pc'[g] = "complete" /\ UNCHANGED <<turn, wake, state>> /\ status'[turn] \in Final
      BY <1>3 DEF Publish, Goto, IInv, TypeOK
    <2>3. ~Busy' /\ Restarts(g)'
      BY <2>1, <2>2 DEF Busy, Active, Final, Restarts
    <2> QED
      BY <2>3 DEF Answered
  <1> QED
    BY <1>1, <1>2, <1>3

\* What remains of a goroutine whose turn is over begins another one.
LEMMA RestartServes ==
  ASSUME IInv, OwedAreServed, TurnsHaveOwners, NEW g \in Procs, Restart(g),
         Ordinary(g), NEW m \in Messages, OldDebt(m)
  PROVE  Answered(m)'
  <1>1. /\ pc[g] = "restart" /\ op[g] = "turn" /\ wake' = wake /\ ~shuttingDown /\ ~removed
    BY DEF Restart, Runs, TurnsHaveOwners, RunnerPlaces, turns, OldDebt, Owed
  <1>2. Restarts(g) => Restarts(g)'
    BY <1>1, Typed DEF Restart, Goto, Restarts
  <1>3. pc[g] \notin Owning
    BY <1>1 DEF Owning, Draining
  <1>4. \A q \in Procs : pc'[q] = "promote" => cutoff'[q] = cutoff[q]
    BY RunnersArePassive, <1>1 DEF RunnerStep, Takes, ReadCutoff, PromoteSteers,
       AcknowledgeSteers, Runs, Passive
  <1> QED
    BY <1>1, <1>2, <1>3, <1>4, Bystander

LEMMA CompleteServes ==
  ASSUME IInv, OwedAreServed, NEW g \in Procs, Complete(g), NEW m \in Messages, OldDebt(m)
  PROVE  Answered(m)'
  <1> USE Typed
  <1>1. /\ pc[g] = "complete" /\ pc' = [pc EXCEPT ![g] = "restart"]
        /\ UNCHANGED <<turn, status, wake, cancelled, state, op, cutoff>>
    BY DEF Complete, Runs, Goto, session, locals
  <1>2. pc[g] \notin Owning
    BY <1>1 DEF Owning, Draining
  <1>3. \A q \in Procs : Serves(q, m) => Serves(q, m)'
    BY <1>1, <1>2 DEF Serves, OldDebt
  <1>4. \A q \in Procs : Restarts(q) => Restarts(q)'
    BY <1>1 DEF Restarts
  <1>5. Busy' = Busy
    BY <1>1 DEF Busy
  <1> QED
    BY <1>3, <1>4, <1>5 DEF OwedAreServed, Answered, OldDebt

LEMMA RunnersServe ==
  ASSUME IInv, PInv, Next, NEW g \in Procs, RunnerStep(g)
  PROVE  OwedAreServed'
  <1> SUFFICES ASSUME NEW m \in Messages, Owed(m)'
               PROVE  Answered(m)'
    BY DEF OwedAreServed
  <1>1. OldDebt(m) /\ ~Excuse
    BY RunnersArePassive, DebtsAreOld
  <1>2. CASE pc[g] \in Owning
    <2>1. Serves(g, m) /\ Busy /\ state[g] = turn /\ turn \in Turns
      BY <1>1, <1>2, OwnerServes DEF PInv, OldDebt
    <2>2. CASE Run(g) \/ Takes(g) \/ Provider(g) \/ Continue(g) \/ WakeCheck(g)
      <3>1. Serves(g, m)' /\ UNCHANGED <<turn, status>>
        BY <1>1, <2>1, <2>2, DrainServes DEF PInv
      <3> QED
        BY <2>1, <3>1 DEF Answered, Busy
    <2>3. CASE PermitGranted(g) \/ Finish(g) \/ Publish(g)
      BY <1>1, <2>1, <2>3, EndServes DEF PInv
    <2>4. ~(PermitFails(g) \/ RunEnds(g) \/ DrainFails(g))
      BY <1>1 DEF PermitFails, RunEnds, DrainFails, Fails
    <2>5. ~(Complete(g) \/ Restart(g))
      BY <1>2 DEF Complete, Restart, Runs, Owning, Draining
    <2> QED
      BY <2>2, <2>3, <2>4, <2>5 DEF RunnerStep, Takes
  <1>3. CASE pc[g] \notin Owning
    <2>1. Complete(g) \/ Restart(g)
      BY <1>3 DEF RunnerStep, PermitGranted, PermitFails, Run, RunEnds, ReadCutoff, PromoteSteers,
         AcknowledgeSteers, Provider, DrainFails, Continue, WakeCheck, Finish, Publish, Runs,
         Owning, Draining
    <2>2. CASE Restart(g)
      <3>1. Ordinary(g)
        BY <1>3, <2>2, RunnerStepCases DEF PermitGranted, Finish, Publish, Complete, Restart, Runs
      <3> QED
        BY <1>1, <2>2, <3>1, RestartServes DEF PInv
    <2> QED
      BY <1>1, <2>1, <2>2, CompleteServes DEF PInv
  <1> QED
    BY <1>2, <1>3

-----------------------------------------------------------------------------
(* The invariant and what it promises.                                     *)

LEMMA PromptsStep ==
  ASSUME CreatedAlone, IInv, PInv, Next
  PROVE  PInv'
  <1>1. OwedAreServed'
    <2>1. CASE \E c \in Callers \ Creators : Call(c)
      BY <2>1, CallsServe DEF PInv
    <2>2. CASE \E c \in Callers : CallerGivesUp(c)
      BY <2>2, GivingUpServes DEF PInv
    <2>3. CASE \E p \in Procs : CallStep(p)
      BY <2>3, CallStepsServe
    <2>4. CASE \E g \in Procs : RunnerStep(g)
      BY <2>4, RunnersServe
    <2> QED
      BY <2>1, <2>2, <2>3, <2>4 DEF Next
  <1>2. IInv'
    BY StepHolds
  <1>3. AdmissionsInOrder' /\ CutoffIsPromoted' /\ TurnsHaveOwners' /\ CancelMatches' /\ SignalsHaveTurns'
    BY <1>2, NumbersStep, OwnersStep, SignalsStep DEF PInv
  <1> QED
    BY <1>1, <1>3 DEF PInv

LEMMA PromptsInit ==
  ASSUME Init
  PROVE  PInv
  <1>1. /\ turn = NoTurn /\ steer = [t \in Turns |-> 0] /\ sequence = 0
        /\ admitted = [m \in Messages |-> 0] /\ reply = [m \in Messages |-> "none"]
        /\ cutoff = [p \in Procs |-> 0]
        /\ \A p \in Procs : pc[p] \in {"sendLock", "idle"}
    BY DEF Init
  <1>2. \A p \in Procs : pc[p] \notin RunnerPlaces
    BY <1>1 DEF RunnerPlaces, Draining
  <1>3. OwedAreServed /\ TurnsHaveOwners /\ CancelMatches
    BY <1>1, <1>2 DEF OwedAreServed, Owed, TurnsHaveOwners, CancelMatches, Busy
  <1>4. AdmissionsInOrder /\ CutoffIsPromoted /\ SignalsHaveTurns
    BY <1>1, <1>2 DEF AdmissionsInOrder, CutoffIsPromoted, SignalsHaveTurns
  <1> QED
    BY <1>3, <1>4 DEF PInv

LEMMA PromptsStutter ==
  ASSUME PInv, UNCHANGED vars
  PROVE  PInv'
  <1>1. /\ UNCHANGED <<turn, shuttingDown, removed, status, wake, cancelled, completed, steer,
                       sequence, admitted, promoted, pc, op, state, cutoff, reply>>
    BY DEF vars, session, turns, store, locals, history
  <1> QED
    BY <1>1 DEF PInv, OwedAreServed, Owed, Pending, Answered, Serves, Restarts, TurnsHaveOwners,
       CancelMatches,
       AdmissionsInOrder, CutoffIsPromoted, SignalsHaveTurns, Busy

\* The strengthened invariant holds in every reachable state.
THEOREM PromptInvariance ==
  ASSUME CreatedAlone
  PROVE  Spec => [](IInv /\ PInv)
  <1>1. Init => IInv /\ PInv
    BY InitHolds, PromptsInit
  <1>2. IInv /\ PInv /\ [Next]_vars => IInv' /\ PInv'
    BY StepHolds, StutterHolds, PromptsStep, PromptsStutter
  <1> QED
    BY <1>1, <1>2, PTL DEF Spec

\* When the session rests nobody is left to answer a debt.
LEMMA NothingIsStranded ==
  ASSUME IInv, PInv
  PROVE  NoStrandedPrompt
  <1> SUFFICES ASSUME Quiescent, ~shuttingDown, ~removed, NEW m \in Pending, reply[m] = "created"
               PROVE  FALSE
    BY DEF NoStrandedPrompt
  <1>1. m \in Messages /\ Owed(m)
    BY DEF Pending, Owed
  <1>2. \A p \in Procs : pc[p] \notin RunnerPlaces \cup {"register", "start"}
    BY DEF Quiescent, PInv, TurnsHaveOwners
  <1>3. \A p \in Procs : pc[p] \notin Owning \cup {"complete", "restart"}
    BY <1>2 DEF Owning, RunnerPlaces
  <1>4. \A p \in Procs : ~Serves(p, m) /\ ~Restarts(p)
    BY <1>3 DEF Serves, Restarts, Quiescent
  <1> QED
    BY <1>1, <1>4 DEF PInv, OwedAreServed, Answered

\* No prompt that Send admitted is overlooked when its session comes to rest, and
\* the signal that cuts a tool short for it is cleared only by a drain that has
\* taken it (admitAndStart, runTurn, finishTurn, acknowledgeSteers).
THEOREM NoPromptIsOverlooked ==
  ASSUME CreatedAlone
  PROVE  Spec => PromptsAreSeen
  <1>1. IInv /\ PInv => NoStrandedPrompt
    BY NothingIsStranded
  <1>2. IInv /\ PInv /\ [Next]_vars =>
          [\A t \in Turns :
             steer[t] # 0 /\ steer'[t] = 0 /\ completed'[t] = completed[t] =>
               \A m \in Messages : admitted[m] \in 1..steer[t] => m \in promoted]_vars
    BY SignalStep DEF PInv
  <1> QED
    BY <1>1, <1>2, PromptInvariance, PTL DEF Spec, PromptsAreSeen, SignalOutlivesPrompts
=============================================================================
