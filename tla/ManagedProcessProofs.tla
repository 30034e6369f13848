------------------------ MODULE ManagedProcessProofs -------------------------
(***************************************************************************)
(* Proofs about ManagedProcess for any number of processes and callers:    *)
(* an end is reported once, no process is forgotten, and what belongs to   *)
(* it lasts as long as it does.                                            *)
(***************************************************************************)
EXTENDS ManagedProcess, FiniteSetTheorems, TLAPS

Polling == {"poll", "collect", "remove"}

\* The types of the variables that the proofs are about.
Types ==
    /\ closed \in BOOLEAN /\ deleted \in BOOLEAN /\ directory \in BOOLEAN /\ paused \in Nat
    /\ retained \subseteq Processes /\ reserved \subseteq Processes
    /\ run \in [Processes -> RunPlaces]
    /\ waiter \in [Processes -> {"none", "wait", "settle", "close", "emit", "done"}]
    /\ notice \in [Processes -> {"none", "wait", "lock", "check", "send", "leave", "done"}]
    /\ interaction \in [Processes -> Callers \cup {"notice", None}]
    /\ pc \in [Callers -> {"idle", "poll", "collect", "remove", "suspend",
                           "delete", "users", "take", "stop", "gone", "resume"}]
    /\ op \in [Callers -> {"none", "poll", "kill", "interrupt", "delete", "close"}]
    /\ item \in [Callers -> Processes \cup {None}]
    /\ mine \in [Callers -> SUBSET Processes] /\ awaits \in [Callers -> SUBSET Processes]
    /\ resumes \subseteq Callers
    /\ told \in [Processes -> Nat]

\* A poll is about a process that RunPersistent has returned, and holds its mutex
\* from its collection on.
PollsHold ==
    \A c \in Callers :
      /\ pc[c] \in Polling => item[c] \in Processes /\ run[item[c]] = "done"
      /\ pc[c] \in {"collect", "remove"} => interaction[item[c]] = c
      /\ pc[c] = "remove" => Finished(item[c])

\* So does a notice that is about to be sent, while nobody has reported the end.
NoticesHold ==
    \A i \in Processes :
      /\ notice[i] # "none" => run[i] = "done"
      /\ notice[i] \in {"check", "send"} => interaction[i] = "notice" /\ i \notin delivered

\* RunPersistent reports an end only of a process nobody else can report.
ReportsMatch ==
    \A i \in Processes :
      IF i \in delivered THEN told[i] = 1 /\ run[i] = "done"
      ELSE \/ told[i] = 0
           \/ /\ told[i] = 1 /\ notice[i] = "none"
              /\ \/ run[i] = "remove"
                 \/ /\ run[i] = "done" /\ i \notin retained
                    /\ \A c \in Callers : pc[c] \in Polling => item[c] # i

\* Only a call that stops processes has claimed any.
ClaimsHold ==
    /\ \A c \in Callers : pc[c] \notin {"stop", "gone"} => mine[c] = {}
    /\ \A i \in Processes : run[i] = "remove" => Finished(i)

\* Callers that count in notifyPaused.
Suspenders == {c \in Callers : pc[c] = "suspend" \/ c \in resumes}

\* Each of them raised the count, which keeps new notices away; those there were
\* before are awaited.
PausesCount ==
    /\ closed \/ paused >= Cardinality(Suspenders)
    /\ \A c \in Callers :
         /\ pc[c] = "suspend" => Active \subseteq awaits[c]
         /\ pc[c] = "resume" => c \in resumes
         /\ c \in resumes => pc[c] \in {"delete", "users", "take", "stop", "gone", "resume"}
    /\ resumes # {} => Active = {}

\* A session that is deleted, or a runner that is closed, has no command of its own
\* left once its processes were claimed.
DeletionsHold ==
    /\ closed => retained = {}
    /\ \A c \in Callers :
         /\ op[c] = "close" /\ pc[c] # "idle" => closed
         /\ op[c] = "delete" /\ pc[c] \in {"users", "take", "stop", "gone"} => deleted
         /\ op[c] = "delete" /\ pc[c] \in {"take", "stop", "gone"} => Users = {}
         /\ op[c] = "delete" /\ pc[c] \in {"stop", "gone"} => retained \subseteq Unrestricted

\* The inductive invariant.
IInv ==
    /\ Types /\ PollsHold /\ NoticesHold /\ ReportsMatch /\ ClaimsHold
    /\ NoOrphan /\ NoReservationLeak /\ PausesCount /\ DeletionsHold /\ DirectoryInUse

-----------------------------------------------------------------------------
(* The kinds of steps.                                                     *)

\* RunPersistent on its way to the command, ...
Starts(i) == RunBegin(i) \/ Reserve(i) \/ Start(i) \/ Store(i) \/ Release(i) \/ Terminated(i)

\* ... and after its yield time.
Yields(i) ==
    \/ Collect(i) \/ Discard(i) \/ RemoveEnded(i) \/ Register(i) \/ Announce(i)
    \/ EmitStart(i) \/ EmitFinish(i) \/ Notify(i)

Waits(i) == Exit(i) \/ Settle(i) \/ CloseFinished(i) \/ WaiterEmits(i)

Polls(c) ==
    \/ \E i \in Processes : Poll(c, i)
    \/ PollLocks(c) \/ PollEnds(c) \/ PollYields(c) \/ PollRemoves(c)

Suspends(c) ==
    \/ \E o \in {"interrupt", "delete"} : Suspend(c, o)
    \/ Suspended(c) \/ SuspendFails(c) \/ DeleteBegin(c) \/ NoUsers(c)

Stops(c) ==
    \/ \E i \in Processes : Kill(c, i)
    \/ Take(c) \/ Close(c) \/ StopOne(c) \/ Stopped(c) \/ AllStopped(c) \/ Resume(c)

LEMMA StepKinds ==
  ASSUME [Next]_vars
  PROVE  \/ \E i \in Processes : Starts(i) \/ Yields(i) \/ Waits(i) \/ NoticeStep(i)
         \/ \E c \in Callers : Polls(c) \/ Suspends(c) \/ Stops(c)
         \/ UNCHANGED vars
  <1>1. CASE \E i \in Processes : RunStep(i) \/ Exit(i) \/ WaiterStep(i) \/ NoticeStep(i)
    BY <1>1 DEF RunStep, WaiterStep, Starts, Yields, Waits
  <1>2. CASE \E c \in Callers : Call(c) \/ CallerStep(c)
    BY <1>2 DEF Call, CallerStep, Polls, Suspends, Stops
  <1>3. CASE Rest \/ UNCHANGED vars
    BY <1>3 DEF Rest
  <1> QED
    BY <1>1, <1>2, <1>3 DEF Next

LEMMA TypesStep ==
  ASSUME IInv, [Next]_vars
  PROVE  Types'
  <1> USE ProcessAssumption DEF runner, index, flags, notices, callers
  <1>0. Types
    BY DEF IInv
  <1>1. ASSUME NEW i \in Processes, Starts(i) PROVE Types'
    <2>1. CASE RunBegin(i)
      BY <1>0, <2>1 DEF Types, RunBegin, RunTo, RunPlaces
    <2>2. CASE Reserve(i)
      BY <1>0, <2>2 DEF Types, Reserve, RunTo, RunPlaces, Forget
    <2>3. CASE Start(i)
      BY <1>0, <2>3 DEF Types, Start, RunTo, RunPlaces
    <2>4. CASE Store(i)
      BY <1>0, <2>4 DEF Types, Store, RunTo, RunPlaces
    <2>5. CASE Release(i) \/ Terminated(i)
      BY <1>0, <2>5 DEF Types, Release, Terminated, RunTo, RunPlaces
    <2> QED
      BY <1>1, <2>1, <2>2, <2>3, <2>4, <2>5 DEF Starts
  <1>2. ASSUME NEW i \in Processes, Yields(i) PROVE Types'
    <2>1. CASE Collect(i)
      BY <1>0, <2>1 DEF Types, Collect, RunTo, RunPlaces
    <2>2. CASE Discard(i) \/ RemoveEnded(i)
      BY <1>0, <2>2 DEF Types, Discard, RemoveEnded, RunTo, RunPlaces, Forget
    <2>3. CASE Register(i) \/ Announce(i) \/ EmitStart(i)
      <3>1. PICK place \in RunPlaces : run' = [run EXCEPT ![i] = place]
        BY <2>3 DEF Register, Announce, EmitStart, RunTo, RunPlaces
      <3>2. UNCHANGED <<closed, deleted, directory, paused, retained, reserved, waiter, notice,
                        interaction, callers, told>>
        BY <2>3 DEF Register, Announce, EmitStart, RunTo
      <3> QED
        BY <1>0, <3>1, <3>2 DEF Types
    <2>4. CASE EmitFinish(i)
      BY <1>0, <2>4 DEF Types, EmitFinish, RunTo, RunPlaces
    <2>5. CASE Notify(i)
      BY <1>0, <2>5 DEF Types, Notify, RunTo, RunPlaces
    <2> QED
      BY <1>2, <2>1, <2>2, <2>3, <2>4, <2>5 DEF Yields
  <1>3. ASSUME NEW i \in Processes, Waits(i) PROVE Types'
    <2>1. PICK place \in {"settle", "close", "emit", "done"} :
            waiter' = [waiter EXCEPT ![i] = place]
      BY <1>3 DEF Waits, Exit, Settle, CloseFinished, WaiterEmits
    <2>2. UNCHANGED <<closed, deleted, directory, paused, retained, reserved, run, notice,
                      interaction, callers, told>>
      BY <1>3 DEF Waits, Exit, Settle, CloseFinished, WaiterEmits
    <2> QED
      BY <1>0, <2>1, <2>2 DEF Types
  <1>4. ASSUME NEW i \in Processes, NoticeStep(i) PROVE Types'
    BY <1>0, <1>4 DEF Types, NoticeStep, NoticeWakes, NoticeLocks, NoticeChecks, NoticeSends,
       NoticeLeaves, NoticeTo
  <1>5. ASSUME NEW c \in Callers, Polls(c) PROVE Types'
    BY <1>0, <1>5 DEF Types, Polls, Poll, PollLocks, PollEnds, PollYields, PollRemoves, Return,
       Goto,
       Forget, IInv, PollsHold, Polling
  <1>6. ASSUME NEW c \in Callers, Suspends(c) PROVE Types'
    <2>1. CASE \E o \in {"interrupt", "delete"} : Suspend(c, o)
      BY <1>0, <2>1 DEF Types, Suspend, Goto, Active
    <2>2. CASE Suspended(c)
      BY <1>0, <2>2 DEF Types, Suspended, AfterSuspend, Goto
    <2>3. CASE SuspendFails(c)
      BY <1>0, <2>3 DEF Types, SuspendFails, AfterSuspend, Goto
    <2>4. CASE DeleteBegin(c) \/ NoUsers(c)
      BY <1>0, <2>4 DEF Types, DeleteBegin, NoUsers, Goto
    <2> QED
      BY <1>6, <2>1, <2>2, <2>3, <2>4 DEF Suspends
  <1>7. ASSUME NEW c \in Callers, Stops(c) PROVE Types'
    <2>1. CASE \E i \in Processes : Kill(c, i)
      BY <1>0, <2>1 DEF Types, Kill, Goto, Forget
    <2>2. CASE Take(c)
      BY <1>0, <2>2 DEF Types, Take, Goto, Forget
    <2>3. CASE Close(c)
      BY <1>0, <2>3 DEF Types, Close, Goto
    <2>4. CASE StopOne(c)
      BY <1>0, <2>4 DEF Types, StopOne, Goto
    <2>5. CASE Stopped(c)
      BY <1>0, <2>5 DEF Types, Stopped, Goto
    <2>6. CASE AllStopped(c)
      <3>1. directory' \in BOOLEAN
        BY <1>0, <2>6 DEF Types, AllStopped
      <3>2. CASE c \in resumes
        BY <1>0, <2>6, <3>1, <3>2 DEF Types, AllStopped, Goto
      <3>3. CASE c \notin resumes
        BY <1>0, <2>6, <3>1, <3>3 DEF Types, AllStopped, Goto, Return
      <3> QED
        BY <3>2, <3>3
    <2>7. CASE Resume(c)
      BY <1>0, <2>7 DEF Types, Resume, Return, Goto
    <2> QED
      BY <1>7, <2>1, <2>2, <2>3, <2>4, <2>5, <2>6, <2>7 DEF Stops
  <1>8. CASE UNCHANGED vars
    BY <1>0, <1>8 DEF Types, vars
  <1> QED
    BY <1>1, <1>2, <1>3, <1>4, <1>5, <1>6, <1>7, <1>8, StepKinds
-----------------------------------------------------------------------------
(* What each kind of step changes, and what it leaves alone.               *)

\* Before the command is retained.
LEMMA StartsFrame ==
  ASSUME Types, NEW i \in Processes, Starts(i)
  PROVE  /\ run[i] \notin {"collect", "remove", "done"} /\ run'[i] # "remove"
         /\ \A j \in Processes \ {i} : run'[j] = run[j] /\ waiter'[j] = waiter[j]
         /\ waiter'[i] # waiter[i] => run[i] = "start" /\ run'[i] = "store"
         /\ \A j \in retained \ retained' : Finished(j)
         /\ \A j \in retained' \ retained : j = i /\ run[j] = "store" /\ ~closed
         /\ run[i] = "store" => i \in retained' \cup signalled'
         /\ Users' \subseteq Users \cup (IF closed \/ deleted THEN {} ELSE {i})
         /\ reserved' \subseteq (reserved \ (retained \ retained')) \cup {i}
         /\ i \in reserved' => \/ i \in retained' \/ run'[i] \in {"start", "store"}
                             \/ (i \in reserved /\ i \notin retained /\ run[i] \notin {"start", "store"})
         /\ signalled \subseteq signalled'
         /\ UNCHANGED <<closed, deleted, paused, notice, delivered, told, interaction, callers>>
  <1> USE ProcessAssumption DEF runner, index, flags, notices, callers
  <1>1. CASE RunBegin(i)
    BY <1>1 DEF Types, RunBegin, RunTo, Users
  <1>2. CASE Reserve(i)
    BY <1>2 DEF Types, Reserve, RunTo, Forget, Finished, Users
  <1>3. CASE Start(i)
    BY <1>3 DEF Types, Start, RunTo, Users
  <1>4. CASE Store(i)
    BY <1>4 DEF Types, Store, RunTo, Users
  <1>5. CASE Release(i) \/ Terminated(i)
    BY <1>5 DEF Types, Release, Terminated, RunTo, Users
  <1> QED
    BY <1>1, <1>2, <1>3, <1>4, <1>5 DEF Starts

\* After it is retained.
LEMMA YieldsFrame ==
  ASSUME Types, NEW i \in Processes, Yields(i)
  PROVE  /\ run[i] \in {"collect", "remove", "register", "announce", "emitStart", "emitFinish", "notify"}
         /\ run'[i] \notin {"new", "reserve", "start", "store", "release", "reject", "leave", "collect"}
         /\ run'[i] = "remove" => run[i] = "collect" /\ Finished(i) /\ told' = [told EXCEPT ![i] = @ + 1]
         /\ run'[i] # "remove" => told' = told
         /\ run[i] = "remove" => run'[i] = "done" /\ i \notin retained'
         /\ \A j \in Processes \ {i} : run'[j] = run[j] /\ notice'[j] = notice[j]
         /\ notice'[i] = notice[i]
            \/ (run[i] = "notify" /\ run'[i] = "done"
                  /\ notice'[i] = IF closed \/ paused > 0 THEN "none" ELSE "wait")
         /\ run[i] = "collect" \/ run'[i] # "kill"
         /\ \/ UNCHANGED <<retained, reserved>>
            \/ /\ retained' = retained \ {i} /\ reserved' = reserved \ {i}
               /\ run[i] = "remove" \/ i \in signalled'
         /\ signalled \subseteq signalled'
         /\ UNCHANGED <<closed, deleted, directory, paused, waiter, delivered, interaction, callers>>
  <1> USE ProcessAssumption DEF runner, index, flags, notices, callers
  <1>1. CASE Collect(i)
    BY <1>1 DEF Types, Collect, RunTo
  <1>2. CASE Discard(i)
    BY <1>2 DEF Types, Discard, RunTo, Forget
  <1>3. CASE RemoveEnded(i)
    BY <1>3 DEF Types, RemoveEnded, RunTo, Forget
  <1>4. CASE Register(i)
    BY <1>4 DEF Types, Register, RunTo
  <1>5. CASE Announce(i)
    BY <1>5 DEF Types, Announce, RunTo
  <1>6. CASE EmitStart(i) \/ EmitFinish(i)
    BY <1>6 DEF Types, EmitStart, EmitFinish, RunTo
  <1>7. CASE Notify(i)
    BY <1>7 DEF Types, Notify, RunTo
  <1> QED
    BY <1>1, <1>2, <1>3, <1>4, <1>5, <1>6, <1>7 DEF Yields

\* A command ends.
LEMMA WaitsFrame ==
  ASSUME Types, NEW i \in Processes, Waits(i)
  PROVE  /\ waiter'[i] # "wait" /\ (\A j \in Processes \ {i} : waiter'[j] = waiter[j])
         /\ Finished(i) => Finished(i)'
         /\ UNCHANGED <<runner, index, run, notice, delivered, interaction, signalled, callers, told>>
  <1> USE ProcessAssumption DEF runner, index, flags, notices, callers
  <1>1. CASE Exit(i)
    BY <1>1 DEF Types, Exit, Finished
  <1>2. CASE Settle(i)
    BY <1>2 DEF Types, Settle, Finished
  <1>3. CASE CloseFinished(i) \/ WaiterEmits(i)
    BY <1>3 DEF Types, CloseFinished, WaiterEmits, Finished
  <1> QED
    BY <1>1, <1>2, <1>3 DEF Waits

\* A notice goes its way.
LEMMA NoticesFrame ==
  ASSUME Types, NEW i \in Processes, NoticeStep(i)
  PROVE  /\ notice[i] \notin Idle /\ notice'[i] # "none"
         /\ \A j \in Processes \ {i} : /\ notice'[j] = notice[j] /\ interaction'[j] = interaction[j]
                                     /\ told'[j] = told[j] /\ (j \in delivered' <=> j \in delivered)
         /\ interaction'[i] = interaction[i] \/ (interaction'[i] = "notice" /\ interaction[i] = None)
            \/ notice[i] \in {"check", "send"}
         /\ notice'[i] \in {"check", "send"} =>
              \/ interaction'[i] = "notice" /\ interaction[i] = None /\ i \notin delivered
              \/ interaction'[i] = interaction[i] /\ notice[i] = "check"
         /\ \/ told'[i] = told[i] /\ (i \in delivered' <=> i \in delivered)
            \/ told'[i] = told[i] + 1 /\ i \in delivered' /\ notice[i] = "send" /\ notice'[i] = "leave"
         /\ UNCHANGED <<runner, index, run, waiter, signalled, callers>>
  <1> USE ProcessAssumption DEF runner, index, flags, notices, callers
  <1>1. CASE NoticeWakes(i)
    BY <1>1 DEF Types, NoticeWakes, NoticeTo, Idle
  <1>2. CASE NoticeLocks(i)
    BY <1>2 DEF Types, NoticeLocks, NoticeTo, Idle
  <1>3. CASE NoticeChecks(i)
    BY <1>3 DEF Types, NoticeChecks, NoticeTo, Idle
  <1>4. CASE NoticeSends(i)
    BY <1>4 DEF Types, NoticeSends, NoticeTo, Idle
  <1>5. CASE NoticeLeaves(i)
    BY <1>5 DEF Types, NoticeLeaves, NoticeTo, Idle
  <1> QED
    BY <1>1, <1>2, <1>3, <1>4, <1>5 DEF NoticeStep

\* A poll.
LEMMA PollsFrame ==
  ASSUME Types, PollsHold, NEW c \in Callers, Polls(c)
  PROVE  /\ pc[c] \in Polling \cup {"idle"} /\ pc'[c] \in Polling \cup {"idle"}
         /\ \A d \in Callers \ {c} : pc'[d] = pc[d] /\ op'[d] = op[d] /\ item'[d] = item[d]
                                   /\ mine'[d] = mine[d] /\ awaits'[d] = awaits[d]
         /\ mine'[c] \subseteq mine[c] /\ (\A d \in Callers \ {c} : d \in resumes' <=> d \in resumes)
         /\ resumes' \subseteq resumes
         /\ pc'[c] = "poll" => item'[c] \in Processes /\ run[item'[c]] = "done" /\ item'[c] \in retained
         /\ pc'[c] = "collect" => pc[c] = "poll" /\ item'[c] = item[c] /\ item[c] \in retained
         /\ pc'[c] = "remove" => pc[c] = "collect" /\ item'[c] = item[c] /\ Finished(item[c])
         /\ \A i \in Processes :
              /\ interaction'[i] = interaction[i] \/ (pc[c] # "idle" /\ i = item[c])
              /\ i = item[c] \/ (told'[i] = told[i] /\ (i \in delivered' <=> i \in delivered))
         /\ pc[c] = "poll" => interaction'[item[c]] = interaction[item[c]]
              \/ (interaction[item[c]] = None /\ interaction'[item[c]] = c)
         /\ pc'[c] = "collect" => interaction[item[c]] = None /\ interaction'[item[c]] = c
         /\ pc'[c] = "remove" => /\ interaction' = interaction /\ item[c] \in delivered'
              /\ told'[item[c]] = IF item[c] \in delivered THEN told[item[c]] ELSE told[item[c]] + 1
         /\ pc'[c] # "remove" => told' = told /\ delivered' = delivered
         /\ \/ UNCHANGED <<retained, reserved>>
            \/ /\ retained' = retained \ {item[c]} /\ reserved' = reserved \ {item[c]}
               /\ pc[c] = "remove"
         /\ UNCHANGED <<runner, run, waiter, notice, signalled>>
  <1> USE ProcessAssumption DEF runner, index, flags, notices, callers
  <1>1. CASE \E i \in Processes : Poll(c, i)
    BY <1>1 DEF Types, Poll, Goto, Polling
  <1>2. CASE PollLocks(c)
    BY <1>2 DEF Types, PollsHold, PollLocks, Goto, Return, Polling
  <1>3. CASE PollEnds(c)
    BY <1>3 DEF Types, PollsHold, PollEnds, Goto, Polling
  <1>4. CASE PollYields(c)
    BY <1>4 DEF Types, PollsHold, PollYields, Return, Goto, Polling
  <1>5. CASE PollRemoves(c)
    BY <1>5 DEF Types, PollsHold, PollRemoves, Return, Goto, Forget, Polling
  <1> QED
    BY <1>1, <1>2, <1>3, <1>4, <1>5 DEF Polls

\* A session is suspended.
LEMMA SuspendsFrame ==
  ASSUME Types, NEW c \in Callers, Suspends(c)
  PROVE  /\ pc[c] \notin Polling /\ pc'[c] \notin Polling
         /\ pc[c] \notin {"stop", "gone"} /\ pc'[c] \notin {"stop", "gone"}
         /\ \A d \in Callers \ {c} : pc'[d] = pc[d] /\ op'[d] = op[d] /\ awaits'[d] = awaits[d]
         /\ deleted => deleted'
         /\ UNCHANGED <<closed, directory, index, run, waiter, notice, delivered, told, interaction,
                        signalled, item, mine>>
  <1> USE ProcessAssumption DEF runner, index, flags, notices, callers
  <1>1. CASE \E o \in {"interrupt", "delete"} : Suspend(c, o)
    BY <1>1 DEF Types, Suspend, Goto, Polling
  <1>2. CASE Suspended(c)
    BY <1>2 DEF Types, Suspended, AfterSuspend, Goto, Polling
  <1>3. CASE SuspendFails(c)
    BY <1>3 DEF Types, SuspendFails, AfterSuspend, Goto, Polling
  <1>4. CASE DeleteBegin(c) \/ NoUsers(c)
    BY <1>4 DEF Types, DeleteBegin, NoUsers, Goto, Polling
  <1> QED
    BY <1>1, <1>2, <1>3, <1>4 DEF Suspends

\* Processes are claimed and stopped.
LEMMA StopsFrame ==
  ASSUME Types, NEW c \in Callers, Stops(c)
  PROVE  /\ pc[c] \notin Polling \cup {"suspend"} /\ pc'[c] \notin Polling \cup {"suspend"}
         /\ \A d \in Callers \ {c} : pc'[d] = pc[d] /\ op'[d] = op[d] /\ item'[d] = item[d]
                                   /\ mine'[d] = mine[d] /\ awaits'[d] = awaits[d]
         /\ retained' \subseteq retained /\ retained \ retained' \subseteq mine'[c]
         /\ reserved' \subseteq reserved \ (retained \ retained')
         /\ pc[c] \in {"stop", "gone"} => mine[c] \subseteq mine'[c] \cup signalled'
         /\ pc'[c] \notin {"stop", "gone"} => mine'[c] = {}
         /\ signalled \subseteq signalled' /\ (closed => closed') /\ (closed' => closed \/ retained' = {})
         /\ UNCHANGED <<deleted, run, waiter, notice, delivered, told, interaction>>
  <1> USE ProcessAssumption DEF runner, index, flags, notices, callers
  <1>1. CASE \E i \in Processes : Kill(c, i)
    BY <1>1 DEF Types, Kill, Goto, Forget, Polling
  <1>2. CASE Take(c)
    BY <1>2 DEF Types, Take, Goto, Forget, Polling
  <1>3. CASE Close(c)
    BY <1>3 DEF Types, Close, Goto, Polling
  <1>4. CASE StopOne(c)
    BY <1>4 DEF Types, StopOne, Goto, Polling
  <1>5. CASE Stopped(c)
    BY <1>5 DEF Types, Stopped, Goto, Polling
  <1>6. CASE AllStopped(c)
    BY <1>6 DEF Types, AllStopped, Goto, Return, Polling
  <1>7. CASE Resume(c)
    BY <1>7 DEF Types, Resume, Return, Goto, Polling
  <1> QED
    BY <1>1, <1>2, <1>3, <1>4, <1>5, <1>6, <1>7 DEF Stops

-----------------------------------------------------------------------------
(* What each part of the invariant rests on.                               *)

LEMMA PollsStep ==
  ASSUME IInv, [Next]_vars
  PROVE  PollsHold'
  <1> USE ProcessAssumption DEF PollsHold, Polling, callers
  <1>0. Types /\ PollsHold /\ Types'
    BY TypesStep DEF IInv
  <1>1. ASSUME NEW i \in Processes, Starts(i) PROVE PollsHold'
    BY <1>0, <1>1, StartsFrame DEF Finished
  <1>2. ASSUME NEW i \in Processes, Yields(i) PROVE PollsHold'
    BY <1>0, <1>2, YieldsFrame DEF Finished
  <1>3. ASSUME NEW i \in Processes, Waits(i) PROVE PollsHold'
    BY <1>0, <1>3, WaitsFrame DEF Finished
  <1>4. ASSUME NEW i \in Processes, NoticeStep(i) PROVE PollsHold'
    <2>1. \A c \in Callers : interaction[i] = c => interaction'[i] = c
      BY <1>0, <1>4, NoticesFrame DEF IInv, NoticesHold
    <2> QED
      BY <1>0, <1>4, <2>1, NoticesFrame DEF Finished
  <1>5. ASSUME NEW c \in Callers, Polls(c) PROVE PollsHold'
    <2>1. /\ run' = run /\ waiter' = waiter
          /\ \A d \in Callers \ {c} : pc'[d] = pc[d] /\ item'[d] = item[d]
      BY <1>0, <1>5, PollsFrame
    <2>2. /\ pc'[c] \in Polling => item'[c] \in Processes /\ run[item'[c]] = "done"
          /\ pc'[c] \in {"collect", "remove"} => interaction'[item'[c]] = c
          /\ pc'[c] = "remove" => Finished(item'[c])
      BY <1>0, <1>5, PollsFrame
    <2>3. ASSUME NEW d \in Callers \ {c}, pc[d] \in {"collect", "remove"}
          PROVE  interaction'[item[d]] = d
      BY <1>0, <1>5, <2>3, PollsFrame
    <2> QED
      BY <1>0, <2>1, <2>2, <2>3 DEF Finished
  <1>6. ASSUME NEW c \in Callers, Suspends(c) PROVE PollsHold'
    BY <1>0, <1>6, SuspendsFrame DEF Finished
  <1>7. ASSUME NEW c \in Callers, Stops(c) PROVE PollsHold'
    BY <1>0, <1>7, StopsFrame DEF Finished
  <1>8. CASE UNCHANGED vars
    BY <1>0, <1>8 DEF vars, Finished
  <1> QED
    BY <1>1, <1>2, <1>3, <1>4, <1>5, <1>6, <1>7, <1>8, StepKinds

LEMMA NoticesStep ==
  ASSUME IInv, [Next]_vars
  PROVE  NoticesHold'
  <1> USE ProcessAssumption DEF NoticesHold, callers
  <1>0. Types /\ PollsHold /\ NoticesHold /\ Types'
    BY TypesStep DEF IInv
  <1>1. ASSUME NEW i \in Processes, Starts(i) PROVE NoticesHold'
    BY <1>0, <1>1, StartsFrame
  <1>2. ASSUME NEW i \in Processes, Yields(i) PROVE NoticesHold'
    BY <1>0, <1>2, YieldsFrame
  <1>3. ASSUME NEW i \in Processes, Waits(i) PROVE NoticesHold'
    BY <1>0, <1>3, WaitsFrame DEF index
  <1>4. ASSUME NEW i \in Processes, NoticeStep(i) PROVE NoticesHold'
    BY <1>0, <1>4, NoticesFrame DEF Idle
  <1>5. ASSUME NEW c \in Callers, Polls(c) PROVE NoticesHold'
    <2>1. run' = run /\ notice' = notice
      BY <1>0, <1>5, PollsFrame
    <2>2. ASSUME NEW i \in Processes, notice[i] \in {"check", "send"}
          PROVE  interaction'[i] = "notice" /\ i \notin delivered'
      <3>1. interaction[i] = "notice" /\ i \notin delivered
        BY <1>0, <2>2
      <3>2. pc[c] \in {"collect", "remove"} => i # item[c]
        BY <1>0, <3>1 DEF PollsHold
      <3> QED
        BY <1>0, <1>5, <3>1, <3>2, PollsFrame DEF Polling
    <2> QED
      BY <1>0, <2>1, <2>2
  <1>6. ASSUME NEW c \in Callers, Suspends(c) PROVE NoticesHold'
    BY <1>0, <1>6, SuspendsFrame
  <1>7. ASSUME NEW c \in Callers, Stops(c) PROVE NoticesHold'
    BY <1>0, <1>7, StopsFrame
  <1>8. CASE UNCHANGED vars
    BY <1>0, <1>8 DEF vars, flags, notices
  <1> QED
    BY <1>1, <1>2, <1>3, <1>4, <1>5, <1>6, <1>7, <1>8, StepKinds

LEMMA ReportsStep ==
  ASSUME IInv, [Next]_vars
  PROVE  ReportsMatch'
  <1> USE ProcessAssumption DEF ReportsMatch, callers
  <1>0. Types /\ PollsHold /\ NoticesHold /\ ReportsMatch /\ Types'
    BY TypesStep DEF IInv
  <1>1. ASSUME NEW i \in Processes, Starts(i) PROVE ReportsMatch'
    <2>1. \A j \in Processes : run[j] = "done" /\ j \notin retained => run'[j] = "done" /\ j \notin retained'
      BY <1>0, <1>1, StartsFrame
    <2> QED
      BY <1>0, <1>1, <2>1, StartsFrame
  <1>2. ASSUME NEW i \in Processes, Yields(i) PROVE ReportsMatch'
    <2>1. retained' \subseteq retained
      BY <1>0, <1>2, YieldsFrame
    <2>2. \A j \in Processes \ {i} : run'[j] = run[j] /\ notice'[j] = notice[j] /\ told'[j] = told[j]
      BY <1>0, <1>2, YieldsFrame DEF Types
    <2>3. UNCHANGED <<delivered, pc, item>> /\ run[i] # "done"
      BY <1>0, <1>2, YieldsFrame
    <2>4. i \notin delivered
      BY <1>0, <2>3
    <2>5. CASE run'[i] = "remove"
      <3>1. told'[i] = told[i] + 1 /\ run[i] # "remove"
        BY <1>0, <1>2, <2>5, YieldsFrame DEF Types
      <3>2. told[i] = 0 /\ notice[i] = "none" /\ notice'[i] = "none"
        BY <1>0, <1>2, <2>3, <2>4, <2>5, <3>1, YieldsFrame DEF NoticesHold
      <3> QED
        BY <1>0, <2>1, <2>2, <2>3, <2>4, <2>5, <3>1, <3>2
    <2>6. CASE run'[i] # "remove"
      <3>1. told'[i] = told[i] /\ (told[i] # 0 => run[i] = "remove")
        BY <1>0, <1>2, <2>3, <2>4, <2>6, YieldsFrame
      <3>2. run[i] = "remove" => /\ run'[i] = "done" /\ i \notin retained' /\ notice'[i] = notice[i]
                                 /\ \A c \in Callers : pc[c] \in Polling => item[c] # i
        BY <1>0, <1>2, <2>3, YieldsFrame DEF PollsHold
      <3> QED
        BY <1>0, <2>1, <2>2, <2>3, <2>4, <2>6, <3>1, <3>2
    <2> QED
      BY <2>5, <2>6
  <1>3. ASSUME NEW i \in Processes, Waits(i) PROVE ReportsMatch'
    BY <1>0, <1>3, WaitsFrame DEF index
  <1>4. ASSUME NEW i \in Processes, NoticeStep(i) PROVE ReportsMatch'
    <2>1. UNCHANGED <<run, retained, pc, item>>
      BY <1>0, <1>4, NoticesFrame DEF index
    <2>2. notice[i] # "none" /\ run[i] = "done"
      BY <1>0, <1>4, NoticesFrame DEF Idle, NoticesHold
    <2>3. \A j \in Processes \ {i} :
            notice'[j] = notice[j] /\ told'[j] = told[j] /\ (j \in delivered' <=> j \in delivered)
      BY <1>0, <1>4, NoticesFrame
    <2>4. IF i \in delivered' THEN told'[i] = 1 ELSE told'[i] = 0
      <3>1. IF i \in delivered THEN told[i] = 1 ELSE told[i] = 0
        BY <1>0, <2>2
      <3> QED
        BY <1>0, <1>4, <3>1, NoticesFrame DEF NoticesHold
    <2>5. run' = run /\ retained' = retained /\ pc' = pc /\ item' = item
      BY <2>1
    <2> QED
      BY <1>0, <2>2, <2>3, <2>4, <2>5
  <1>5. ASSUME NEW c \in Callers, Polls(c) PROVE ReportsMatch'
    <2>1. UNCHANGED <<run, notice>> /\ retained' \subseteq retained
      BY <1>0, <1>5, PollsFrame
    <2>2. \A i \in Processes, d \in Callers : pc'[d] \in Polling /\ item'[d] = i =>
            i \in retained \/ (pc[d] \in Polling /\ item[d] = i)
      BY <1>0, <1>5, PollsFrame DEF Polling
    <2>3. CASE pc'[c] # "remove"
      BY <1>0, <1>5, <2>1, <2>2, <2>3, PollsFrame
    <2>4. CASE pc'[c] = "remove"
      <3>1. /\ item[c] \in Processes /\ run[item[c]] = "done" /\ pc[c] \in Polling
            /\ item[c] \in delivered'
            /\ told'[item[c]] = IF item[c] \in delivered THEN told[item[c]] ELSE told[item[c]] + 1
        BY <1>0, <1>5, <2>4, PollsFrame DEF PollsHold, Polling
      <3>2. told'[item[c]] = 1
        BY <1>0, <3>1
      <3>3. \A j \in Processes \ {item[c]} : told'[j] = told[j] /\ (j \in delivered' <=> j \in delivered)
        BY <1>0, <1>5, PollsFrame
      <3> QED
        BY <1>0, <2>1, <2>2, <3>1, <3>2, <3>3
    <2> QED
      BY <2>3, <2>4
  <1>6. ASSUME NEW c \in Callers, Suspends(c) PROVE ReportsMatch'
    BY <1>0, <1>6, SuspendsFrame DEF index
  <1>7. ASSUME NEW c \in Callers, Stops(c) PROVE ReportsMatch'
    BY <1>0, <1>7, StopsFrame
  <1>8. CASE UNCHANGED vars
    BY <1>0, <1>8 DEF vars, flags, notices, index
  <1> QED
    BY <1>1, <1>2, <1>3, <1>4, <1>5, <1>6, <1>7, <1>8, StepKinds
LEMMA ClaimsStep ==
  ASSUME IInv, [Next]_vars
  PROVE  ClaimsHold' /\ NoOrphan' /\ NoReservationLeak'
  <1> USE ProcessAssumption DEF callers
  <1> DEFINE Claims == ClaimsHold /\ NoOrphan /\ NoReservationLeak
  <1>0. Types /\ PollsHold /\ Claims /\ Types'
    BY TypesStep DEF IInv
  <1>1. ASSUME NEW i \in Processes, Starts(i) PROVE Claims'
    <2>1. ClaimsHold'
      BY <1>0, <1>1, StartsFrame DEF ClaimsHold, Finished
    <2>2. NoOrphan'
      <3>1. ASSUME NEW j \in Processes, Alive(j)' PROVE j \in retained' \/ run'[j] = "store" \/ Doomed(j)'
        <4>1. Alive(j) \/ (j = i /\ run'[j] = "store")
          BY <1>1, <1>0, <3>1, StartsFrame DEF Alive
        <4>2. CASE Alive(j)
          <5>1. j \in retained => j \in retained'
            BY <1>0, <1>1, <4>2, StartsFrame DEF Alive, Finished
          <5>2. Doomed(j) => Doomed(j)'
            BY <1>0, <1>1, StartsFrame DEF Doomed
          <5>3. run[j] = "store" => j \in retained' \cup signalled' \/ run'[j] = "store"
            BY <1>0, <1>1, StartsFrame
          <5> QED
            BY <1>0, <4>2, <5>1, <5>2, <5>3 DEF NoOrphan, Doomed
        <4> QED
          BY <4>1, <4>2
      <3> QED
        BY <3>1 DEF NoOrphan
    <2>3. NoReservationLeak'
      BY <1>0, <1>1, StartsFrame DEF NoReservationLeak, Types
    <2> QED
      BY <2>1, <2>2, <2>3
  <1>2. ASSUME NEW i \in Processes, Yields(i) PROVE Claims'
    <2>1. ClaimsHold'
      BY <1>0, <1>2, YieldsFrame DEF ClaimsHold, Finished
    <2>2. NoOrphan'
      <3>1. run[i] = "remove" => ~Alive(i)
        BY <1>0 DEF ClaimsHold, Alive, Finished
      <3>2. \A j \in Processes : (Alive(j)' <=> Alive(j)) /\ (Doomed(j) => Doomed(j)')
        BY <1>0, <1>2, YieldsFrame DEF Alive, Doomed
      <3> QED
        BY <1>0, <1>2, <3>1, <3>2, YieldsFrame DEF NoOrphan, Doomed
    <2>3. NoReservationLeak'
      BY <1>0, <1>2, YieldsFrame DEF NoReservationLeak, Types
    <2> QED
      BY <2>1, <2>2, <2>3
  <1>3. ASSUME NEW i \in Processes, Waits(i) PROVE Claims'
    BY <1>0, <1>3, WaitsFrame DEF ClaimsHold, NoOrphan, NoReservationLeak, Alive, Finished,
       Doomed, index
  <1>4. ASSUME NEW i \in Processes, NoticeStep(i) PROVE Claims'
    BY <1>0, <1>4, NoticesFrame DEF ClaimsHold, NoOrphan, NoReservationLeak, Alive, Finished,
       Doomed, index
  <1>5. ASSUME NEW c \in Callers, Polls(c) PROVE Claims'
    <2>1. ClaimsHold'
      BY <1>0, <1>5, PollsFrame DEF ClaimsHold, Finished, Polling
    <2>2. NoOrphan'
      <3>1. pc[c] = "remove" => ~Alive(item[c])
        BY <1>0 DEF PollsHold, Alive, Finished
      <3>2. mine[c] = {}
        BY <1>0, <1>5, PollsFrame DEF ClaimsHold, Polling
      <3>3. \A j \in Processes : (Alive(j)' <=> Alive(j)) /\ (Doomed(j) => Doomed(j)')
        BY <1>0, <1>5, <3>2, PollsFrame DEF Alive, Doomed
      <3> QED
        BY <1>0, <1>5, <3>1, <3>3, PollsFrame DEF NoOrphan
    <2>3. NoReservationLeak'
      BY <1>0, <1>5, PollsFrame DEF NoReservationLeak
    <2> QED
      BY <2>1, <2>2, <2>3
  <1>6. ASSUME NEW c \in Callers, Suspends(c) PROVE Claims'
    BY <1>0, <1>6, SuspendsFrame DEF ClaimsHold, NoOrphan, NoReservationLeak, Alive, Finished,
       Doomed, index
  <1>7. ASSUME NEW c \in Callers, Stops(c) PROVE Claims'
    <2>1. ClaimsHold'
      BY <1>0, <1>7, StopsFrame DEF ClaimsHold, Finished
    <2>2. NoOrphan'
      <3>1. \A j \in Processes : (Alive(j)' <=> Alive(j)) /\ (j \in retained => j \in retained' \/ Doomed(j)')
        BY <1>0, <1>7, StopsFrame DEF Alive, Doomed
      <3>2. mine[c] \subseteq mine'[c] \cup signalled'
        BY <1>0, <1>7, StopsFrame DEF ClaimsHold
      <3>3. \A j \in Processes : Doomed(j) => Doomed(j)'
        BY <1>0, <1>7, <3>2, StopsFrame DEF Doomed
      <3> QED
        BY <1>0, <1>7, <3>1, <3>3, StopsFrame DEF NoOrphan
    <2>3. NoReservationLeak'
      BY <1>0, <1>7, StopsFrame DEF NoReservationLeak
    <2> QED
      BY <2>1, <2>2, <2>3
  <1>8. CASE UNCHANGED vars
    BY <1>0, <1>8 DEF vars, index, ClaimsHold, NoOrphan, NoReservationLeak, Alive, Finished, Doomed
  <1> QED
    BY <1>1, <1>2, <1>3, <1>4, <1>5, <1>6, <1>7, <1>8, StepKinds

LEMMA DeletionsStep ==
  ASSUME IInv, [Next]_vars
  PROVE  DeletionsHold'
  <1> USE ProcessAssumption DEF DeletionsHold, callers
  <1>0. Types /\ PollsHold /\ DeletionsHold /\ Types'
    BY TypesStep DEF IInv
  <1>1. ASSUME NEW i \in Processes, Starts(i) PROVE DeletionsHold'
    <2>1. deleted => (Users = {} => Users' = {})
      <3>1. Users' \subseteq Users \cup (IF closed \/ deleted THEN {} ELSE {i})
        BY ONLY <1>0, <1>1, StartsFrame
      <3> QED
        BY ONLY <3>1
    <2>2. retained' \subseteq retained \cup (IF Users = {} THEN Unrestricted ELSE {i})
      BY <1>0, <1>1, StartsFrame DEF Types, Users
    <2> QED
      BY <1>0, <1>1, <2>1, <2>2, StartsFrame
  <1>2. ASSUME NEW i \in Processes, Yields(i) PROVE DeletionsHold'
    <2>1. Users' \subseteq Users
      BY <1>0, <1>2, YieldsFrame DEF Users
    <2>2. retained' \subseteq retained
      BY <1>0, <1>2, YieldsFrame
    <2> QED
      BY <1>0, <1>2, <2>1, <2>2, YieldsFrame
  <1>3. ASSUME NEW i \in Processes, Waits(i) PROVE DeletionsHold'
    BY <1>0, <1>3, WaitsFrame DEF Users, runner, index
  <1>4. ASSUME NEW i \in Processes, NoticeStep(i) PROVE DeletionsHold'
    BY <1>0, <1>4, NoticesFrame DEF Users, runner, index
  <1>5. ASSUME NEW c \in Callers, Polls(c) PROVE DeletionsHold'
    <2>1. retained' \subseteq retained /\ Users' = Users /\ UNCHANGED <<closed, deleted>>
      BY <1>0, <1>5, PollsFrame DEF Users, runner
    <2>2. pc'[c] # "idle" => op'[c] = "poll" \/ (op'[c] = op[c] /\ pc[c] # "idle")
      BY <1>0, <1>5 DEF Types, Polls, Poll, PollLocks, PollEnds, PollYields, PollRemoves, Return,
         Goto
    <2>3. pc'[c] \in Polling \cup {"idle"} /\ (\A d \in Callers \ {c} : pc'[d] = pc[d] /\ op'[d] = op[d])
      BY <1>0, <1>5, PollsFrame
    <2> QED
      BY <1>0, <2>1, <2>2, <2>3 DEF Polling
  <1>6. ASSUME NEW c \in Callers, Suspends(c) PROVE DeletionsHold'
    <2>1. /\ UNCHANGED <<closed, retained>> /\ (deleted => deleted') /\ Users' = Users
          /\ \A d \in Callers \ {c} : pc'[d] = pc[d] /\ op'[d] = op[d]
      BY <1>0, <1>6, SuspendsFrame DEF Users, index
    <2>2. /\ pc'[c] \notin {"stop", "gone"} /\ (op'[c] = "close" => pc[c] # "idle" /\ op[c] = "close")
          /\ op'[c] = "delete" /\ pc'[c] \in {"users", "take"} => deleted'
          /\ op'[c] = "delete" /\ pc'[c] = "take" => Users' = {}
      <3>1. CASE \E o \in {"interrupt", "delete"} : Suspend(c, o)
        BY <1>0, <3>1 DEF Types, Suspend, Goto
      <3>2. CASE Suspended(c) \/ SuspendFails(c)
        BY <1>0, <3>2 DEF Types, Suspended, SuspendFails, AfterSuspend, Goto
      <3>3. CASE DeleteBegin(c)
        BY <1>0, <3>3 DEF Types, DeleteBegin, Goto
      <3>4. CASE NoUsers(c)
        BY <1>0, <2>1, <3>4 DEF Types, NoUsers, Goto
      <3> QED
        BY <1>6, <3>1, <3>2, <3>3, <3>4 DEF Suspends
    <2> QED
      BY <1>0, <2>1, <2>2
  <1>7. ASSUME NEW c \in Callers, Stops(c) PROVE DeletionsHold'
    <2>1. /\ retained' \subseteq retained /\ (closed => closed') /\ (closed' => closed \/ retained' = {})
          /\ deleted' = deleted /\ Users' = Users
          /\ \A d \in Callers \ {c} : pc'[d] = pc[d] /\ op'[d] = op[d]
      BY <1>0, <1>7, StopsFrame DEF Users
    <2>2. /\ op'[c] = "close" /\ pc'[c] # "idle" => closed' \/ (op[c] = "close" /\ pc[c] # "idle")
          /\ op'[c] = "delete" /\ pc'[c] \in {"users", "take", "stop", "gone"} =>
               /\ op[c] = "delete" /\ pc[c] \in {"take", "stop", "gone"} /\ pc'[c] \in {"stop", "gone"}
               /\ pc[c] = "take" => retained' = {}
      <3>1. CASE \E i \in Processes : Kill(c, i)
        BY <1>0, <3>1 DEF Types, Kill, Goto
      <3>2. CASE Take(c)
        BY <1>0, <3>2 DEF Types, Take, Forget, Goto
      <3>3. CASE Close(c)
        BY <1>0, <3>3 DEF Types, Close, Goto
      <3>4. CASE StopOne(c) \/ Stopped(c)
        BY <1>0, <3>4 DEF Types, StopOne, Stopped, Goto
      <3>5. CASE AllStopped(c)
        BY <1>0, <3>5 DEF Types, AllStopped, Return, Goto
      <3>6. CASE Resume(c)
        BY <1>0, <3>6 DEF Types, Resume, Return, Goto
      <3> QED
        BY <1>7, <3>1, <3>2, <3>3, <3>4, <3>5, <3>6 DEF Stops
    <2> QED
      BY <1>0, <2>1, <2>2
  <1>8. CASE UNCHANGED vars
    BY <1>0, <1>8 DEF vars, runner, index, Users
  <1> QED
    BY <1>1, <1>2, <1>3, <1>4, <1>5, <1>6, <1>7, <1>8, StepKinds

LEMMA PausesStep ==
  ASSUME IInv, [Next]_vars
  PROVE  PausesCount'
  <1> USE ProcessAssumption DEF PausesCount, callers
  <1>0. Types /\ PollsHold /\ PausesCount /\ Types'
    BY TypesStep DEF IInv
  <1>1. IsFiniteSet(Suspenders) /\ Cardinality(Suspenders) \in Nat
    BY FS_Subset, FS_CardinalityType DEF Suspenders
  <1>2. ASSUME UNCHANGED <<closed, paused, pc, awaits, resumes>>, Active' \subseteq Active
        PROVE  PausesCount'
    BY <1>0, <1>2 DEF Suspenders
  <1>3. ASSUME NEW i \in Processes, Starts(i) PROVE PausesCount'
    BY <1>0, <1>2, <1>3, StartsFrame DEF Active
  <1>4. ASSUME NEW i \in Processes, Yields(i) PROVE PausesCount'
    <2>1. UNCHANGED <<closed, paused, pc, awaits, resumes>>
      BY <1>0, <1>4, YieldsFrame
    <2>2. CASE closed \/ paused > 0
      <3>1. \A j \in Processes : notice'[j] = notice[j] \/ notice'[j] = "none"
        BY <1>0, <1>4, <2>2, YieldsFrame
      <3> QED
        BY <1>2, <2>1, <3>1 DEF Active, Idle
    <2>3. CASE ~closed /\ ~(paused > 0)
      <3>1. Cardinality(Suspenders) = 0
        BY <1>0, <1>1, <2>3 DEF Types
      <3>2. Suspenders = {}
        BY <1>1, <3>1, FS_EmptySet
      <3>3. resumes = {} /\ \A c \in Callers : pc[c] # "suspend"
        BY <1>0, <3>2 DEF Suspenders, Types
      <3> QED
        BY <1>0, <2>1, <3>3 DEF Suspenders
    <2> QED
      BY <2>2, <2>3
  <1>5. ASSUME NEW i \in Processes, Waits(i) PROVE PausesCount'
    BY <1>0, <1>2, <1>5, WaitsFrame DEF Active, runner
  <1>6. ASSUME NEW i \in Processes, NoticeStep(i) PROVE PausesCount'
    <2>1. Active' \subseteq Active
      BY <1>0, <1>6, NoticesFrame DEF Active
    <2> QED
      BY <1>0, <1>2, <1>6, <2>1, NoticesFrame DEF runner
  <1>7. ASSUME NEW c \in Callers, Polls(c) PROVE PausesCount'
    <2>1. pc[c] \in Polling \cup {"idle"} /\ pc'[c] \in Polling \cup {"idle"} /\ c \notin resumes
      BY <1>0, <1>7, PollsFrame DEF Polling
    <2>2. /\ UNCHANGED <<closed, paused>> /\ Active' = Active
          /\ \A d \in Callers \ {c} : pc'[d] = pc[d] /\ awaits'[d] = awaits[d]
      BY <1>0, <1>7, PollsFrame DEF runner, Active
    <2>4. resumes' = resumes
      <3>1. resumes' \subseteq resumes /\ resumes \subseteq resumes'
        BY <1>0, <1>7, <2>1, PollsFrame DEF Types
      <3> QED
        BY <3>1
    <2>3. Suspenders' = Suspenders
      BY <2>1, <2>2, <2>4 DEF Suspenders, Polling
    <2> QED
      BY <1>0, <2>1, <2>2, <2>3, <2>4 DEF Polling
  <1>8. ASSUME NEW c \in Callers, Suspends(c) PROVE PausesCount'
    <2>1. /\ UNCHANGED closed /\ Active' = Active
          /\ \A d \in Callers \ {c} : pc'[d] = pc[d] /\ awaits'[d] = awaits[d]
      BY <1>0, <1>8, SuspendsFrame DEF Active
    <2>2. CASE \E o \in {"interrupt", "delete"} : Suspend(c, o)
      <3>1. /\ pc[c] = "idle" /\ pc'[c] = "suspend" /\ awaits'[c] = Active /\ resumes' = resumes
            /\ paused' = paused + 1 /\ c \notin resumes
        BY <1>0, <2>2 DEF Types, Suspend, Goto
      <3>2. Suspenders' = Suspenders \cup {c}
        BY <2>1, <3>1 DEF Suspenders
      <3>3. Cardinality(Suspenders') <= Cardinality(Suspenders) + 1
        <4>1. Cardinality(Suspenders \cup {c}) = IF c \in Suspenders THEN Cardinality(Suspenders)
                                                  ELSE Cardinality(Suspenders) + 1
          BY <1>1, FS_AddElement
        <4> QED
          BY <1>1, <3>2, <4>1
      <3>4. closed' \/ paused' >= Cardinality(Suspenders')
        <4>1. Cardinality(Suspenders') \in Nat
          BY <1>1, <3>2, FS_AddElement, FS_CardinalityType
        <4> QED
          BY <1>0, <1>1, <2>1, <3>1, <3>3, <4>1 DEF Types
      <3> QED
        BY <1>0, <2>1, <3>1, <3>4
    <2>3. CASE Suspended(c)
      <3>1. /\ pc[c] = "suspend" /\ pc'[c] \in {"delete", "take"} /\ resumes' = resumes \cup {c}
            /\ paused' = paused /\ awaits[c] \cap Active = {}
        BY <1>0, <2>3 DEF Types, Suspended, AfterSuspend, Goto, runner
      <3>2. Suspenders' = Suspenders /\ Active = {}
        BY <1>0, <2>1, <3>1 DEF Suspenders
      <3> QED
        BY <1>0, <2>1, <3>1, <3>2
    <2>4. CASE SuspendFails(c)
      <3>1. /\ pc[c] = "suspend" /\ pc'[c] \in {"delete", "take"} /\ resumes' = resumes
            /\ c \notin resumes /\ paused' >= paused - 1 /\ paused' \in Nat
        BY <1>0, <2>4 DEF Types, SuspendFails, AfterSuspend, Goto
      <3>2. Suspenders' = Suspenders \ {c} /\ c \in Suspenders
        BY <2>1, <3>1 DEF Suspenders
      <3>3. Cardinality(Suspenders') = Cardinality(Suspenders) - 1
        BY <1>1, <3>2, FS_RemoveElement
      <3>4. closed' \/ paused' >= Cardinality(Suspenders')
        BY <1>0, <1>1, <2>1, <3>1, <3>3 DEF Types
      <3> QED
        BY <1>0, <2>1, <3>1, <3>4
    <2>5. CASE DeleteBegin(c) \/ NoUsers(c)
      <3>1. /\ pc[c] \in {"delete", "users"} /\ pc'[c] \in {"users", "take"} /\ resumes' = resumes
            /\ paused' = paused
        BY <1>0, <2>5 DEF Types, DeleteBegin, NoUsers, Goto, runner
      <3>2. Suspenders' = Suspenders
        BY <2>1, <3>1 DEF Suspenders
      <3> QED
        BY <1>0, <2>1, <3>1, <3>2
    <2> QED
      BY <1>8, <2>2, <2>3, <2>4, <2>5 DEF Suspends
  <1>9. ASSUME NEW c \in Callers, Stops(c) PROVE PausesCount'
    <2>1. /\ Active' = Active /\ pc[c] # "suspend" /\ pc'[c] # "suspend" /\ (closed => closed')
          /\ \A d \in Callers \ {c} : pc'[d] = pc[d] /\ awaits'[d] = awaits[d]
      BY <1>0, <1>9, StopsFrame DEF Active
    <2>2. CASE Resume(c)
      <3>1. /\ pc[c] = "resume" /\ pc'[c] = "idle" /\ resumes' = resumes \ {c} /\ c \in resumes
            /\ closed' = closed /\ paused' = IF paused > 0 THEN paused - 1 ELSE 0
        BY <1>0, <2>2 DEF Types, Resume, Return, Goto
      <3>2. Suspenders' = Suspenders \ {c} /\ c \in Suspenders
        BY <2>1, <3>1 DEF Suspenders
      <3>3. Cardinality(Suspenders') = Cardinality(Suspenders) - 1
        BY <1>1, <3>2, FS_RemoveElement
      <3>4. closed' \/ paused' >= Cardinality(Suspenders')
        BY <1>0, <1>1, <3>1, <3>3 DEF Types
      <3> QED
        BY <1>0, <2>1, <3>1, <3>4
    <2>3. CASE ~Resume(c)
      <3>1. /\ resumes' = resumes /\ (paused' = paused \/ closed')
            /\ pc'[c] = "resume" => c \in resumes
            /\ c \in resumes => pc'[c] \in {"stop", "gone", "resume"}
        <4>1. CASE \E i \in Processes : Kill(c, i)
          BY <1>0, <4>1 DEF Types, Kill, Goto, runner
        <4>2. CASE Take(c)
          BY <1>0, <4>2 DEF Types, Take, Goto, runner
        <4>3. CASE Close(c)
          BY <1>0, <4>3 DEF Types, Close, Goto
        <4>4. CASE StopOne(c) \/ Stopped(c)
          BY <1>0, <4>4 DEF Types, StopOne, Stopped, Goto, runner
        <4>5. CASE AllStopped(c)
          <5>1. pc[c] = "stop" /\ paused' = paused
            BY <4>5 DEF AllStopped
          <5>2. CASE c \in resumes
            BY <1>0, <4>5, <5>1, <5>2 DEF Types, AllStopped, Goto
          <5>3. CASE c \notin resumes
            <6>1. Return(c)
              BY <4>5, <5>3 DEF AllStopped
            <6>2. resumes \ {c} = resumes
              BY <5>3
            <6> QED
              BY <1>0, <5>1, <5>3, <6>1, <6>2 DEF Types, Return, Goto
          <5> QED
            BY <5>2, <5>3
        <4> QED
          BY <1>9, <2>3, <4>1, <4>2, <4>3, <4>4, <4>5 DEF Stops
      <3>2. Suspenders' = Suspenders
        BY <2>1, <3>1 DEF Suspenders
      <3> QED
        BY <1>0, <2>1, <3>1, <3>2
    <2> QED
      BY <2>2, <2>3
  <1>10. CASE UNCHANGED vars
    BY <1>2, <1>10 DEF vars, runner, notices, Active
  <1> QED
    BY <1>3, <1>4, <1>5, <1>6, <1>7, <1>8, <1>9, <1>10, StepKinds

\* The directory goes only when no sandboxed command is left but the doomed ones.
LEMMA DirectoryStep ==
  ASSUME IInv, [Next]_vars
  PROVE  DirectoryInUse'
  <1> USE ProcessAssumption DEF callers
  <1>0. Types /\ PollsHold /\ ClaimsHold /\ NoOrphan /\ DeletionsHold /\ DirectoryInUse
    BY DEF IInv
  <1>1. ASSUME directory => directory', Users' \subseteq Users, signalled \subseteq signalled',
               \A i \in Processes : Alive(i)' => Alive(i) \/ i \in Users \cup Unrestricted,
               \A c \in Callers : mine[c] \subseteq mine'[c] \cup signalled'
        PROVE  DirectoryInUse'
    <2>1. \A i \in Processes : Doomed(i) => Doomed(i)'
      BY <1>1 DEF Doomed
    <2> QED
      BY <1>0, <1>1, <2>1 DEF DirectoryInUse
  <1>2. ASSUME NEW i \in Processes, Starts(i) PROVE DirectoryInUse'
    <2>1. CASE directory' = TRUE
      BY <2>1 DEF DirectoryInUse
    <2>2. CASE directory' = directory /\ Users' \subseteq Users
      <3>1. \A j \in Processes : Alive(j)' => Alive(j) \/ j \in Users \cup Unrestricted
        BY <1>0, <1>2, StartsFrame DEF Alive, Users
      <3> QED
        BY <1>0, <1>1, <1>2, <2>2, <3>1, StartsFrame
    <2>3. directory' = TRUE \/ (directory' = directory /\ Users' \subseteq Users)
      <3>1. CASE RunBegin(i)
        <4>1. CASE i \in Unrestricted \/ closed \/ deleted
          BY <1>0, <3>1, <4>1 DEF Types, RunBegin, RunTo, Users
        <4>2. CASE ~(i \in Unrestricted \/ closed \/ deleted)
          BY <3>1, <4>2 DEF RunBegin
        <4> QED
          BY <4>1, <4>2
      <3>2. CASE Reserve(i) \/ Start(i) \/ Store(i) \/ Release(i) \/ Terminated(i)
        BY <1>0, <3>2 DEF Types, Reserve, Start, Store, Release, Terminated, RunTo, Users, runner
      <3> QED
        BY <1>2, <3>1, <3>2 DEF Starts
    <2> QED
      BY <2>1, <2>2, <2>3
  <1>3. ASSUME NEW i \in Processes, Yields(i) PROVE DirectoryInUse'
    BY <1>0, <1>1, <1>3, YieldsFrame DEF Alive, Users
  <1>4. ASSUME NEW i \in Processes, Waits(i) PROVE DirectoryInUse'
    BY <1>0, <1>1, <1>4, WaitsFrame DEF Alive, Users, runner
  <1>5. ASSUME NEW i \in Processes, NoticeStep(i) PROVE DirectoryInUse'
    BY <1>0, <1>1, <1>5, NoticesFrame DEF Alive, Users, runner
  <1>6. ASSUME NEW c \in Callers, Polls(c) PROVE DirectoryInUse'
    <2>1. mine[c] = {}
      BY <1>0, <1>6, PollsFrame DEF ClaimsHold, Polling
    <2> QED
      BY <1>0, <1>1, <1>6, <2>1, PollsFrame DEF Alive, Users, runner
  <1>7. ASSUME NEW c \in Callers, Suspends(c) PROVE DirectoryInUse'
    BY <1>0, <1>1, <1>7, SuspendsFrame DEF Alive, Users
  <1>8. ASSUME NEW c \in Callers, Stops(c) PROVE DirectoryInUse'
    <2>1. \A d \in Callers : mine[d] \subseteq mine'[d] \cup signalled'
      BY <1>0, <1>8, StopsFrame DEF ClaimsHold
    <2>2. CASE directory' = directory
      BY <1>0, <1>1, <1>8, <2>1, <2>2, StopsFrame DEF Alive, Users
    <2>3. CASE directory' # directory
      <3>1. AllStopped(c)
        BY <1>8, <2>3 DEF Stops, Kill, Take, Close, StopOne, Stopped, Resume, runner
      <3>2. pc[c] = "stop" /\ op[c] \in {"delete", "close"} /\ (op[c] = "close" => Users = {})
        BY <2>3, <3>1 DEF AllStopped
      <3>3. Users = {} /\ retained \subseteq Unrestricted
        BY <1>0, <3>2 DEF DeletionsHold
      <3>4. \A i \in Processes \ Unrestricted : Alive(i) => Doomed(i)
        BY <1>0, <3>3 DEF NoOrphan, Users
      <3>5. \A i \in Processes : Doomed(i) => Doomed(i)'
        BY <1>0, <1>8, <2>1, StopsFrame DEF Doomed
      <3>6. run' = run /\ waiter' = waiter
        BY <1>0, <1>8, StopsFrame
      <3> QED
        BY <3>3, <3>4, <3>5, <3>6 DEF DirectoryInUse, Alive, Users
    <2> QED
      BY <2>2, <2>3
  <1>9. CASE UNCHANGED vars
    BY <1>1, <1>9 DEF vars, runner, Alive, Users
  <1> QED
    BY <1>2, <1>3, <1>4, <1>5, <1>6, <1>7, <1>8, <1>9, StepKinds

-----------------------------------------------------------------------------
(* The theorems.                                                           *)

LEMMA InitHolds == Init => IInv
  <1> SUFFICES ASSUME Init PROVE IInv
    OBVIOUS
  <1> USE ProcessAssumption
  <1>1. Types
    BY DEF Init, Types, RunPlaces
  <1>2. PollsHold /\ NoticesHold /\ ReportsMatch /\ ClaimsHold
    BY DEF Init, PollsHold, NoticesHold, ReportsMatch, ClaimsHold, Polling
  <1>3. NoOrphan /\ NoReservationLeak /\ DeletionsHold /\ DirectoryInUse
    BY DEF Init, NoOrphan, NoReservationLeak, DeletionsHold, DirectoryInUse, Alive, Users
  <1>4. PausesCount
    <2>1. Suspenders = {}
      BY DEF Init, Suspenders
    <2> QED
      BY <2>1, FS_EmptySet DEF Init, PausesCount
  <1> QED
    BY <1>1, <1>2, <1>3, <1>4 DEF IInv

\* Every state satisfies the invariant: who reports an end is alone with the
\* process, and who deletes or closes has claimed what is left (collectPersistent,
\* takeSessionProcesses, Close).
THEOREM ProcessInvariance == Spec => []IInv
  <1>1. IInv /\ [Next]_vars => IInv'
    BY TypesStep, PollsStep, NoticesStep, ReportsStep, ClaimsStep, PausesStep, DeletionsStep,
       DirectoryStep DEF IInv
  <1> QED
    BY <1>1, InitHolds, PTL DEF Spec

\* RunPersistent, the polls and the notice report the end of a process once between
\* them, whoever wins (completionDelivered, interaction).
THEOREM EndsAreReportedOnce == Spec => []ReportedOnce
  <1>1. IInv => ReportedOnce
    BY DEF IInv, ReportsMatch, ReportedOnce
  <1> QED
    BY <1>1, ProcessInvariance, PTL

\* No process is forgotten while it runs, no reservation leaks, a suspended session
\* gets no notice, and the directory lasts as long as the commands that use it
\* (storePersistent, SuspendSession, DeleteSession, Close).
THEOREM ProcessesAreAccounted == Spec => []ProcessesAccounted
  <1>1. IInv => ProcessesAccounted
    <2>1. IInv => QuietWhileSuspended
      BY DEF IInv, PausesCount, QuietWhileSuspended, Active, Idle
    <2> QED
      BY <2>1 DEF IInv, ProcessesAccounted
  <1> QED
    BY <1>1, ProcessInvariance, PTL
=============================================================================
