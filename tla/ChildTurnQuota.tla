--------------------------- MODULE ChildTurnQuota ---------------------------
(***************************************************************************)
(* The concurrency quota of child-agent turns (internal/agent).            *)
(*                                                                         *)
(* Every agent session owns a semaphore that bounds the turns of its       *)
(* direct children, and the user session owns one that bounds all child    *)
(* turns (childTurnSemaphore, concurrency.go).  A child turn runs only     *)
(* while it holds a permit of both, always taken parent first.  A caller   *)
(* first tries both without waiting (tryAcquireTurnQuota); if either is    *)
(* full the turn is admitted as blocked and a goroutine waits for the      *)
(* parent's permit, then for the global one while it keeps the parent's    *)
(* (acquireTurnQuota, waitForTurnPermit).                                  *)
(*                                                                         *)
(* One action is one critical section of a semaphore's mutex (or of        *)
(* quotaMu).  A child is one attempt to run a turn: the semaphores do not  *)
(* know sessions, so two callers of one session are two children here.     *)
(* The root session needs no permit; it appears only as a parent.          *)
(***************************************************************************)
EXTENDS Integers, Sequences, FiniteSets, SequencesExt

CONSTANTS Children,     \* attempts to run a child turn
          Root,         \* the root agent session
          Global,       \* the user-wide semaphore
          ParentOf,     \* the session whose semaphore bounds the attempt
          ParentLimit,  \* subagents.max_concurrent_per_parent
          GlobalLimit   \* subagents.max_concurrent

Pools == Children \cup {Root, Global}

ASSUME QuotaAssumption ==
    /\ IsFiniteSet(Children)
    /\ Root \notin Children
    /\ Global \notin Children \cup {Root}
    /\ ParentOf \in [Children -> Children \cup {Root}]
    /\ ParentLimit \in Nat \ {0}
    /\ GlobalLimit \in Nat \ {0}
    /\ ParentLimit <= GlobalLimit

Limit(p) == IF p = Global THEN GlobalLimit ELSE ParentLimit

VARIABLES
    used,       \* per pool: permits counted as taken
    waiters,    \* per pool: the FIFO of attempts whose ready channel is open
    held,       \* per attempt: the pools whose permit it owns or was handed
    pc,         \* per attempt: where it is in the acquisition or the turn
    cancelled,  \* per attempt: its turn's context is done
    awaiting,   \* per attempt: the child turns its wait_agent call waits for
    closed      \* userSession.closed

vars == <<used, waiters, held, pc, cancelled, awaiting, closed>>

\* The places of an attempt that wait in a semaphore's queue.
Waits == {"parentWait", "globalWait"}

Places == Waits \cup
    {"idle", "tryGlobal", "busyDrop", "busy", "blocked", "parentPass",
     "acquireGlobal", "globalPass", "checkClosed", "failDrop", "holding",
     "running", "releaseParent", "releaseGlobal", "ending"}

TypeOK ==
    /\ used \in [Pools -> Nat]
    /\ waiters \in [Pools -> Seq(Children)]
    /\ held \in [Children -> SUBSET Pools]
    /\ pc \in [Children -> Places]
    /\ cancelled \in [Children -> BOOLEAN]
    /\ awaiting \in [Children -> SUBSET Children]
    /\ closed \in BOOLEAN

Init ==
    /\ used = [p \in Pools |-> 0]
    /\ waiters = [p \in Pools |-> << >>]
    /\ held = [c \in Children |-> {}]
    /\ pc = [c \in Children |-> "idle"]
    /\ cancelled = [c \in Children |-> FALSE]
    /\ awaiting = [c \in Children |-> {}]
    /\ closed = FALSE

Goto(c, place) == pc' = [pc EXCEPT ![c] = place]

-----------------------------------------------------------------------------
(* The semaphore.                                                          *)

\* The condition under which tryAcquire and acquire take a permit at once.
Available(p) == used[p] < Limit(p) /\ waiters[p] = << >>

Take(p, c) ==
    /\ Available(p)
    /\ used' = [used EXCEPT ![p] = @ + 1]
    /\ held' = [held EXCEPT ![c] = @ \cup {p}]
    /\ UNCHANGED waiters

Enqueue(p, c) ==
    /\ ~Available(p)
    /\ waiters' = [waiters EXCEPT ![p] = Append(@, c)]
    /\ UNCHANGED <<used, held>>

Release_NoHandOver(p, c) ==
    /\ used' = [used EXCEPT ![p] = @ - 1]
    /\ held' = [held EXCEPT ![c] = @ \ {p}]
    /\ UNCHANGED waiters

\* release hands the permit to the first waiter without touching used, or
\* returns it to the semaphore when nobody waits.
Release(p, c) ==
    IF waiters[p] = << >>
    THEN /\ used' = [used EXCEPT ![p] = @ - 1]
         /\ held' = [held EXCEPT ![c] = @ \ {p}]
         /\ UNCHANGED waiters
    ELSE /\ waiters' = [waiters EXCEPT ![p] = Tail(@)]
         /\ held' = [d \in Children |->
                       IF d = Head(waiters[p]) THEN held[d] \cup {p}
                       ELSE IF d = c THEN held[d] \ {p} ELSE held[d]]
         /\ UNCHANGED used

Queued(p, c) == \E i \in 1..Len(waiters[p]) : waiters[p][i] = c

\* The cancelled waiter removes its channel from the queue.
Withdraw(p, c) ==
    /\ \E i \in 1..Len(waiters[p]) :
          /\ waiters[p][i] = c
          /\ waiters' = [waiters EXCEPT ![p] = RemoveAt(@, i)]
    /\ UNCHANGED <<used, held>>

\* What no semaphore operation touches.
Rest == <<cancelled, awaiting, closed>>

-----------------------------------------------------------------------------
(* tryAcquireTurnQuota: both permits without waiting.                      *)

TryParent(c) ==
    /\ pc[c] = "idle"
    /\ \/ Take(ParentOf[c], c) /\ Goto(c, "tryGlobal")
       \/ /\ ~Available(ParentOf[c])
          /\ Goto(c, "busy")
          /\ UNCHANGED <<used, waiters, held>>
    /\ UNCHANGED Rest

\* TryAcquireWorkerQuota reads closed and tries the semaphore under quotaMu.
TryGlobal(c) ==
    /\ pc[c] = "tryGlobal"
    /\ \/ /\ ~closed
          /\ Take(Global, c)
          /\ Goto(c, "holding")
       \/ /\ closed \/ ~Available(Global)
          /\ Goto(c, IF closed THEN "failDrop" ELSE "busyDrop")
          /\ UNCHANGED <<used, waiters, held>>
    /\ UNCHANGED Rest

\* The parent's permit goes back: the global quota is busy, or the acquisition
\* failed.
DropParent(c) ==
    /\ pc[c] \in {"busyDrop", "failDrop"}
    /\ Release(ParentOf[c], c)
    /\ Goto(c, IF pc[c] = "busyDrop" THEN "busy" ELSE "ending")
    /\ UNCHANGED Rest

\* The session lock admits a blocked turn.
Block(c) ==
    /\ pc[c] = "busy"
    /\ Goto(c, "blocked")
    /\ UNCHANGED <<used, waiters, held, Rest>>

\* The session lock rejects the attempt: the caller does not wait for a permit,
\* the session is shutting down or removed, the message is already admitted,
\* or another caller started a turn meanwhile.
Reject(c) ==
    /\ pc[c] \in {"busy", "holding"}
    /\ Goto(c, IF pc[c] = "busy" THEN "ending" ELSE "releaseParent")
    /\ UNCHANGED <<used, waiters, held, Rest>>

-----------------------------------------------------------------------------
(* acquireTurnQuota, in the goroutine of a blocked turn.                   *)

AcquireParent(c) ==
    /\ pc[c] = "blocked"
    /\ \/ Take(ParentOf[c], c) /\ Goto(c, "acquireGlobal")
       \/ Enqueue(ParentOf[c], c) /\ Goto(c, "parentWait")
    /\ UNCHANGED Rest

AcquireGlobal(c) ==
    /\ pc[c] = "acquireGlobal"
    /\ \/ Take(Global, c) /\ Goto(c, "checkClosed")
       \/ Enqueue(Global, c) /\ Goto(c, "globalWait")
    /\ UNCHANGED Rest

\* The pool an attempt waits for.
WaitPool(c) == IF pc[c] = "globalWait" THEN Global ELSE ParentOf[c]

\* select takes the ready branch.
Granted(c) ==
    /\ pc[c] \in Waits
    /\ WaitPool(c) \in held[c]
    /\ Goto(c, IF pc[c] = "globalWait" THEN "checkClosed" ELSE "acquireGlobal")
    /\ UNCHANGED <<used, waiters, held, Rest>>

\* select takes the Done branch while the channel is still queued.
GiveUp(c) ==
    /\ pc[c] \in Waits
    /\ cancelled[c]
    /\ Withdraw(WaitPool(c), c)
    /\ Goto(c, IF pc[c] = "globalWait" THEN "failDrop" ELSE "ending")
    /\ UNCHANGED Rest

GiveUpLate_Keeps(c) ==
    /\ pc[c] \in Waits
    /\ cancelled[c]
    /\ ~Queued(WaitPool(c), c)
    /\ Goto(c, IF pc[c] = "globalWait" THEN "failDrop" ELSE "ending")
    /\ UNCHANGED <<used, waiters, held, Rest>>

\* select takes the Done branch after the permit was handed over: it is passed
\* on by the next step.
GiveUpLate(c) ==
    /\ pc[c] \in Waits
    /\ cancelled[c]
    /\ ~Queued(WaitPool(c), c)
    /\ Goto(c, IF pc[c] = "globalWait" THEN "globalPass" ELSE "parentPass")
    /\ UNCHANGED <<used, waiters, held, Rest>>

PassOn(c) ==
    /\ \/ /\ pc[c] = "parentPass"
          /\ Release(ParentOf[c], c)
          /\ Goto(c, "ending")
       \/ /\ pc[c] = "globalPass"
          /\ Release(Global, c)
          /\ Goto(c, "failDrop")
    /\ UNCHANGED Rest

CheckClosed_Ignored(c) ==
    /\ pc[c] = "checkClosed"
    /\ Goto(c, "holding")
    /\ UNCHANGED <<used, waiters, held, Rest>>

\* AcquireWorkerQuota looks at closed only after it owns the global permit.
CheckClosed(c) ==
    /\ pc[c] = "checkClosed"
    /\ Goto(c, IF closed THEN "globalPass" ELSE "holding")
    /\ UNCHANGED <<used, waiters, held, Rest>>

-----------------------------------------------------------------------------
(* The turn.                                                               *)

\* waitForTurnPermit and startTurn give a cancelled turn no goroutine.
Start(c) ==
    /\ pc[c] = "holding"
    /\ Goto(c, IF cancelled[c] THEN "releaseParent" ELSE "running")
    /\ UNCHANGED <<used, waiters, held, Rest>>

\* A tool of the turn waits (wait_agent without a timeout) for a direct child
\* that has a turn.
Await(c, d) ==
    /\ pc[c] = "running"
    /\ awaiting[c] = {}
    /\ ~cancelled[c]
    /\ ParentOf[d] = c
    /\ pc[d] \in Waits \cup {"blocked", "running"}
    /\ awaiting' = [awaiting EXCEPT ![c] = {d}]
    /\ UNCHANGED <<used, waiters, held, pc, cancelled, closed>>

\* The wait of a cancelled turn ends at once.
AwaitCancelled(c) ==
    /\ awaiting[c] # {}
    /\ cancelled[c]
    /\ awaiting' = [awaiting EXCEPT ![c] = {}]
    /\ UNCHANGED <<used, waiters, held, pc, cancelled, closed>>

\* finishTurn releases the permits of the turn, the parent's first, ...
Finish(c) ==
    /\ pc[c] = "running"
    /\ awaiting[c] = {}
    /\ Goto(c, "releaseParent")
    /\ UNCHANGED <<used, waiters, held, Rest>>

ReleaseParent(c) ==
    /\ pc[c] = "releaseParent"
    /\ Release(ParentOf[c], c)
    /\ Goto(c, "releaseGlobal")
    /\ UNCHANGED Rest

ReleaseGlobal(c) ==
    /\ pc[c] = "releaseGlobal"
    /\ Release(Global, c)
    /\ Goto(c, "ending")
    /\ UNCHANGED Rest

\* ... and completes it for whoever awaits it.
Complete(c) ==
    /\ pc[c] = "ending"
    /\ Goto(c, "idle")
    /\ cancelled' = [cancelled EXCEPT ![c] = FALSE]
    /\ awaiting' = [d \in Children |-> awaiting[d] \ {c}]
    /\ UNCHANGED <<used, waiters, held, closed>>

\* Interrupt or Shutdown cancels the context of an admitted turn.
Cancel(c) ==
    /\ pc[c] \notin {"idle", "tryGlobal", "busyDrop", "busy"}
    /\ cancelled' = [cancelled EXCEPT ![c] = TRUE]
    /\ UNCHANGED <<used, waiters, held, pc, awaiting, closed>>

\* userSession.Shutdown; it goes on to shut every session down (Cancel).
Close ==
    /\ closed' = TRUE
    /\ UNCHANGED <<used, waiters, held, pc, cancelled, awaiting>>

-----------------------------------------------------------------------------

Acquisition(c) ==
    \/ TryGlobal(c) \/ DropParent(c) \/ Block(c)
    \/ AcquireParent(c) \/ AcquireGlobal(c)
    \/ Granted(c) \/ GiveUp(c) \/ GiveUpLate(c) \/ PassOn(c) \/ CheckClosed(c)

Turn(c) ==
    \/ Start(c) \/ AwaitCancelled(c) \/ Finish(c)
    \/ ReleaseParent(c) \/ ReleaseGlobal(c) \/ Complete(c)

Next ==
    \/ \E c \in Children :
         \/ TryParent(c) \/ Acquisition(c) \/ Reject(c)
         \/ Turn(c) \/ Cancel(c)
         \/ \E d \in Children : Await(c, d)
    \/ Close

Spec == Init /\ [][Next]_vars

\* Goroutines are scheduled, and Shutdown reaches every session.  A turn waits
\* for its children only finitely often (a drain makes at most max_turns
\* provider turns), so one that can end again and again does end.  Callers,
\* interrupts and the user may never come.
Fairness ==
    \A c \in Children :
      /\ WF_vars(Acquisition(c))
      /\ WF_vars(Turn(c))
      /\ SF_vars(Finish(c))
      /\ WF_vars(closed /\ ~cancelled[c] /\ Cancel(c))

FairSpec == Spec /\ Fairness

-----------------------------------------------------------------------------
(* Properties.                                                             *)

Holders(p) == {c \in Children : p \in held[c]}

\* Where an attempt must own each of its two permits, or neither.
OwnsParent == {"tryGlobal", "busyDrop", "failDrop", "acquireGlobal",
    "globalWait", "globalPass", "checkClosed", "holding", "running",
    "releaseParent", "parentPass"}
OwnsGlobal == {"checkClosed", "globalPass", "holding", "running",
    "releaseParent", "releaseGlobal"}

\* What a semaphore counts as used is exactly the permits somebody owns or was
\* handed (release never touches used while somebody waits), and never more
\* than its limit: concurrency.go's used/waiters bookkeeping.
Conservation ==
    \A p \in Pools :
      /\ used[p] = Cardinality(Holders(p))
      /\ used[p] <= Limit(p)

\* No wake-up is lost: somebody waits for a permit only while all of them are
\* out (release hands over, acquire queues only behind a full semaphore).
NoIdlePermit ==
    \A p \in Pools : waiters[p] # << >> => used[p] = Limit(p)

\* No path leaks a permit or returns it twice: each place of tryAcquireTurnQuota
\* and acquireTurnQuota, the cancelled and closed ones included, owns exactly
\* the permits it has to give back.
PermitsMatchPlace ==
    \A c \in Children :
      /\ pc[c] # "parentWait" =>
            (ParentOf[c] \in held[c] <=> pc[c] \in OwnsParent)
      /\ pc[c] # "globalWait" => (Global \in held[c] <=> pc[c] \in OwnsGlobal)
      /\ held[c] \subseteq {ParentOf[c], Global}

\* The books are exact: what the semaphores count, what the attempts own, and who
\* has to wait agree after every step of an acquisition, a release, a withdrawal.
PermitsExact == Conservation /\ NoIdlePermit /\ PermitsMatchPlace

\* A turn runs only inside both limits: subagents.max_concurrent and
\* subagents.max_concurrent_per_parent bound the running turns.
RunningWithinLimits ==
    /\ Cardinality({c \in Children : pc[c] = "running"}) <= GlobalLimit
    /\ \A p \in Children \cup {Root} :
         Cardinality({c \in Children : pc[c] = "running" /\ ParentOf[c] = p})
           <= ParentLimit

\* The quota of both levels, exact and within its limits.
QuotaIsExact == PermitsExact /\ RunningWithinLimits

\* Permits are handed out in the order of arrival: whoever obtains one while
\* others wait is the first of them (release serves waiters[0], and neither
\* acquire nor tryAcquire overtakes a queue).
NoOvertaking ==
    [][\A p \in Pools, c \in Children :
         p \in held'[c] \ held[c] /\ waiters[p] # << >> => c = Head(waiters[p])]_vars

\* Once the user session is closed no attempt gets as far as a turn, whether it
\* asked before or after (TryAcquireWorkerQuota, AcquireWorkerQuota).
ClosedAdmitsNothing ==
    [][closed => \A c \in Children : pc'[c] = "holding" => pc[c] = "holding"]_vars

\* A blocked turn gets its permits, or ends because it was cancelled: the two
\* levels of waiting and the late hand-over lose nobody.
BlockedIsResolved ==
    \A c \in Children :
      pc[c] \in Waits \cup {"blocked"} ~> pc[c] \in {"running", "ending"}

\* After Shutdown no turn is left running or waiting for a permit.
ShutdownDrains ==
    \A c \in Children : closed /\ pc[c] # "idle" ~> pc[c] = "idle"

\* Every attempt comes to an end.
AttemptsEnd == BlockedIsResolved /\ ShutdownDrains
=============================================================================
