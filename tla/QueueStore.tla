----------------------------- MODULE QueueStore -----------------------------
(***************************************************************************)
(* Named queues as JSON Lines files (internal/queue/queue.go), shared by   *)
(* the stores of several processes.                                        *)
(*                                                                         *)
(* An operation holds the mutex of its store and, for a read-modify-write, *)
(* the lock directory of the queue: it reads the file, computes the new    *)
(* contents and publishes them by a rename.  DeliverMonitored offers the   *)
(* oldest item of a monitored queue to the session while it holds the      *)
(* lock, under an identifier that it has written to the file before.  A    *)
(* publication may fail, and a process may stop anywhere; nothing removes  *)
(* the lock directory that it leaves behind.                               *)
(***************************************************************************)
EXTENDS Integers, FiniteSets, Sequences, SequencesExt

CONSTANTS Queues,      \* names in canonical order, numbers
          Items,       \* each is pushed once
          Users,       \* threads that call a store
          Deliverers,  \* those that run turns of the root session
          Stores,      \* one per process
          StoreOf,     \* the store a user calls
          MaxIds,      \* bound on the delivery identifiers
          MaxCrashes,  \* bound on the processes that stop
          None, Orphan

VARIABLES
    file,      \* per queue: None, or its metadata and items
    lock,      \* per queue: who made the lock directory
    mu,        \* per store: who holds Store.mu
    pc, op,    \* per user: where it is, and in which call
    copy,      \* per user: the contents it has read
    ahead,     \* per user: the queues DeliverMonitored has still to visit
    messages,  \* the session's messages that stand for items
    minted,    \* identifiers made so far
    crashes,
    pushed,    \* history: the items that were pushed
    taken,     \* history: per item, how often it was taken
    torn,      \* history: delivered items that could not be removed
    exposed    \* history: those of them whose identifier was reset

durable == <<file, lock, messages>>
local == <<mu, pc, op, copy, ahead>>
past == <<pushed, taken, torn, exposed>>
vars == <<durable, local, minted, crashes, past>>

Contents == [monitored : BOOLEAN, id : 0..MaxIds, items : Seq(Items)]
Empty == [monitored |-> FALSE, id |-> 0, items |-> << >>]
Call(kind, q) == [kind |-> kind, queue |-> q, items |-> << >>, back |-> FALSE, count |-> 0]
Calls == [kind : {"create", "push", "take", "monitor", "unmonitor", "deliver"},
          queue : Queues, items : Seq(Items), back : BOOLEAN, count : 0..2]

ASSUME StoreAssumption ==
    /\ StoreOf \in [Users -> Stores]
    /\ MaxIds \in Nat /\ MaxCrashes \in Nat
    /\ {None, Orphan} \cap Users = {} /\ None # Orphan /\ None \notin Contents \cup Calls
    /\ \A qs \in SUBSET Queues : qs # {} => \E q \in qs : \A p \in qs : q <= p

TypeOK ==
    /\ file \in [Queues -> Contents \cup {None}]
    /\ lock \in [Queues -> Users \cup {None, Orphan}]
    /\ mu \in [Stores -> Users \cup {None}]
    /\ pc \in [Users -> {"idle", "link", "lock", "read", "identify", "offer",
                         "write", "pass", "unlock"}]
    /\ op \in [Users -> Calls \cup {None}]
    /\ copy \in [Users -> Contents \cup {None}]
    /\ ahead \in [Users -> SUBSET Queues]
    /\ messages \subseteq [id : 1..MaxIds, item : Items]
    /\ minted \in 0..MaxIds /\ crashes \in 0..MaxCrashes
    /\ pushed \subseteq Items /\ torn \subseteq Items /\ exposed \subseteq Items
    /\ taken \in [Items -> Nat]

Init ==
    /\ file = [q \in Queues |-> None]
    /\ lock = [q \in Queues |-> None]
    /\ mu = [s \in Stores |-> None]
    /\ pc = [u \in Users |-> "idle"] /\ op = [u \in Users |-> None]
    /\ copy = [u \in Users |-> None] /\ ahead = [u \in Users |-> {}]
    /\ messages = {} /\ minted = 0 /\ crashes = 0
    /\ pushed = {} /\ torn = {} /\ exposed = {} /\ taken = [i \in Items |-> 0]

-----------------------------------------------------------------------------
(* What an operation makes of the contents it has read.                    *)

First(qs) == CHOOSE q \in qs : \A p \in qs : q <= p

\* Inserting at the front is like pushing one item after the other, and gives
\* the queue a new oldest item.
Pushed(c, o) ==
    IF o.back THEN [c EXCEPT !.items = @ \o o.items]
    ELSE [c EXCEPT !.items = Reverse(o.items) \o @, !.id = 0]

\* take: the oldest item goes with the first one, or with the last one.
Rest(c, o) ==
    LET n == IF o.count < Len(c.items) THEN o.count ELSE Len(c.items)
        rest == IF o.back THEN SubSeq(c.items, 1, Len(c.items) - n)
                          ELSE SubSeq(c.items, n + 1, Len(c.items))
    IN [c EXCEPT !.items = rest,
                 !.id = IF o.back /\ rest # << >> THEN @ ELSE 0]

Result(c, o) ==
    CASE o.kind = "push" -> Pushed(c, o)
      [] o.kind = "take" -> Rest(c, o)
      [] o.kind = "monitor" -> [c EXCEPT !.monitored = TRUE]
      [] o.kind = "unmonitor" -> [c EXCEPT !.monitored = FALSE]
      [] o.kind = "deliver" -> [c EXCEPT !.items = Tail(@), !.id = 0]

-----------------------------------------------------------------------------
(* Calls.                                                                  *)

Start(u, o) ==
    /\ pc[u] = "idle" /\ mu[StoreOf[u]] = None
    /\ mu' = [mu EXCEPT ![StoreOf[u]] = u]
    /\ op' = [op EXCEPT ![u] = o]
    /\ UNCHANGED <<durable, copy, minted, crashes, past>>

Leave(u) ==
    /\ pc' = [pc EXCEPT ![u] = "idle"] /\ op' = [op EXCEPT ![u] = None]
    /\ copy' = [copy EXCEPT ![u] = None] /\ ahead' = [ahead EXCEPT ![u] = {}]
    /\ mu' = [mu EXCEPT ![StoreOf[u]] = None]

Goto(u, place) == pc' = [pc EXCEPT ![u] = place]
ToUnlock(u) == Goto(u, "unlock") /\ copy' = [copy EXCEPT ![u] = None]

BeginCreate(u) ==
    /\ \E q \in Queues : Start(u, Call("create", q))
    /\ Goto(u, "link") /\ UNCHANGED ahead

BeginPush(u) ==
    /\ \E q \in Queues, s \in BoundedSeq(Items \ pushed, 2), b \in BOOLEAN :
          /\ s # << >> /\ IsInjective(s)
          /\ \A v \in Users : op[v] # None => Range(op[v].items) \cap Range(s) = {}
          /\ Start(u, [Call("push", q) EXCEPT !.items = s, !.back = b])
    /\ Goto(u, "lock") /\ UNCHANGED ahead

BeginTake(u) ==
    /\ \E q \in Queues, b \in BOOLEAN, n \in {1, 2} :
          Start(u, [Call("take", q) EXCEPT !.back = b, !.count = n])
    /\ Goto(u, "lock") /\ UNCHANGED ahead

BeginMonitor(u) ==
    /\ \E q \in Queues, k \in {"monitor", "unmonitor"} : Start(u, Call(k, q))
    /\ Goto(u, "lock") /\ UNCHANGED ahead

\* The queues are listed once, at the start.
BeginDeliver(u) ==
    LET listed == {q \in Queues : file[q] # None}
    IN /\ u \in Deliverers /\ listed # {}
       /\ Start(u, Call("deliver", First(listed)))
       /\ ahead' = [ahead EXCEPT ![u] = listed \ {First(listed)}]
       /\ Goto(u, "lock")

\* create: a link refuses to replace a file, and takes no lock.
Link(u) ==
    /\ pc[u] = "link"
    /\ LET q == op[u].queue
       IN file' = [file EXCEPT ![q] = IF @ = None THEN Empty ELSE @]
    /\ Leave(u)
    /\ UNCHANGED <<lock, messages, minted, crashes, past>>

\* Mutant: the lock directory is not respected.
Lock_Free(u) ==
    /\ pc[u] = "lock"
    /\ lock' = [lock EXCEPT ![op[u].queue] = u]
    /\ Goto(u, "read")
    /\ UNCHANGED <<file, messages, mu, op, copy, ahead, minted, crashes, past>>

\* tryLock: making a directory is atomic.
Lock(u) ==
    /\ pc[u] = "lock" /\ lock[op[u].queue] = None
    /\ lock' = [lock EXCEPT ![op[u].queue] = u]
    /\ Goto(u, "read")
    /\ UNCHANGED <<file, messages, mu, op, copy, ahead, minted, crashes, past>>

\* Ten seconds, the caller's context, or TryTake.
GiveUp(u) ==
    /\ pc[u] = "lock" /\ lock[op[u].queue] # None
    /\ Leave(u)
    /\ UNCHANGED <<durable, minted, crashes, past>>

\* A queue that is missing, unreadable or empty ends the call; a queue that has
\* nothing to deliver is passed over.
Read(u) ==
    LET c == file[op[u].queue]
        kind == op[u].kind
    IN /\ pc[u] = "read"
       /\ \/ c # None /\ kind \in {"push", "monitor", "unmonitor"} /\ Goto(u, "write")
          \/ c # None /\ kind = "take" /\ c.items # << >> /\ Goto(u, "write")
          \/ c # None /\ kind = "deliver" /\ c.items # << >> /\ c.monitored
             /\ Goto(u, IF c.id = 0 THEN "identify" ELSE "offer")
          \/ c # None /\ kind = "deliver" /\ (c.items = << >> \/ ~c.monitored)
             /\ Goto(u, "pass")
          \/ Goto(u, "unlock")
       /\ copy' = [copy EXCEPT ![u] = IF pc'[u] \in {"unlock", "pass"} THEN None ELSE c]
       /\ UNCHANGED <<durable, mu, op, ahead, minted, crashes, past>>

\* The identifier is in the file before the item is offered under it.
Identify(u) ==
    /\ pc[u] = "identify"
    /\ \/ /\ minted < MaxIds
          /\ minted' = minted + 1
          /\ copy' = [copy EXCEPT ![u].id = minted + 1]
          /\ file' = [file EXCEPT ![op[u].queue] = copy'[u]]
          /\ Goto(u, "offer")
       \/ ToUnlock(u) /\ UNCHANGED <<file, minted>>
    /\ UNCHANGED <<lock, messages, mu, op, ahead, crashes, past>>

\* AppendMessageIfNoPendingInputs: a message that exists is accepted again, and
\* a new one is refused while prompts wait.
Offer(u) ==
    /\ pc[u] = "offer"
    /\ \/ /\ messages' = messages \cup {[id |-> copy[u].id, item |-> Head(copy[u].items)]}
          /\ Goto(u, "write") /\ UNCHANGED copy
       \/ ToUnlock(u) /\ UNCHANGED messages
    /\ UNCHANGED <<file, lock, mu, op, ahead, minted, crashes, past>>

\* Items that were delivered before and are about to lose their identifier.
Exposes(u) ==
    IF op[u].kind # "deliver" /\ copy[u].id # 0 /\ Result(copy[u], op[u]).id = 0
    THEN torn \cap Range(copy[u].items) ELSE {}

\* write: the contents are published by a rename, or not at all.
Publish(u) ==
    LET new == Result(copy[u], op[u])
        gone == IF op[u].kind = "take"
                THEN Range(copy[u].items) \ Range(new.items) ELSE {}
    IN /\ pc[u] = "write"
       /\ file' = [file EXCEPT ![op[u].queue] = new]
       /\ taken' = [i \in Items |-> taken[i] + (IF i \in gone THEN 1 ELSE 0)]
       /\ pushed' = pushed \cup Range(op[u].items)
       /\ exposed' = exposed \cup Exposes(u)
       /\ ToUnlock(u)
       /\ UNCHANGED <<lock, messages, mu, op, ahead, minted, crashes, torn>>

PublishFails(u) ==
    /\ pc[u] = "write"
    /\ torn' = IF op[u].kind = "deliver" THEN torn \cup {Head(copy[u].items)} ELSE torn
    /\ ToUnlock(u)
    /\ UNCHANGED <<durable, mu, op, ahead, minted, crashes, pushed, taken, exposed>>

Unlock(u) ==
    /\ pc[u] = "unlock"
    /\ lock' = [lock EXCEPT ![op[u].queue] = None]
    /\ Leave(u)
    /\ UNCHANGED <<file, messages, minted, crashes, past>>

\* The next queue of the listing.
PassOver(u) ==
    /\ pc[u] = "pass"
    /\ lock' = [lock EXCEPT ![op[u].queue] = None]
    /\ IF ahead[u] = {} THEN Leave(u)
       ELSE /\ op' = [op EXCEPT ![u].queue = First(ahead[u])]
            /\ ahead' = [ahead EXCEPT ![u] = @ \ {First(@)}]
            /\ copy' = [copy EXCEPT ![u] = None]
            /\ Goto(u, "lock") /\ UNCHANGED mu
    /\ UNCHANGED <<file, messages, minted, crashes, past>>

\* The process stops, and another one opens a store on the same directory.
Crash(s) ==
    LET gone == {u \in Users : StoreOf[u] = s}
        torn1 == {Head(copy[u].items) : u \in
                    {v \in gone : op[v] # None /\ op[v].kind = "deliver" /\ pc[v] = "write"}}
    IN /\ crashes < MaxCrashes /\ crashes' = crashes + 1
       /\ \E u \in gone : pc[u] # "idle"
       /\ lock' = [q \in Queues |-> IF lock[q] \in gone THEN Orphan ELSE lock[q]]
       /\ mu' = [mu EXCEPT ![s] = None]
       /\ pc' = [u \in Users |-> IF u \in gone THEN "idle" ELSE pc[u]]
       /\ op' = [u \in Users |-> IF u \in gone THEN None ELSE op[u]]
       /\ copy' = [u \in Users |-> IF u \in gone THEN None ELSE copy[u]]
       /\ ahead' = [u \in Users |-> IF u \in gone THEN {} ELSE ahead[u]]
       /\ torn' = torn \cup torn1
       /\ UNCHANGED <<file, messages, minted, pushed, taken, exposed>>

Next ==
    \/ \E u \in Users : BeginCreate(u) \/ BeginPush(u) \/ BeginTake(u)
         \/ BeginMonitor(u) \/ BeginDeliver(u) \/ Link(u) \/ Lock(u) \/ GiveUp(u)
         \/ Read(u) \/ Identify(u) \/ Offer(u) \/ Publish(u) \/ PublishFails(u)
         \/ Unlock(u) \/ PassOver(u)
    \/ \E s \in Stores : Crash(s)

Spec == Init /\ [][Next]_vars

-----------------------------------------------------------------------------
(* Properties.                                                             *)

Queued(i) == \E q \in Queues : file[q] # None /\ i \in Range(file[q].items)
Messages(i) == {m \in messages : m.item = i}

\* Whatever two stores do to a queue at the same time, and whatever fails or
\* stops, an item that was pushed is in its queue, or a taker has it, or it is a
\* message of the session (the lock around read and write in Push, take,
\* Monitor and DeliverMonitored).
NoItemLost == \A i \in pushed : Queued(i) \/ taken[i] > 0 \/ Messages(i) # {}

\* An item is taken or delivered once.  The exception the code leaves open: an
\* item that was delivered and could not be removed, when a push to the front or
\* a take resets the identifier under which a retry would find its message.
ConsumedOnce ==
    \A i \in Items \ exposed : taken[i] + Cardinality(Messages(i)) <= 1

\* Items are consumed once and not lost, whoever crashes (Store.Push, Take,
\* DeliverMonitored).
ItemsAccounted == NoItemLost /\ ConsumedOnce
=============================================================================
