---------------------------- MODULE QueueProofs -----------------------------
(***************************************************************************)
(* Proofs about QueueStore for any number of queues, items, users, stores  *)
(* and crashes: no item is lost, and none is consumed twice unless it lost *)
(* the identifier it had been delivered under.                             *)
(***************************************************************************)
EXTENDS QueueStore, FiniteSetTheorems, TLAPS

Holding == {"read", "identify", "offer", "write", "pass", "unlock"}

\* A user that works on a queue holds its lock, and knows what it does there.
LocksHold(u) ==
    /\ pc[u] # "idle" => op[u] # None
    /\ pc[u] \in Holding => lock[op[u].queue] = u

\* Between reading and writing, the file is as it was read.
CopyIsFile(u) ==
    pc[u] \in {"identify", "offer", "write"} =>
      /\ file[op[u].queue] # None /\ copy[u] = file[op[u].queue]
      /\ pc[u] # "write" => op[u].kind = "deliver"
      /\ pc[u] = "identify" => copy[u].id = 0
      /\ pc[u] = "offer" => copy[u].id # 0
      /\ op[u].kind \in {"take", "deliver"} => copy[u].items # << >>

\* An item is removed after its delivery only once its message is there.
DeliveredFirst(u) ==
    pc[u] = "write" /\ op[u].kind = "deliver" =>
      [id |-> copy[u].id, item |-> Head(copy[u].items)] \in messages

\* A call knows what it is for.
CallsMatch(u) ==
    pc[u] # "idle" =>
      /\ op[u].kind = "create" <=> pc[u] = "link"
      /\ pc[u] = "pass" => op[u].kind = "deliver"
      /\ op[u].kind # "push" => op[u].items = << >>
      /\ op[u].kind = "take" => op[u].count # 0
      /\ IsInjective(op[u].items)

\* What is being pushed is new ...
PushesAreNew(u) ==
    pc[u] \in {"lock", "read", "write"} => Range(op[u].items) \cap pushed = {}

Own(u) == LocksHold(u) /\ CopyIsFile(u) /\ DeliveredFirst(u) /\ CallsMatch(u) /\ PushesAreNew(u)

\* ... and nobody else pushes it.
PushesAreDisjoint ==
    \A u, v \in Users :
      u # v /\ op[u] # None /\ op[v] # None => Range(op[u].items) \cap Range(op[v].items) = {}

\* An item is at one place of one queue.
ItemsAreUnique ==
    /\ \A q \in Queues : file[q] # None =>
         /\ IsInjective(file[q].items) /\ Range(file[q].items) \subseteq pushed
         /\ file[q].id # 0 => file[q].items # << >>
    /\ \A p, q \in Queues : p # q /\ file[p] # None /\ file[q] # None =>
         Range(file[p].items) \cap Range(file[q].items) = {}

\* What was taken or delivered had been pushed, and is taken once at most.
ConsumedArePushed ==
    /\ \A m \in messages : m.item \in pushed
    /\ \A i \in Items : taken[i] # 0 => taken[i] = 1 /\ i \in pushed /\ ~Queued(i)

\* An item that is still queued after its delivery is the oldest one, under the
\* identifier of its message, where a retry finds it.
RetriesFindMessages ==
    \A i \in Items \ exposed, m \in messages, q \in Queues :
      m.item = i /\ file[q] # None /\ i \in Range(file[q].items) =>
        /\ i = Head(file[q].items) /\ m.id = file[q].id
        /\ \/ i \in torn
           \/ \E u \in Users : pc[u] = "write" /\ op[u].kind = "deliver" /\ op[u].queue = q

\* Items are delivered once, or taken.
DeliveredOnce ==
    \A i \in Items \ exposed, m, n \in messages :
      m.item = i /\ n.item = i => m = n /\ taken[i] = 0

\* The inductive invariant.
IInv ==
    /\ TypeOK /\ (\A u \in Users : Own(u)) /\ PushesAreDisjoint
    /\ ItemsAreUnique /\ ConsumedArePushed /\ RetriesFindMessages /\ DeliveredOnce /\ NoItemLost

-----------------------------------------------------------------------------
(* Sequences of items.                                                     *)

LEMMA ConcatFacts ==
  ASSUME NEW s \in Seq(Items), NEW t \in Seq(Items)
  PROVE  /\ s \o t \in Seq(Items) /\ Range(s \o t) = Range(s) \cup Range(t)
         /\ IsInjective(s) /\ IsInjective(t) /\ Range(s) \cap Range(t) = {} => IsInjective(s \o t)
         /\ s # << >> => s \o t # << >> /\ Head(s \o t) = Head(s)
  <1>1. s \o t \in Seq(Items) /\ DOMAIN (s \o t) = 1..(Len(s) + Len(t))
        /\ DOMAIN s = 1..Len(s) /\ DOMAIN t = 1..Len(t) /\ Len(s) \in Nat /\ Len(t) \in Nat
    OBVIOUS
  <1>2. \A i \in 1..(Len(s) + Len(t)) :
          (s \o t)[i] = IF i <= Len(s) THEN s[i] ELSE t[i - Len(s)]
    OBVIOUS
  <1> DEFINE c == s \o t
  <1>3. \A i \in DOMAIN s : i \in DOMAIN c /\ c[i] = s[i]
    BY <1>1, <1>2
  <1>4. \A i \in DOMAIN t : i + Len(s) \in DOMAIN c /\ c[i + Len(s)] = t[i]
    BY <1>1, <1>2
  <1>5. \A i \in DOMAIN c : \/ i \in DOMAIN s /\ c[i] = s[i]
                            \/ i - Len(s) \in DOMAIN t /\ c[i] = t[i - Len(s)]
    BY <1>1, <1>2
  <1>6. s # << >> => c # << >> /\ Head(c) = Head(s)
    <2> SUFFICES ASSUME s # << >> PROVE c # << >> /\ Head(c) = Head(s)
      OBVIOUS
    <2>1. 1 \in DOMAIN s
      BY <1>1
    <2> QED
      BY <1>1, <1>3, <2>1
  <1> HIDE DEF c
  <1>8. Range(c) = Range(s) \cup Range(t)
    BY <1>3, <1>4, <1>5 DEF Range
  <1>9. IsInjective(s) /\ IsInjective(t) /\ Range(s) \cap Range(t) = {} => IsInjective(c)
    <2> SUFFICES ASSUME IsInjective(s), IsInjective(t), Range(s) \cap Range(t) = {},
                        NEW i \in DOMAIN c, NEW j \in DOMAIN c, c[i] = c[j]
                 PROVE  i = j
      BY DEF IsInjective
    <2>1. i \in Int /\ j \in Int /\ Len(s) \in Int
      BY <1>1 DEF c
    <2>2. CASE i \in DOMAIN s /\ c[i] = s[i] /\ j \in DOMAIN s /\ c[j] = s[j]
      BY <2>2 DEF IsInjective
    <2>3. CASE /\ i - Len(s) \in DOMAIN t /\ c[i] = t[i - Len(s)]
               /\ j - Len(s) \in DOMAIN t /\ c[j] = t[j - Len(s)]
      <3>1. i - Len(s) = j - Len(s)
        BY <2>3 DEF IsInjective
      <3> QED
        BY <2>1, <3>1
    <2>4. ~(\E a \in DOMAIN s, b \in DOMAIN t : s[a] = t[b])
      BY DEF Range
    <2> QED
      BY <1>5, <2>2, <2>3, <2>4
  <1> QED
    BY <1>1, <1>6, <1>8, <1>9 DEF c

LEMMA ReverseFacts ==
  ASSUME NEW s \in Seq(Items)
  PROVE  /\ Reverse(s) \in Seq(Items) /\ Range(Reverse(s)) = Range(s)
         /\ IsInjective(s) => IsInjective(Reverse(s))
  <1>1. DOMAIN s = 1..Len(s) /\ Len(s) \in Nat /\ DOMAIN Reverse(s) = 1..Len(s)
    BY DEF Reverse
  <1>2. \A i \in 1..Len(s) : Len(s) - i + 1 \in 1..Len(s) /\ Reverse(s)[i] = s[Len(s) - i + 1]
    BY <1>1 DEF Reverse
  <1>3. Reverse(s) \in Seq(Items)
    BY <1>1, <1>2 DEF Reverse
  <1>4. \A i \in 1..Len(s) : s[i] = Reverse(s)[Len(s) - i + 1] /\ Len(s) - (Len(s) - i + 1) + 1 = i
    BY <1>1, <1>2
  <1>5. Range(Reverse(s)) = Range(s)
    BY <1>1, <1>2, <1>4 DEF Range
  <1>6. IsInjective(s) => IsInjective(Reverse(s))
    <2> SUFFICES ASSUME IsInjective(s), NEW i \in 1..Len(s), NEW j \in 1..Len(s),
    Reverse(s)[i] = Reverse(s)[j]
                 PROVE  i = j
      BY <1>1 DEF IsInjective
    <2>1. Len(s) - i + 1 = Len(s) - j + 1
      BY <1>1, <1>2 DEF IsInjective
    <2> QED
      BY <1>1, <2>1
  <1> QED
    BY <1>3, <1>5, <1>6

LEMMA SubSeqFacts ==
  ASSUME NEW s \in Seq(Items), NEW m \in 1..(Len(s) + 1), NEW n \in 0..Len(s)
  PROVE  /\ SubSeq(s, m, n) \in Seq(Items) /\ Range(SubSeq(s, m, n)) \subseteq Range(s)
         /\ IsInjective(s) => IsInjective(SubSeq(s, m, n))
         /\ m = 1 /\ n # 0 => SubSeq(s, m, n) # << >> /\ Head(SubSeq(s, m, n)) = Head(s)
  <1> DEFINE r == SubSeq(s, m, n)
  <1>1. /\ r \in Seq(Items) /\ Len(r) = (IF m <= n THEN n - m + 1 ELSE 0)
        /\ DOMAIN r = 1..Len(r) /\ DOMAIN s = 1..Len(s) /\ Len(s) \in Nat /\ Len(r) \in Nat
        /\ \A i \in 1..Len(r) : r[i] = s[m + i - 1]
    OBVIOUS
  <1>2. \A i \in DOMAIN r : m + i - 1 \in DOMAIN s /\ r[i] = s[m + i - 1]
    BY <1>1
  <1>3. m = 1 /\ n # 0 => r # << >> /\ Head(r) = Head(s)
    <2> SUFFICES ASSUME m = 1, n # 0 PROVE r # << >> /\ Head(r) = Head(s)
      OBVIOUS
    <2>1. Len(r) # 0 /\ 1 \in DOMAIN r /\ r[1] = s[1]
      BY <1>1
    <2> QED
      BY <1>1, <2>1
  <1> HIDE DEF r
  <1>4. Range(r) \subseteq Range(s)
    BY <1>2 DEF Range
  <1>5. ASSUME IsInjective(s), NEW i \in DOMAIN r, NEW j \in DOMAIN r, r[i] = r[j]
        PROVE  i = j
    <2>1. m + i - 1 = m + j - 1
      BY <1>2, <1>5 DEF IsInjective
    <2> QED
      BY <1>1, <2>1
  <1> QED
    BY <1>1, <1>3, <1>4, <1>5 DEF r, IsInjective

LEMMA TailFacts ==
  ASSUME NEW s \in Seq(Items), s # << >>
  PROVE  /\ Tail(s) \in Seq(Items) /\ Range(s) = {Head(s)} \cup Range(Tail(s)) /\ Head(s) \in Items
         /\ IsInjective(s) => IsInjective(Tail(s)) /\ Head(s) \notin Range(Tail(s))
  <1> DEFINE t == Tail(s)
  <1>1. /\ t \in Seq(Items) /\ Len(s) \in Nat /\ Len(s) # 0 /\ Len(t) = Len(s) - 1 /\ Head(s) = s[1]
        /\ DOMAIN s = 1..Len(s) /\ DOMAIN t = 1..Len(t) /\ Head(s) \in Items
        /\ \A i \in 1..Len(t) : t[i] = s[i + 1]
    OBVIOUS
  <1> HIDE DEF t
  <1>2. \A i \in DOMAIN t : i + 1 \in DOMAIN s /\ t[i] = s[i + 1] /\ i + 1 # 1
    BY <1>1
  <1>3. \A i \in DOMAIN s : i = 1 \/ (i - 1 \in DOMAIN t /\ t[i - 1] = s[i])
    BY <1>1
  <1>4. 1 \in DOMAIN s
    BY <1>1
  <1>5. Range(s) = {Head(s)} \cup Range(t)
    <2>1. \A i \in DOMAIN s : s[i] = Head(s) \/ s[i] \in Range(t)
      BY <1>1, <1>3 DEF Range
    <2>2. \A i \in DOMAIN t : t[i] \in Range(s)
      BY <1>2 DEF Range
    <2>3. Head(s) \in Range(s)
      BY <1>1, <1>4 DEF Range
    <2> QED
      BY <2>1, <2>2, <2>3 DEF Range
  <1>6. IsInjective(s) => Head(s) \notin Range(t)
    BY <1>1, <1>2, <1>4 DEF Range, IsInjective
  <1>7. ASSUME IsInjective(s), NEW i \in DOMAIN t, NEW j \in DOMAIN t, t[i] = t[j]
        PROVE  i = j
    <2>1. i + 1 = j + 1
      BY <1>2, <1>7 DEF IsInjective
    <2> QED
      BY <1>1, <2>1
  <1> QED
    BY <1>1, <1>5, <1>6, <1>7 DEF t, IsInjective

-----------------------------------------------------------------------------
(* What the operations make of a file.                                     *)

LEMMA PushFacts ==
  ASSUME NEW c \in Contents, NEW o \in Calls, IsInjective(c.items), IsInjective(o.items),
         Range(c.items) \cap Range(o.items) = {}, c.id # 0 => c.items # << >>
  PROVE  /\ Pushed(c, o) \in Contents /\ IsInjective(Pushed(c, o).items)
         /\ Range(Pushed(c, o).items) = Range(c.items) \cup Range(o.items)
         /\ Pushed(c, o).id # 0 => /\ Pushed(c, o).id = c.id /\ Pushed(c, o).items # << >>
                                   /\ Head(Pushed(c, o).items) = Head(c.items)
  <1>1. c.items \in Seq(Items) /\ o.items \in Seq(Items) /\ c.id \in 0..MaxIds /\ MaxIds \in Nat
    BY StoreAssumption DEF Contents, Calls
  <1>2. CASE o.back
    <2>1. PICK s \in Seq(Items) : s = c.items \o o.items
      BY <1>1, ConcatFacts
    <2>2. Pushed(c, o) \in Contents /\ Pushed(c, o).items = s /\ Pushed(c, o).id = c.id
      BY <1>2, <2>1 DEF Pushed, Contents
    <2>3. /\ IsInjective(s) /\ Range(s) = Range(c.items) \cup Range(o.items)
          /\ c.items # << >> => s # << >> /\ Head(s) = Head(c.items)
      BY <1>1, <2>1, ConcatFacts
    <2> QED
      BY <1>1, <2>2, <2>3
  <1>3. CASE ~o.back
    <2> DEFINE r == Reverse(o.items)
    <2>1. r \in Seq(Items) /\ Range(r) = Range(o.items) /\ IsInjective(r)
      BY <1>1, ReverseFacts
    <2>2. PICK s \in Seq(Items) : s = r \o c.items
      BY <1>1, <2>1, ConcatFacts
    <2>3. Pushed(c, o) \in Contents /\ Pushed(c, o).items = s /\ Pushed(c, o).id = 0
      <3>1. Pushed(c, o) = [c EXCEPT !.items = s, !.id = 0]
        BY <1>3, <2>2 DEF Pushed, Contents
      <3>2. 0 \in 0..MaxIds
        BY <1>1
      <3> QED
        BY <3>1, <3>2 DEF Contents
    <2>4. IsInjective(s) /\ Range(s) = Range(c.items) \cup Range(o.items)
      <3> HIDE DEF r
      <3> QED
        BY <1>1, <2>1, <2>2, ConcatFacts
    <2> QED
      BY <1>1, <2>3, <2>4
  <1> QED
    BY <1>2, <1>3

LEMMA RestFacts ==
  ASSUME NEW c \in Contents, NEW o \in Calls, IsInjective(c.items), o.count # 0
  PROVE  /\ Rest(c, o) \in Contents /\ IsInjective(Rest(c, o).items)
         /\ Range(Rest(c, o).items) \subseteq Range(c.items)
         /\ Rest(c, o).id # 0 => /\ Rest(c, o).id = c.id /\ Rest(c, o).items # << >>
                                 /\ Head(Rest(c, o).items) = Head(c.items)
  <1> DEFINE n == IF o.count < Len(c.items) THEN o.count ELSE Len(c.items)
             rest == IF o.back THEN SubSeq(c.items, 1, Len(c.items) - n)
                     ELSE SubSeq(c.items, n + 1, Len(c.items))
             id == IF o.back /\ rest # << >> THEN c.id ELSE 0
  <1>1. c.items \in Seq(Items) /\ c.id \in 0..MaxIds /\ MaxIds \in Nat /\ o.count \in 0..2
    BY StoreAssumption DEF Contents, Calls
  <1>2. n \in 0..Len(c.items) /\ Len(c.items) \in Nat
    BY <1>1
  <1> HIDE DEF n
  <1>3. /\ rest \in Seq(Items) /\ Range(rest) \subseteq Range(c.items) /\ IsInjective(rest)
        /\ o.back /\ rest # << >> => Head(rest) = Head(c.items)
    <2>1. CASE o.back
      <3>1. Len(c.items) - n \in 0..Len(c.items) /\ 1 \in 1..(Len(c.items) + 1)
        BY <1>2
      <3>2. Len(c.items) - n = 0 => SubSeq(c.items, 1, Len(c.items) - n) = << >>
        BY <1>1
      <3> QED
        BY <1>1, <2>1, <3>1, <3>2, SubSeqFacts
    <2>2. CASE ~o.back
      <3>1. n + 1 \in 1..(Len(c.items) + 1) /\ Len(c.items) \in 0..Len(c.items)
        BY <1>2
      <3> QED
        BY <1>1, <2>2, <3>1, SubSeqFacts
    <2> QED
      BY <2>1, <2>2
  <1>4. Rest(c, o) = [c EXCEPT !.items = rest, !.id = id]
    BY DEF Rest, Contents, n
  <1>5. PICK s \in Seq(Items) : s = rest
    BY <1>3
  <1>6. PICK i \in 0..MaxIds : i = id
    BY <1>1
  <1> HIDE DEF rest, id
  <1>7. Rest(c, o) = [c EXCEPT !.items = s, !.id = i]
    BY <1>4, <1>5, <1>6
  <1>8. Rest(c, o) \in Contents /\ Rest(c, o).items = s /\ Rest(c, o).id = i
    BY <1>7 DEF Contents
  <1> QED
    BY <1>3, <1>5, <1>6, <1>8 DEF id

\* What a publication may rely on.
Writes(c, o) ==
    /\ c \in Contents /\ o \in Calls /\ IsInjective(c.items) /\ IsInjective(o.items)
    /\ o.kind # "create"
    /\ o.kind # "push" => o.items = << >>
    /\ Range(c.items) \cap Range(o.items) = {}
    /\ c.id # 0 => c.items # << >>
    /\ o.kind = "take" => o.count # 0
    /\ o.kind = "deliver" => c.items # << >>

LEMMA ResultFacts ==
  ASSUME NEW c, NEW o, Writes(c, o)
  PROVE  /\ Result(c, o) \in Contents /\ IsInjective(Result(c, o).items)
         /\ Range(Result(c, o).items) \subseteq Range(c.items) \cup Range(o.items)
         /\ Range(o.items) \subseteq Range(Result(c, o).items)
         /\ o.kind \notin {"take", "deliver"} => Range(c.items) \subseteq Range(Result(c, o).items)
         /\ o.kind = "deliver" => /\ Result(c, o).id = 0
                                  /\ Range(c.items) = {Head(c.items)} \cup Range(Result(c, o).items)
                                  /\ Head(c.items) \notin Range(Result(c, o).items)
         /\ Result(c, o).id # 0 => /\ Result(c, o).id = c.id /\ Result(c, o).items # << >>
                                   /\ Head(Result(c, o).items) = Head(c.items)
  <1>1. c \in Contents /\ c.items \in Seq(Items) /\ c.id \in 0..MaxIds /\ MaxIds \in Nat /\ o \in Calls
    BY StoreAssumption DEF Writes, Contents
  <1>2. Range(<< >>) = {}
    BY DEF Range
  <1>3. CASE o.kind = "push"
    BY <1>1, <1>3, PushFacts DEF Result, Writes
  <1>4. CASE o.kind = "take"
    BY <1>1, <1>2, <1>4, RestFacts DEF Result, Writes
  <1>5. CASE o.kind \in {"monitor", "unmonitor"}
    <2>1. /\ Result(c, o) \in Contents
          /\ Result(c, o).items = c.items /\ Result(c, o).id = c.id
      BY <1>1, <1>5 DEF Result, Contents
    <2> QED
      BY <1>1, <1>2, <1>5, <2>1 DEF Writes
  <1>6. CASE o.kind = "deliver"
    <2>1. PICK s \in Seq(Items) : s = Tail(c.items)
      BY <1>1, <1>6, TailFacts DEF Writes
    <2>2. Result(c, o) = [c EXCEPT !.items = s, !.id = 0]
      BY <1>1, <1>6, <2>1 DEF Result, Contents
    <2>3. Result(c, o) \in Contents /\ Result(c, o).items = s /\ Result(c, o).id = 0
      <3>1. 0 \in 0..MaxIds
        BY <1>1
      <3> QED
        BY <1>1, <2>2, <3>1 DEF Contents
    <2> QED
      BY <1>1, <1>2, <1>6, <2>1, <2>3, TailFacts DEF Writes
  <1> QED
    BY <1>1, <1>3, <1>4, <1>5, <1>6 DEF Writes, Calls

-----------------------------------------------------------------------------
(* Types, and the calls that begin.                                        *)

LEMMA FirstIn ==
  ASSUME NEW qs \in SUBSET Queues, qs # {}
  PROVE  First(qs) \in qs
  BY StoreAssumption DEF First

LEMMA EmptyItems == << >> \in Seq(Items) /\ Range(<< >>) = {} /\ IsInjective(<< >>)
  BY DEF Range, IsInjective

LEMMA CallTypes ==
  ASSUME NEW q \in Queues, NEW k \in {"create", "push", "take", "monitor", "unmonitor", "deliver"}
  PROVE  Call(k, q) \in Calls /\ Call(k, q).kind = k /\ Call(k, q).items = << >>
  BY EmptyItems DEF Call, Calls

\* A call that begins: what it is and where it goes.
Begins(u, o) ==
    /\ Start(u, o) /\ o \in Calls
    /\ Goto(u, IF o.kind = "create" THEN "link" ELSE "lock")
    /\ o.kind # "push" => o.items = << >>
    /\ o.kind = "take" => o.count # 0
    /\ IsInjective(o.items) /\ Range(o.items) \cap pushed = {}
    /\ \A v \in Users : op[v] # None => Range(op[v].items) \cap Range(o.items) = {}
    /\ ahead' = ahead \/ \E qs \in SUBSET Queues : ahead' = [ahead EXCEPT ![u] = qs]

LEMMA BeginCases ==
  ASSUME NEW u \in Users,
         BeginCreate(u) \/ BeginPush(u) \/ BeginTake(u) \/ BeginMonitor(u) \/ BeginDeliver(u)
  PROVE  \E o \in Calls : Begins(u, o)
  <1> USE EmptyItems
  <1>1. ASSUME NEW o \in Calls, o.kind # "push", o.items = << >>, o.kind = "take" => o.count # 0,
               Start(u, o), Goto(u, IF o.kind = "create" THEN "link" ELSE "lock"),
               ahead' = ahead \/ \E qs \in SUBSET Queues : ahead' = [ahead EXCEPT ![u] = qs]
        PROVE  Begins(u, o)
    BY <1>1 DEF Begins
  <1>2. CASE BeginCreate(u)
    <2>1. PICK q \in Queues : Start(u, Call("create", q))
      BY <1>2 DEF BeginCreate
    <2> QED
      BY <1>1, <1>2, <2>1, CallTypes DEF BeginCreate
  <1>3. CASE BeginMonitor(u)
    <2>1. PICK q \in Queues, k \in {"monitor", "unmonitor"} : Start(u, Call(k, q))
      BY <1>3 DEF BeginMonitor
    <2> QED
      BY <1>1, <1>3, <2>1, CallTypes DEF BeginMonitor
  <1>4. CASE BeginDeliver(u)
    <2> DEFINE listed == {q \in Queues : file[q] # None}
    <2>1. /\ listed \in SUBSET Queues /\ listed \ {First(listed)} \in SUBSET Queues
          /\ First(listed) \in Queues
      BY <1>4, FirstIn DEF BeginDeliver
    <2>2. /\ Start(u, Call("deliver", First(listed))) /\ Goto(u, "lock")
          /\ ahead' = [ahead EXCEPT ![u] = listed \ {First(listed)}]
      BY <1>4 DEF BeginDeliver
    <2> HIDE DEF listed
    <2> QED
      BY <1>1, <2>1, <2>2, CallTypes
  <1>5. CASE BeginTake(u)
    <2>1. PICK q \in Queues, b \in BOOLEAN, n \in {1, 2} :
            Start(u, [Call("take", q) EXCEPT !.back = b, !.count = n])
      BY <1>5 DEF BeginTake
    <2> DEFINE o == [Call("take", q) EXCEPT !.back = b, !.count = n]
    <2>2. PICK c \in Calls : c = Call("take", q) /\ c.kind = "take" /\ c.items = << >>
      BY CallTypes
    <2>3. o \in Calls /\ o.kind = "take" /\ o.items = << >> /\ o.count = n
      <3>1. o = [c EXCEPT !.back = b, !.count = n]
        BY <2>2
      <3>2. n \in 0..2
        OBVIOUS
      <3> QED
        BY <2>2, <3>1, <3>2 DEF Calls
    <2>4. Start(u, o) /\ Goto(u, "lock") /\ ahead' = ahead
      BY <1>5, <2>1 DEF BeginTake
    <2> HIDE DEF o
    <2> QED
      BY <1>1, <2>3, <2>4
  <1>6. CASE BeginPush(u)
    <2>1. PICK q \in Queues, s \in BoundedSeq(Items \ pushed, 2), b \in BOOLEAN :
            /\ IsInjective(s) /\ \A v \in Users : op[v] # None => Range(op[v].items) \cap Range(s) = {}
            /\ Start(u, [Call("push", q) EXCEPT !.items = s, !.back = b])
      BY <1>6 DEF BeginPush
    <2>2. s \in Seq(Items) /\ Range(s) \cap pushed = {}
      <3>1. PICK m \in 0..2 : s \in [1..m -> Items \ pushed]
        BY DEF BoundedSeq, SeqOf
      <3> QED
        BY <3>1 DEF Range
    <2> DEFINE o == [Call("push", q) EXCEPT !.items = s, !.back = b]
    <2>3. o \in Calls /\ o.kind = "push" /\ o.items = s
      <3>1. PICK c \in Calls : c = Call("push", q) /\ c.kind = "push"
        BY CallTypes
      <3> QED
        BY <2>2, <3>1 DEF Calls
    <2>4. Start(u, o) /\ Goto(u, "lock") /\ ahead' = ahead
      BY <1>6, <2>1 DEF BeginPush
    <2> HIDE DEF o
    <2> QED
      BY <2>1, <2>2, <2>3, <2>4 DEF Begins
  <1> QED
    BY <1>2, <1>3, <1>4, <1>5, <1>6

\* Who writes has read what it replaces.
LEMMA WriterFacts ==
  ASSUME IInv, NEW u \in Users, pc[u] = "write"
  PROVE  /\ Writes(copy[u], op[u]) /\ op[u].queue \in Queues /\ lock[op[u].queue] = u
         /\ file[op[u].queue] # None /\ copy[u] = file[op[u].queue]
  <1>1. op[u] # None /\ op[u] \in Calls /\ op[u].queue \in Queues /\ lock[op[u].queue] = u
    BY DEF IInv, Own, LocksHold, TypeOK, Holding, Calls
  <1>2. file[op[u].queue] # None /\ copy[u] = file[op[u].queue] /\ copy[u] \in Contents
    BY <1>1 DEF IInv, Own, CopyIsFile, TypeOK
  <1>3. Range(copy[u].items) \cap Range(op[u].items) = {}
    BY <1>1, <1>2 DEF IInv, Own, ItemsAreUnique, PushesAreNew
  <1> QED
    BY <1>1, <1>2, <1>3 DEF IInv, Own, CopyIsFile, ItemsAreUnique, CallsMatch, Writes

LEMMA TypesStep ==
  ASSUME IInv, Next
  PROVE  TypeOK'
  <1> USE StoreAssumption DEF durable, past, Goto
  <1>0. TypeOK
    BY DEF IInv
  <1>1. ASSUME NEW u \in Users, NEW o \in Calls, Begins(u, o) PROVE TypeOK'
    <2>1. ahead' \in [Users -> SUBSET Queues]
      BY <1>0, <1>1 DEF Begins, TypeOK
    <2> QED
      BY <1>0, <1>1, <2>1 DEF Begins, Start, TypeOK
  <1>2. ASSUME NEW u \in Users, Link(u) PROVE TypeOK'
    <2>1. Empty \in Contents /\ op[u] \in Calls
      BY <1>0, <1>2, EmptyItems DEF Empty, Contents, Link, IInv, Own, LocksHold, TypeOK
    <2> QED
      BY <1>0, <1>2, <2>1 DEF Link, Leave, TypeOK
  <1>3. ASSUME NEW u \in Users, Lock(u) \/ GiveUp(u) \/ Unlock(u) PROVE TypeOK'
    BY <1>0, <1>3, SMTT(20) DEF Lock, GiveUp, Unlock, Leave, TypeOK
  <1>4. ASSUME NEW u \in Users, Read(u) PROVE TypeOK'
    <2>1. op[u] \in Calls /\ op[u].queue \in Queues
      BY <1>0, <1>4 DEF Read, IInv, Own, LocksHold, TypeOK, Calls
    <2>2. copy' \in [Users -> Contents \cup {None}]
      BY <1>0, <1>4, <2>1 DEF Read, TypeOK
    <2> QED
      BY <1>0, <1>4, <2>2 DEF Read, TypeOK, Goto
  <1>5. ASSUME NEW u \in Users, Identify(u) PROVE TypeOK'
    <2>1. copy[u] \in Contents /\ op[u] \in Calls
      BY <1>0, <1>5 DEF Identify, IInv, Own, CopyIsFile, LocksHold, TypeOK, Calls
    <2>2. CASE ToUnlock(u) /\ UNCHANGED <<file, minted>>
      BY <1>0, <1>5, <2>2 DEF Identify, ToUnlock, TypeOK
    <2>3. CASE minted < MaxIds /\ copy' = [copy EXCEPT ![u].id = minted + 1]
      <3>1. [copy[u] EXCEPT !.id = minted + 1] \in Contents
        <4>1. PICK c \in Contents, n \in 0..MaxIds : c = copy[u] /\ n = minted + 1
          BY <1>0, <2>1, <2>3 DEF TypeOK
        <4> QED
          BY <4>1 DEF Contents
      <3>2. copy' = [copy EXCEPT ![u] = [copy[u] EXCEPT !.id = minted + 1]]
        BY <2>3
      <3>3. copy' \in [Users -> Contents \cup {None}] /\ copy'[u] \in Contents
        BY <1>0, <3>1, <3>2 DEF TypeOK
      <3> QED
        BY <1>0, <1>5, <2>3, <3>3 DEF Identify, ToUnlock, TypeOK
    <2> QED
      BY <1>5, <2>2, <2>3 DEF Identify
  <1>6. ASSUME NEW u \in Users, Offer(u) PROVE TypeOK'
    <2>1. /\ op[u] # None /\ op[u].queue \in Queues /\ file[op[u].queue] # None
          /\ copy[u] = file[op[u].queue] /\ copy[u].items # << >>
          /\ copy[u] \in Contents
      BY <1>0, <1>6 DEF Offer, IInv, Own, CopyIsFile, LocksHold, TypeOK, Calls
    <2>2. Head(copy[u].items) \in Items /\ copy[u].id \in 1..MaxIds
      BY <1>0, <1>6, <2>1, TailFacts DEF Offer, IInv, Own, CopyIsFile, TypeOK, Contents
    <2> QED
      BY <1>0, <1>6, <2>2, SMTT(20) DEF Offer, ToUnlock, TypeOK
  <1>7. ASSUME NEW u \in Users, Publish(u) PROVE TypeOK'
    <2>1. pc[u] = "write"
      BY <1>7 DEF Publish
    <2>2. /\ Result(copy[u], op[u]) \in Contents /\ op[u] \in Calls
      BY <2>1, WriterFacts, ResultFacts DEF Writes
    <2>3. Range(op[u].items) \subseteq Items
      BY <2>2 DEF Calls, Range
    <2>4. file' \in [Queues -> Contents \cup {None}] /\ pushed' \subseteq Items
      BY <1>0, <1>7, <2>2, <2>3 DEF Publish, TypeOK
    <2>5. taken' \in [Items -> Nat]
      <3>1. PICK gone : taken' = [i \in Items |-> taken[i] + (IF i \in gone THEN 1 ELSE 0)]
        BY <1>7 DEF Publish
      <3> QED
        BY <1>0, <3>1 DEF TypeOK
    <2>6. exposed' \subseteq Items
      BY <1>0, <1>7 DEF Publish, Exposes, TypeOK
    <2> QED
      BY <1>0, <1>7, <2>4, <2>5, <2>6 DEF Publish, ToUnlock, TypeOK
  <1>8. ASSUME NEW u \in Users, PublishFails(u) PROVE TypeOK'
    <2>1. /\ op[u] # None /\ copy[u] \in Contents
          /\ op[u].kind = "deliver" => copy[u].items # << >>
      BY <1>0, <1>8 DEF PublishFails, IInv, Own, CopyIsFile, LocksHold, TypeOK, Calls
    <2>2. op[u].kind = "deliver" => Head(copy[u].items) \in Items
      BY <2>1, TailFacts DEF Contents
    <2> QED
      BY <1>0, <1>8, <2>2 DEF PublishFails, ToUnlock, TypeOK
  <1>9. ASSUME NEW u \in Users, PassOver(u) PROVE TypeOK'
    <2>1. CASE ahead[u] = {}
      <3>1. lock' \in [Queues -> Users \cup {None, Orphan}]
        BY <1>0, <1>9 DEF PassOver, TypeOK
      <3>2. Leave(u) /\ UNCHANGED <<file, messages, minted, crashes, past>>
        BY <1>9, <2>1 DEF PassOver
      <3> QED
        BY <1>0, <3>1, <3>2 DEF Leave, TypeOK
    <2>2. CASE ahead[u] # {}
      <3>1. First(ahead[u]) \in Queues /\ op[u] \in Calls
        BY <1>0, <1>9, <2>2, FirstIn DEF PassOver, TypeOK, IInv, Own, LocksHold
      <3>2. [op[u] EXCEPT !.queue = First(ahead[u])] \in Calls
        BY <3>1 DEF Calls
      <3>3. op' = [op EXCEPT ![u] = [op[u] EXCEPT !.queue = First(ahead[u])]]
        BY <1>9, <2>2 DEF PassOver
      <3>4. op' \in [Users -> Calls \cup {None}]
        BY <1>0, <3>2, <3>3 DEF TypeOK
      <3>5. lock' \in [Queues -> Users \cup {None, Orphan}]
        BY <1>0, <1>9 DEF PassOver, TypeOK
      <3>6. ahead' \in [Users -> SUBSET Queues]
        <4>1. ahead[u] \ {First(ahead[u])} \in SUBSET Queues
          BY <1>0 DEF TypeOK
        <4>2. ahead' = [ahead EXCEPT ![u] = ahead[u] \ {First(ahead[u])}]
          BY <1>9, <2>2 DEF PassOver
        <4> QED
          BY <1>0, <4>1, <4>2 DEF TypeOK
      <3> QED
        BY <1>0, <1>9, <2>2, <3>4, <3>5, <3>6 DEF PassOver, TypeOK
    <2> QED
      BY <2>1, <2>2
  <1>10. ASSUME NEW s \in Stores, Crash(s) PROVE TypeOK'
    <2>1. torn' \subseteq Items
      <3>1. ASSUME NEW u \in Users, op[u] # None, op[u].kind = "deliver", pc[u] = "write"
            PROVE  Head(copy[u].items) \in Items
        <4>1. Writes(copy[u], op[u])
          BY <3>1, WriterFacts
        <4>2. copy[u].items \in Seq(Items) /\ copy[u].items # << >>
          BY <3>1, <4>1 DEF Writes, Contents
        <4> QED
          BY <4>2, TailFacts
      <3> QED
        BY <1>0, <1>10, <3>1 DEF Crash, TypeOK
    <2>2. crashes' \in 0..MaxCrashes
      BY <1>0, <1>10 DEF Crash, TypeOK
    <2> QED
      BY <1>0, <1>10, <2>1, <2>2 DEF Crash, TypeOK
  <1> QED
    BY <1>1, <1>2, <1>3, <1>4, <1>5, <1>6, <1>7, <1>8, <1>9, <1>10, BeginCases DEF Next

-----------------------------------------------------------------------------
(* What a step leaves alone.                                               *)

\* Nobody touches what another user relies on.
LEMMA OthersKeep ==
  ASSUME IInv, NEW u \in Users, NEW v \in Users \ {u}, pc'[v] = pc[v], op'[v] = op[v],
         copy'[v] = copy[v],
         \A q \in Queues : lock[q] = v => lock'[q] = v /\ (file[q] # None => file'[q] = file[q]),
         messages \subseteq messages',
         pushed' \subseteq pushed \cup (IF op[u] # None THEN Range(op[u].items) ELSE {})
  PROVE  Own(v)'
  <1>1. pc[v] # "idle" => op[v] \in Calls /\ op[v].queue \in Queues
    BY DEF IInv, Own, LocksHold, TypeOK, Calls
  <1>2. LocksHold(v)' /\ CopyIsFile(v)'
    BY <1>1 DEF IInv, Own, LocksHold, CopyIsFile, Holding
  <1>3. DeliveredFirst(v)' /\ CallsMatch(v)'
    BY DEF IInv, Own, DeliveredFirst, CallsMatch
  <1>4. PushesAreNew(v)'
    <2>1. op[u] # None /\ op[v] # None => Range(op[u].items) \cap Range(op[v].items) = {}
      BY DEF IInv, PushesAreDisjoint
    <2> QED
      BY <2>1 DEF IInv, Own, LocksHold, PushesAreNew
  <1> QED
    BY <1>2, <1>3, <1>4 DEF Own

LEMMA DisjointKeep ==
  ASSUME IInv, NEW u \in Users, \A v \in Users \ {u} : op'[v] = op[v],
         op'[u] = None \/ (op[u] # None /\ op'[u].items = op[u].items)
  PROVE  PushesAreDisjoint'
  BY DEF IInv, PushesAreDisjoint

\* A user that is done.
LEMMA IdleOwns ==
  ASSUME NEW u \in Users, pc'[u] = "idle"
  PROVE  Own(u)'
  BY DEF Own, LocksHold, CopyIsFile, DeliveredFirst, CallsMatch, PushesAreNew, Holding

\* A user that only has to unlock its queue.
LEMMA UnlockingOwns ==
  ASSUME IInv, NEW u \in Users, pc[u] \in Holding, pc'[u] = "unlock", op' = op, lock' = lock
  PROVE  Own(u)'
  BY DEF IInv, Own, LocksHold, CopyIsFile, DeliveredFirst, CallsMatch, PushesAreNew, Holding

Store ==
    ItemsAreUnique /\ ConsumedArePushed /\ RetriesFindMessages /\ DeliveredOnce /\ NoItemLost

\* A step that changes no file and no message, and marks the items whose delivery
\* it breaks off.
LEMMA StoreKeeps ==
  ASSUME IInv, UNCHANGED <<file, messages, pushed, taken, exposed>>, torn \subseteq torn',
         \A u \in Users : pc[u] = "write" /\ op[u].kind = "deliver" =>
           \/ pc'[u] = "write" /\ op'[u] = op[u]
           \/ Head(file[op[u].queue].items) \in torn'
  PROVE  Store'
  <1>1. ItemsAreUnique' /\ NoItemLost'
    BY DEF IInv, ItemsAreUnique, NoItemLost, Queued, Messages
  <1>2. ConsumedArePushed' /\ DeliveredOnce'
    BY DEF IInv, ConsumedArePushed, DeliveredOnce, Queued
  <1>3. RetriesFindMessages'
    BY DEF IInv, RetriesFindMessages
  <1> QED
    BY <1>1, <1>2, <1>3 DEF Store

\* A step of u that touches no file and no message.
LEMMA QuietStep ==
  ASSUME IInv, NEW u \in Users, UNCHANGED <<file, messages, past>>,
         \A v \in Users \ {u} : pc'[v] = pc[v] /\ op'[v] = op[v] /\ copy'[v] = copy[v],
         \A q \in Queues : lock[q] # u /\ lock[q] # None => lock'[q] = lock[q],
         pc[u] = "write" => op[u].kind # "deliver",
         TypeOK', Own(u)', PushesAreDisjoint'
  PROVE  IInv'
  <1>1. \A v \in Users \ {u} : Own(v)'
    <2>1. \A v \in Users \ {u} : v # None /\ v # u
      BY StoreAssumption
    <2>2. UNCHANGED <<file, messages, pushed>>
      BY DEF past
    <2> QED
      BY <2>1, <2>2, OthersKeep
  <1>2. Store'
    <2>1. UNCHANGED <<file, messages, pushed, taken, exposed, torn>>
      BY DEF past
    <2> QED
      BY <2>1, StoreKeeps
  <1> QED
    BY <1>1, <1>2 DEF IInv, Store

LEMMA QuietStepsKeep ==
  ASSUME IInv, TypeOK', NEW u \in Users,
         \/ \E o \in Calls : Begins(u, o)
         \/ Lock(u) \/ GiveUp(u) \/ Unlock(u) \/ Read(u) \/ PassOver(u)
  PROVE  IInv'
  <1> USE DEF durable
  <1>0. TypeOK /\ Own(u) /\ u # None
    BY StoreAssumption DEF IInv
  <1>1. ASSUME NEW o \in Calls, Begins(u, o) PROVE IInv'
    <2>1. /\ pc[u] = "idle" /\ pc'[u] \in {"link", "lock"} /\ (pc'[u] = "link" <=> o.kind = "create")
          /\ op'[u] = o /\ o # None
          /\ \A v \in Users \ {u} : pc'[v] = pc[v] /\ op'[v] = op[v] /\ copy'[v] = copy[v]
          /\ UNCHANGED <<file, lock, messages, past>> /\ pushed' = pushed
      BY <1>0, <1>1, StoreAssumption DEF Begins, Start, Goto, TypeOK, past
    <2>2. Own(u)'
      BY <1>1, <2>1 DEF Begins, Own, LocksHold, CopyIsFile, DeliveredFirst, CallsMatch,
         PushesAreNew, Holding
    <2>3. PushesAreDisjoint'
      BY <1>1, <2>1 DEF Begins, IInv, PushesAreDisjoint
    <2> QED
      BY <2>1, <2>2, <2>3, QuietStep
  <1>2. CASE Lock(u)
    <2>1. /\ pc[u] = "lock" /\ pc'[u] = "read" /\ op' = op /\ copy' = copy
          /\ \A v \in Users \ {u} : pc'[v] = pc[v]
          /\ lock[op[u].queue] = None /\ lock' = [lock EXCEPT ![op[u].queue] = u]
          /\ UNCHANGED <<file, messages, past>> /\ pushed' = pushed
      BY <1>0, <1>2 DEF Lock, Goto, TypeOK, past
    <2>2. op[u] # None /\ op[u].queue \in Queues
      BY <1>0, <2>1 DEF Own, LocksHold, TypeOK, Calls
    <2>3. Own(u)'
      BY <1>0, <2>1, <2>2 DEF Own, LocksHold, CopyIsFile, DeliveredFirst, CallsMatch, PushesAreNew,
         Holding, TypeOK
    <2>4. PushesAreDisjoint'
      BY <2>1, <2>2, DisjointKeep
    <2> QED
      BY <1>0, <2>1, <2>2, <2>3, <2>4, QuietStep DEF TypeOK
  <1>3. ASSUME Leave(u), UNCHANGED <<file, messages, past>>, pc[u] # "write",
               lock' = lock \/ (lock[op[u].queue] = u /\ lock' = [lock EXCEPT ![op[u].queue] = None])
        PROVE  IInv'
    <2>1. /\ pc'[u] = "idle" /\ op'[u] = None
          /\ \A v \in Users \ {u} : pc'[v] = pc[v] /\ op'[v] = op[v] /\ copy'[v] = copy[v]
      BY <1>0, <1>3 DEF Leave, TypeOK
    <2>2. Own(u)' /\ PushesAreDisjoint'
      BY <2>1, IdleOwns, DisjointKeep
    <2> QED
      BY <1>0, <1>3, <2>1, <2>2, QuietStep DEF TypeOK
  <1>4. CASE GiveUp(u) \/ Unlock(u)
    BY <1>0, <1>3, <1>4 DEF GiveUp, Unlock, Own, LocksHold, Holding
  <1>5. CASE Read(u)
    <2>1. /\ pc[u] = "read" /\ op' = op /\ lock' = lock
          /\ \A v \in Users \ {u} : pc'[v] = pc[v] /\ copy'[v] = copy[v]
          /\ UNCHANGED <<file, messages, past>> /\ pushed' = pushed
      BY <1>0, <1>5 DEF Read, Goto, TypeOK, past
    <2>2. /\ pc'[u] \in {"write", "identify", "offer", "pass", "unlock"}
          /\ pc'[u] = "pass" => op[u].kind = "deliver"
          /\ pc'[u] \notin {"pass", "unlock"} =>
               /\ file[op[u].queue] # None /\ copy'[u] = file[op[u].queue]
               /\ op[u].kind \in {"take", "deliver"} => copy'[u].items # << >>
               /\ pc'[u] = "write" <=> op[u].kind # "deliver"
               /\ pc'[u] = "identify" => copy'[u].id = 0
               /\ pc'[u] = "offer" => copy'[u].id # 0
      BY <1>0, <1>5 DEF Read, Goto, TypeOK
    <2>3. Own(u)'
      BY <1>0, <2>1, <2>2 DEF Own, LocksHold, CopyIsFile, DeliveredFirst, CallsMatch,
         PushesAreNew, Holding
    <2>4. PushesAreDisjoint'
      BY <1>0, <2>1, DisjointKeep DEF Own, LocksHold
    <2> QED
      BY <2>1, <2>3, <2>4, QuietStep
  <1>6. CASE PassOver(u)
    <2>1. pc[u] = "pass" /\ lock[op[u].queue] = u /\ op[u] # None /\ op[u].queue \in Queues
      BY <1>0, <1>6 DEF PassOver, Own, LocksHold, Holding, TypeOK, Calls
    <2>2. CASE ahead[u] = {}
      BY <1>3, <1>6, <2>1, <2>2 DEF PassOver
    <2>3. CASE ahead[u] # {}
      <3>1. op[u] \in Calls /\ \E q \in Queues : op' = [op EXCEPT ![u] = [op[u] EXCEPT !.queue = q]]
        BY <1>0, <1>6, <2>1, <2>3, FirstIn DEF PassOver, TypeOK
      <3>2. PICK q \in Queues : op' = [op EXCEPT ![u] = [op[u] EXCEPT !.queue = q]]
        BY <3>1
      <3>3. /\ op'[u].kind = op[u].kind /\ op'[u].items = op[u].items /\ op'[u].count = op[u].count
            /\ op'[u] \in Calls
        BY <1>0, <3>1, <3>2 DEF Calls, TypeOK
      <3>4. /\ pc'[u] = "lock" /\ lock' = [lock EXCEPT ![op[u].queue] = None]
            /\ \A v \in Users \ {u} : pc'[v] = pc[v] /\ op'[v] = op[v] /\ copy'[v] = copy[v]
            /\ UNCHANGED <<file, messages, past>> /\ pushed' = pushed
        BY <1>0, <1>6, <2>3, <3>2 DEF PassOver, Goto, TypeOK, past
      <3>5. op'[u] # None /\ op[u].kind = "deliver" /\ op[u].items = << >>
        BY <1>0, <2>1, <3>3, StoreAssumption DEF Own, CallsMatch
      <3>6. Own(u)'
        BY <3>3, <3>4, <3>5, EmptyItems DEF Own, LocksHold, CopyIsFile, DeliveredFirst, CallsMatch,
           PushesAreNew, Holding
      <3>7. PushesAreDisjoint'
        BY <2>1, <3>3, <3>4, DisjointKeep
      <3> QED
        BY <1>0, <2>1, <3>4, <3>6, <3>7, QuietStep DEF TypeOK
    <2> QED
      BY <2>2, <2>3
  <1> QED
    BY <1>1, <1>2, <1>4, <1>5, <1>6

-----------------------------------------------------------------------------
(* The steps that change a file or a message.                              *)

\* A queue gets new metadata, with no delivered item in it.
LEMMA StoreKeepsItems ==
  ASSUME IInv, UNCHANGED <<messages, pushed, taken, torn, exposed>>, NEW q \in Queues,
         NEW c \in Contents,
         file' = [file EXCEPT ![q] = c],
         c.items = IF file[q] = None THEN << >> ELSE file[q].items, c.id # 0 => c.items # << >>,
         \A m \in messages : m.item \in Range(c.items) => m.item \in exposed,
         \A u \in Users : pc[u] = "write" => pc'[u] = "write" /\ op'[u] = op[u]
  PROVE  Store'
  <1>1. /\ file'[q] = c /\ c # None /\ (\A p \in Queues \ {q} : file'[p] = file[p])
        /\ file[q] = None => Range(c.items) = {} /\ IsInjective(c.items)
        /\ file[q] # None => c.items = file[q].items
    BY StoreAssumption, EmptyItems DEF IInv, TypeOK
  <1>2. \A i : Queued(i)' <=> Queued(i)
    BY <1>1 DEF Queued
  <1>3. ItemsAreUnique'
    <2>1. \A p \in Queues : file'[p] # None =>
            /\ IsInjective(file'[p].items) /\ Range(file'[p].items) \subseteq pushed'
            /\ file'[p].id # 0 => file'[p].items # << >>
      BY <1>1 DEF IInv, ItemsAreUnique
    <2>2. \A p, r \in Queues : p # r /\ file'[p] # None /\ file'[r] # None =>
            Range(file'[p].items) \cap Range(file'[r].items) = {}
      BY <1>1 DEF IInv, ItemsAreUnique
    <2> QED
      BY <2>1, <2>2 DEF ItemsAreUnique
  <1>4. ConsumedArePushed' /\ DeliveredOnce'
    BY <1>2 DEF IInv, ConsumedArePushed, DeliveredOnce
  <1>5. NoItemLost'
    BY <1>2 DEF IInv, NoItemLost, Messages
  <1>6. RetriesFindMessages'
    BY <1>1 DEF IInv, RetriesFindMessages
  <1> QED
    BY <1>3, <1>4, <1>5, <1>6 DEF Store

LEMMA LinkStep ==
  ASSUME IInv, TypeOK', NEW u \in Users, Link(u)
  PROVE  IInv'
  <1>0. TypeOK /\ Own(u) /\ u # None
    BY StoreAssumption DEF IInv
  <1>1. pc[u] = "link" /\ op[u] # None /\ op[u].queue \in Queues
    BY <1>0 DEF Link, Own, LocksHold, TypeOK, Calls
  <1>2. /\ pc'[u] = "idle" /\ op'[u] = None
        /\ \A v \in Users \ {u} : pc'[v] = pc[v] /\ op'[v] = op[v] /\ copy'[v] = copy[v]
        /\ UNCHANGED <<lock, messages, pushed, taken, torn, exposed>>
        /\ file' = [file EXCEPT ![op[u].queue] = IF @ = None THEN Empty ELSE @]
    BY <1>0 DEF Link, Leave, TypeOK, past
  <1>3. Own(u)' /\ PushesAreDisjoint'
    BY <1>2, IdleOwns, DisjointKeep
  <1>4. \A v \in Users \ {u} : Own(v)'
    <2>1. \A p \in Queues : file[p] # None => file'[p] = file[p]
      BY <1>0, <1>1, <1>2 DEF TypeOK
    <2> QED
      BY <1>2, <2>1, OthersKeep
  <1>5. Store'
    <2>1. CASE file[op[u].queue] = None
      <3>1. Empty \in Contents /\ Empty.items = << >> /\ Empty.id = 0
        BY StoreAssumption, EmptyItems DEF Empty, Contents
      <3>2. file' = [file EXCEPT ![op[u].queue] = Empty]
        BY <1>2, <2>1
      <3>3. \A v \in Users : pc[v] = "write" => pc'[v] = "write" /\ op'[v] = op[v]
        BY <1>1, <1>2
      <3> QED
        BY <1>1, <1>2, <2>1, <3>1, <3>2, <3>3, EmptyItems, StoreKeepsItems
    <2>2. CASE file[op[u].queue] # None
      <3>1. file' = file
        BY <1>0, <1>2, <2>2 DEF TypeOK
      <3> QED
        BY <1>1, <1>2, <3>1, StoreKeeps
    <2> QED
      BY <2>1, <2>2
  <1> QED
    BY <1>3, <1>4, <1>5 DEF IInv, Store

\* A call that is broken off before it writes.
LEMMA BrokenOff ==
  ASSUME IInv, TypeOK', NEW u \in Users, pc[u] \in {"identify", "offer"}, ToUnlock(u),
         UNCHANGED <<durable, op, past>>
  PROVE  IInv'
  <1>1. /\ pc'[u] = "unlock" /\ op' = op /\ lock' = lock
        /\ \A v \in Users \ {u} : pc'[v] = pc[v] /\ copy'[v] = copy[v]
        /\ UNCHANGED <<file, messages, past>>
    BY DEF IInv, TypeOK, ToUnlock, Goto, durable
  <1>2. Own(u)'
    BY <1>1, UnlockingOwns DEF Holding
  <1>3. PushesAreDisjoint'
    BY <1>1 DEF IInv, PushesAreDisjoint
  <1> QED
    BY <1>1, <1>2, <1>3, QuietStep

LEMMA IdentifyStep ==
  ASSUME IInv, TypeOK', NEW u \in Users, Identify(u)
  PROVE  IInv'
  <1>0. TypeOK /\ Own(u) /\ u # None /\ pc[u] = "identify"
    BY StoreAssumption DEF IInv, Identify
  <1>1. /\ op[u] # None /\ op[u] \in Calls /\ op[u].queue \in Queues /\ lock[op[u].queue] = u
        /\ file[op[u].queue] # None /\ copy[u] = file[op[u].queue] /\ copy[u] \in Contents
        /\ copy[u].id = 0 /\ copy[u].items # << >> /\ op[u].kind = "deliver"
    BY <1>0 DEF Own, LocksHold, CopyIsFile, Holding, TypeOK, Calls
  <1>2. CASE ToUnlock(u) /\ UNCHANGED <<file, minted>>
    BY <1>0, <1>2, BrokenOff DEF Identify, durable
  <1>3. CASE /\ minted < MaxIds /\ copy' = [copy EXCEPT ![u].id = minted + 1]
             /\ file' = [file EXCEPT ![op[u].queue] = copy'[u]] /\ Goto(u, "offer")
    <2>1. PICK n \in 1..MaxIds : n = minted + 1
      BY <1>0, <1>3, StoreAssumption DEF TypeOK
    <2>2. PICK c \in Contents : c = [copy[u] EXCEPT !.id = n]
      <3>1. PICK d \in Contents, k \in 0..MaxIds : d = copy[u] /\ k = n
        BY <1>1, <2>1, StoreAssumption
      <3> QED
        BY <3>1 DEF Contents
    <2>3. c.items = copy[u].items /\ c.id = n /\ c # None /\ n # 0
      BY <1>1, <2>1, <2>2, StoreAssumption DEF Contents
    <2>4. /\ copy'[u] = c /\ file' = [file EXCEPT ![op[u].queue] = c] /\ file'[op[u].queue] = c
          /\ pc'[u] = "offer" /\ op' = op /\ lock' = lock
          /\ \A v \in Users \ {u} : pc'[v] = pc[v] /\ copy'[v] = copy[v]
          /\ UNCHANGED <<messages, pushed, taken, torn, exposed>>
      BY <1>0, <1>1, <1>3, <2>1, <2>2 DEF Identify, Goto, TypeOK, past
    <2>5. Own(u)'
      BY <1>0, <1>1, <2>3, <2>4 DEF Own, LocksHold, CopyIsFile, DeliveredFirst, CallsMatch,
         PushesAreNew, Holding
    <2>6. \A v \in Users \ {u} : Own(v)'
      <3>1. ASSUME NEW v \in Users \ {u}, NEW p \in Queues, lock[p] = v PROVE file'[p] = file[p]
        BY <1>0, <1>1, <2>4, <3>1 DEF TypeOK
      <3> QED
        BY <2>4, <3>1, OthersKeep
    <2>7. PushesAreDisjoint'
      BY <2>4 DEF IInv, PushesAreDisjoint
    <2>8. Store'
      <3>1. \A m \in messages : m.item \in Range(c.items) => m.item \in exposed
        <4>1. \A m \in messages : m.id \in 1..MaxIds /\ m.item \in Items
          BY <1>0 DEF TypeOK
        <4>2. \A m \in messages : m.id # 0
          BY <4>1, StoreAssumption
        <4> QED
          BY <1>1, <2>3, <4>1, <4>2 DEF IInv, RetriesFindMessages
      <3>2. \A v \in Users : pc[v] = "write" => pc'[v] = "write" /\ op'[v] = op[v]
        BY <1>0, <2>4
      <3>3. c.items = (IF file[op[u].queue] = None THEN << >> ELSE file[op[u].queue].items) /\ c.items # << >>
        BY <1>1, <2>3
      <3> QED
        BY <1>1, <2>4, <3>1, <3>2, <3>3, StoreKeepsItems
    <2> QED
      BY <2>5, <2>6, <2>7, <2>8 DEF IInv, Store
  <1> QED
    BY <1>2, <1>3 DEF Identify

LEMMA OfferStep ==
  ASSUME IInv, TypeOK', NEW u \in Users, Offer(u)
  PROVE  IInv'
  <1>0. TypeOK /\ Own(u) /\ u # None /\ pc[u] = "offer"
    BY StoreAssumption DEF IInv, Offer
  <1> DEFINE q == op[u].queue
             c == copy[u]
             item == Head(c.items)
             new == [id |-> c.id, item |-> item]
  <1>1. /\ op[u] # None /\ op[u] \in Calls /\ q \in Queues /\ lock[q] = u
        /\ file[q] # None /\ c = file[q] /\ c \in Contents
        /\ c.id # 0 /\ c.items # << >> /\ op[u].kind = "deliver"
    BY <1>0 DEF Own, LocksHold, CopyIsFile, Holding, TypeOK, Calls
  <1>2. CASE ToUnlock(u) /\ UNCHANGED messages
    BY <1>0, <1>2, BrokenOff DEF Offer, durable
  <1>3. CASE messages' = messages \cup {new} /\ Goto(u, "write") /\ UNCHANGED copy
    <2>1. /\ pc'[u] = "write" /\ op' = op /\ lock' = lock /\ copy' = copy /\ file' = file
          /\ \A v \in Users \ {u} : pc'[v] = pc[v]
          /\ UNCHANGED <<pushed, taken, torn, exposed>>
      BY <1>0, <1>3 DEF Offer, Goto, TypeOK, past
    <2>2. item \in Items /\ item \in Range(file[q].items)
      BY <1>1, TailFacts DEF Contents
    <2>3. new.id = file[q].id /\ new.item = item /\ item = Head(file[q].items)
      BY <1>1
    <2>4. Own(u)'
      <3>1. DeliveredFirst(u)'
        BY <1>3, <2>1 DEF DeliveredFirst
      <3>2. LocksHold(u)' /\ CopyIsFile(u)'
        BY <1>0, <1>1, <2>1 DEF Own, LocksHold, CopyIsFile, Holding
      <3>3. CallsMatch(u)' /\ PushesAreNew(u)'
        BY <1>0, <1>1, <2>1, EmptyItems DEF Own, CallsMatch, PushesAreNew
      <3> QED
        BY <3>1, <3>2, <3>3 DEF Own
    <2>5. (\A v \in Users \ {u} : Own(v)') /\ PushesAreDisjoint'
      BY <1>3, <2>1, OthersKeep DEF IInv, PushesAreDisjoint
    <2>6. ItemsAreUnique' /\ NoItemLost' /\ (\A i : Queued(i)' <=> Queued(i))
      BY <1>3, <2>1 DEF IInv, ItemsAreUnique, NoItemLost, Messages, Queued
    <2>7. item \in pushed /\ Queued(item) /\ taken[item] = 0
      BY <1>1, <2>2 DEF IInv, ItemsAreUnique, ConsumedArePushed, Queued
    <2>8. ConsumedArePushed'
      BY <1>3, <2>1, <2>3, <2>6, <2>7 DEF IInv, ConsumedArePushed
    <2>9. RetriesFindMessages'
      <3>1. SUFFICES ASSUME NEW i \in Items \ exposed, NEW m \in messages', NEW p \in Queues,
                            m.item = i, file[p] # None, i \in Range(file[p].items)
                     PROVE  /\ i = Head(file[p].items) /\ m.id = file[p].id
                            /\ i \in torn \/ \E v \in Users :
                                 pc'[v] = "write" /\ op[v].kind = "deliver" /\ op[v].queue = p
        BY <2>1 DEF RetriesFindMessages
      <3>2. CASE m \in messages
        BY <1>0, <2>1, <3>1, <3>2 DEF IInv, RetriesFindMessages
      <3>3. CASE m = new
        <4>1. i = item /\ p = q
          BY <1>1, <2>2, <2>3, <3>1, <3>3 DEF IInv, ItemsAreUnique
        <4> QED
          BY <1>1, <2>1, <2>3, <3>3, <4>1
      <3> QED
        BY <1>3, <3>2, <3>3
    <2>10. DeliveredOnce'
      <3>1. ASSUME item \notin exposed, NEW m \in messages, m.item = item PROVE m = new
        <4>1. m.id = file[q].id
          BY <1>1, <2>2, <3>1 DEF IInv, RetriesFindMessages
        <4>2. m \in [id : 1..MaxIds, item : Items]
          BY <1>0 DEF TypeOK
        <4> QED
          BY <1>1, <3>1, <4>1, <4>2
      <3> QED
        BY <1>3, <2>1, <2>3, <2>7, <3>1 DEF IInv, DeliveredOnce
    <2> QED
      BY <2>4, <2>5, <2>6, <2>8, <2>9, <2>10 DEF IInv
  <1> QED
    BY <1>2, <1>3 DEF Offer

LEMMA PublishStep ==
  ASSUME IInv, TypeOK', NEW u \in Users, Publish(u)
  PROVE  IInv'
  <1> DEFINE q == op[u].queue
             c == copy[u]
             o == op[u]
             new == Result(c, o)
             gone == IF o.kind = "take" THEN Range(c.items) \ Range(new.items) ELSE {}
  <1>0. TypeOK /\ Own(u) /\ u # None /\ pc[u] = "write" /\ u \in Users
    BY StoreAssumption DEF IInv, Publish
  <1>1. /\ Writes(c, o) /\ q \in Queues /\ lock[q] = u /\ file[q] # None /\ c = file[q] /\ o # None
        /\ c \in Contents /\ (c.items # << >> => Head(c.items) \in Range(c.items))
    <2>1. /\ Writes(c, o) /\ q \in Queues /\ lock[q] = u /\ file[q] # None /\ c = file[q]
          /\ c \in Contents /\ c.items \in Seq(Items) /\ o # None
      BY <1>0, WriterFacts DEF Writes, Contents, Own, LocksHold
    <2>2. c.items # << >> => Head(c.items) \in Range(c.items)
      BY <2>1, TailFacts
    <2> QED
      BY <2>1, <2>2
  <1>2. /\ new \in Contents /\ IsInjective(new.items) /\ new # None
        /\ Range(new.items) \subseteq Range(c.items) \cup Range(o.items)
        /\ Range(o.items) \subseteq Range(new.items)
        /\ o.kind \notin {"take", "deliver"} => Range(c.items) \subseteq Range(new.items)
        /\ o.kind = "deliver" => /\ Range(c.items) = {Head(c.items)} \cup Range(new.items)
                                 /\ Head(c.items) \notin Range(new.items)
        /\ new.id # 0 => /\ new.id = c.id /\ new.items # << >> /\ Head(new.items) = Head(c.items)
                         /\ Head(new.items) \in Range(new.items)
    <2>1. new \in Contents /\ new # None /\ new.items \in Seq(Items)
      BY <1>1, ResultFacts, StoreAssumption DEF Contents
    <2>2. new.items # << >> => Head(new.items) \in Range(new.items)
      BY <2>1, TailFacts
    <2> QED
      BY <1>1, <2>1, <2>2, ResultFacts
  <1>3. /\ pc'[u] = "unlock" /\ op' = op /\ lock' = lock /\ messages' = messages /\ torn' = torn
        /\ \A v \in Users \ {u} : pc'[v] = pc[v] /\ copy'[v] = copy[v]
        /\ pushed' = pushed \cup Range(o.items) /\ exposed' = exposed \cup Exposes(u)
        /\ file'[q] = new /\ (\A p \in Queues \ {q} : file'[p] = file[p])
        /\ \A i \in Items : taken'[i] = taken[i] + (IF i \in gone THEN 1 ELSE 0)
    BY <1>0, <1>1 DEF Publish, ToUnlock, Goto, TypeOK
  <1>4. /\ Range(c.items) \subseteq pushed /\ Range(o.items) \cap pushed = {} /\ pushed \subseteq Items
        /\ \A p \in Queues \ {q} : file[p] # None =>
             Range(file[p].items) \cap Range(c.items) = {} /\ Range(file[p].items) \subseteq pushed
    BY <1>0, <1>1 DEF IInv, ItemsAreUnique, Own, PushesAreNew, TypeOK
  <1>5. Own(u)' /\ PushesAreDisjoint'
    BY <1>0, <1>3, UnlockingOwns DEF Holding, IInv, PushesAreDisjoint
  <1>6. \A v \in Users \ {u} : Own(v)'
    <2>1. ASSUME NEW v \in Users \ {u}, NEW p \in Queues, lock[p] = v PROVE file'[p] = file[p]
      BY <1>1, <1>3, <2>1
    <2> QED
      BY <1>1, <1>3, <2>1, OthersKeep
  <1> HIDE DEF new
  <1>7. ItemsAreUnique'
    <2>1. \A p \in Queues : file'[p] # None =>
            /\ IsInjective(file'[p].items) /\ Range(file'[p].items) \subseteq pushed'
            /\ file'[p].id # 0 => file'[p].items # << >>
      BY <1>1, <1>2, <1>3, <1>4 DEF IInv, ItemsAreUnique
    <2>2. \A p, r \in Queues : p # r /\ file'[p] # None /\ file'[r] # None =>
            Range(file'[p].items) \cap Range(file'[r].items) = {}
      <3>1. \A p \in Queues \ {q} : file[p] # None => Range(file[p].items) \cap Range(new.items) = {}
        BY <1>2, <1>4
      <3>2. \A p, r \in Queues : p # r /\ file[p] # None /\ file[r] # None =>
              Range(file[p].items) \cap Range(file[r].items) = {}
        BY DEF IInv, ItemsAreUnique
      <3>3. file'[q] = new /\ (\A p \in Queues \ {q} : file'[p] = file[p])
        BY <1>3
      <3> QED
        BY ONLY <3>1, <3>2, <3>3
    <2> QED
      BY <2>1, <2>2 DEF ItemsAreUnique
  \* An old item that is queued now was queued before, at the same place or at q.
  <1>8. \A i \in pushed, p \in Queues : file'[p] # None /\ i \in Range(file'[p].items) =>
          file[p] # None /\ i \in Range(file[p].items)
    BY <1>1, <1>2, <1>3, <1>4
  <1>9. ConsumedArePushed'
    <2>1. \A i \in pushed : Queued(i)' => Queued(i)
      BY <1>8 DEF Queued
    <2>2. ASSUME NEW i \in Items, taken'[i] # 0 PROVE taken'[i] = 1 /\ i \in pushed /\ ~Queued(i)'
      <3>1. CASE taken[i] # 0
        <4>1. taken[i] = 1 /\ i \in pushed /\ ~Queued(i)
          BY <3>1 DEF IInv, ConsumedArePushed
        <4>2. i \notin Range(c.items)
          BY <1>1, <4>1 DEF Queued
        <4> QED
          BY <1>3, <2>1, <4>1, <4>2
      <3>2. CASE taken[i] = 0
        <4>1. i \in gone
          BY <1>3, <2>2, <3>2
        <4>2. i \in Range(c.items) /\ i \notin Range(new.items)
          BY <4>1
        <4>3. ~Queued(i)'
          BY <1>3, <1>4, <4>2 DEF Queued
        <4> QED
          BY <1>3, <1>4, <3>2, <4>1, <4>2, <4>3
      <3> QED
        BY <3>1, <3>2
    <2> QED
      BY <1>3, <2>2 DEF IInv, ConsumedArePushed
  \* An item of q that has a message stays under its identifier, or is exposed.
  <1>10. ASSUME NEW i \in Items \ exposed', NEW m \in messages, m.item = i, i \in Range(c.items)
         PROVE  /\ i = Head(c.items) /\ m.id = c.id /\ c.id # 0
                /\ o.kind # "deliver" => i \in torn /\ new.id # 0
    <2>1. /\ i \in Items \ exposed /\ i = Head(c.items) /\ m.id = c.id
          /\ i \in torn \/ \E v \in Users : pc[v] = "write" /\ op[v].kind = "deliver" /\ op[v].queue = q
      BY <1>1, <1>3, <1>10 DEF IInv, RetriesFindMessages
    <2>2. m.id # 0
      <3>1. m \in [id : 1..MaxIds, item : Items]
        BY <1>0 DEF TypeOK
      <3> QED
        BY <3>1, StoreAssumption
    <2>3. o.kind # "deliver" => i \in torn
      BY <1>0, <1>1, <2>1, WriterFacts
    <2>4. o.kind # "deliver" /\ i \in torn => new.id # 0
      BY <1>3, <1>10, <2>1, <2>2 DEF Exposes, new
    <2> QED
      BY <2>1, <2>2, <2>3, <2>4
  <1>11. RetriesFindMessages'
    <2>1. SUFFICES ASSUME NEW i \in Items \ exposed', NEW m \in messages, NEW p \in Queues,
                          m.item = i, file'[p] # None, i \in Range(file'[p].items)
                   PROVE  /\ i = Head(file'[p].items) /\ m.id = file'[p].id
                          /\ i \in torn \/ \E v \in Users :
                               pc'[v] = "write" /\ op[v].kind = "deliver" /\ op[v].queue = p
      BY <1>3 DEF RetriesFindMessages
    <2>2. i \in pushed /\ i \in Items \ exposed
      BY <1>3, <2>1 DEF IInv, ConsumedArePushed
    <2>3. file[p] # None /\ i \in Range(file[p].items)
      BY <1>8, <2>1, <2>2
    <2>4. CASE p # q
      BY <1>3, <2>1, <2>2, <2>3, <2>4 DEF IInv, RetriesFindMessages
    <2>5. CASE p = q
      <3>1. i \in Range(c.items) /\ i \in Range(new.items)
        BY <1>1, <1>3, <2>1, <2>3, <2>5
      <3>2. i = Head(c.items) /\ m.id = c.id /\ (o.kind # "deliver" => i \in torn /\ new.id # 0)
        BY <1>10, <2>1, <3>1
      <3>3. o.kind # "deliver"
        BY <1>2, <3>1, <3>2
      <3> QED
        BY <1>2, <1>3, <2>5, <3>2, <3>3
    <2> QED
      BY <2>4, <2>5
  <1>12. DeliveredOnce'
    <2>1. SUFFICES ASSUME NEW i \in Items \ exposed', NEW m \in messages, NEW n \in messages,
                          m.item = i, n.item = i
                   PROVE  m = n /\ taken'[i] = 0
      BY <1>3 DEF DeliveredOnce
    <2>2. m = n /\ taken[i] = 0
      BY <1>3, <2>1 DEF IInv, DeliveredOnce
    <2>3. i \notin gone
      <3>1. SUFFICES ASSUME o.kind = "take", i \in Range(c.items), i \notin Range(new.items)
                     PROVE  FALSE
        OBVIOUS
      <3>2. i = Head(c.items) /\ new.id # 0
        BY <1>10, <2>1, <3>1
      <3> QED
        BY <1>2, <3>1, <3>2
    <2> QED
      BY <1>3, <2>2, <2>3
  <1>13. NoItemLost'
    <2>1. SUFFICES ASSUME NEW i \in pushed' PROVE Queued(i)' \/ taken'[i] > 0 \/ \E m \in messages : m.item = i
      BY <1>3 DEF NoItemLost, Messages
    <2>2. CASE i \in Range(o.items)
      BY <1>1, <1>2, <1>3, <2>2 DEF Queued
    <2>3. CASE i \in pushed
      <3>1. i \in Items /\ taken[i] \in Nat
        BY <1>0, <1>4, <2>3 DEF TypeOK
      <3>2. CASE i \in Range(c.items)
        <4>1. CASE i \in Range(new.items)
          BY <1>1, <1>2, <1>3, <4>1 DEF Queued
        <4>2. CASE i \notin Range(new.items) /\ o.kind = "take"
          BY <1>3, <3>1, <3>2, <4>2
        <4>3. CASE i \notin Range(new.items) /\ o.kind # "take"
          <5>1. o.kind = "deliver" /\ i = Head(c.items)
            BY <1>2, <3>2, <4>3
          <5>2. [id |-> c.id, item |-> i] \in messages
            BY <1>0, <5>1 DEF Own, DeliveredFirst
          <5> QED
            BY <5>2
        <4> QED
          BY <4>1, <4>2, <4>3
      <3>3. CASE i \notin Range(c.items)
        <4>1. Queued(i) => Queued(i)'
          BY <1>1, <1>3, <3>3 DEF Queued
        <4>2. taken[i] > 0 => taken'[i] > 0
          BY <1>3, <3>1
        <4> QED
          BY <2>3, <4>1, <4>2 DEF IInv, NoItemLost, Messages
      <3> QED
        BY <3>2, <3>3
    <2> QED
      BY <1>3, <2>1, <2>2, <2>3
  <1> QED
    BY <1>5, <1>6, <1>7, <1>9, <1>11, <1>12, <1>13 DEF IInv

\* The oldest item of a delivery that is broken off is marked.
LEMMA PublishFailsStep ==
  ASSUME IInv, TypeOK', NEW u \in Users, PublishFails(u)
  PROVE  IInv'
  <1>0. TypeOK /\ Own(u) /\ pc[u] = "write"
    BY DEF IInv, PublishFails
  <1>1. /\ pc'[u] = "unlock" /\ op' = op
        /\ \A v \in Users \ {u} : pc'[v] = pc[v] /\ copy'[v] = copy[v]
        /\ UNCHANGED <<file, lock, messages, pushed, taken, exposed>>
        /\ torn' = IF op[u].kind = "deliver" THEN torn \cup {Head(copy[u].items)} ELSE torn
    BY <1>0 DEF PublishFails, ToUnlock, Goto, TypeOK, durable
  <1>2. Own(u)' /\ PushesAreDisjoint'
    BY <1>0, <1>1, UnlockingOwns DEF Holding, IInv, PushesAreDisjoint
  <1>3. \A v \in Users \ {u} : Own(v)'
    BY <1>1, OthersKeep
  <1>4. Store'
    <2>1. copy[u] = file[op[u].queue]
      BY <1>0, WriterFacts
    <2>2. \A v \in Users : pc[v] = "write" /\ op[v].kind = "deliver" =>
            \/ pc'[v] = "write" /\ op'[v] = op[v]
            \/ Head(file[op[v].queue].items) \in torn'
      BY <1>1, <2>1
    <2>3. torn \subseteq torn'
      BY <1>1
    <2> QED
      BY <1>1, <2>2, <2>3, StoreKeeps
  <1> QED
    BY <1>2, <1>3, <1>4 DEF IInv, Store

LEMMA CrashStep ==
  ASSUME IInv, TypeOK', NEW s \in Stores, Crash(s)
  PROVE  IInv'
  <1> DEFINE gone == {v \in Users : StoreOf[v] = s}
             torn1 == {Head(copy[v].items) : v \in
                         {w \in gone : op[w] # None /\ op[w].kind = "deliver" /\ pc[w] = "write"}}
  <1>0. TypeOK
    BY DEF IInv
  <1>1. /\ \A v \in gone : pc'[v] = "idle" /\ op'[v] = None
        /\ \A v \in Users \ gone : pc'[v] = pc[v] /\ op'[v] = op[v] /\ copy'[v] = copy[v]
        /\ \A q \in Queues : lock[q] \notin gone => lock'[q] = lock[q]
        /\ torn' = torn \cup torn1 /\ UNCHANGED <<file, messages, pushed, taken, exposed>>
    BY DEF Crash
  <1>2. PICK u \in gone : pc[u] # "idle"
    BY DEF Crash
  <1> HIDE DEF gone
  <1>3. u \in Users
    BY DEF gone
  <1>4. \A v \in Users : Own(v)'
    <2>1. ASSUME NEW v \in Users, v \in gone PROVE Own(v)'
      BY <1>1, <2>1, IdleOwns
    <2>2. ASSUME NEW v \in Users, v \notin gone PROVE Own(v)'
      <3>1. v \in Users \ {u}
        BY <1>2, <2>2
      <3>2. pc'[v] = pc[v] /\ op'[v] = op[v] /\ copy'[v] = copy[v]
        BY <1>1, <2>2
      <3>3. \A q \in Queues : lock[q] = v => lock'[q] = v /\ (file[q] # None => file'[q] = file[q])
        BY <1>1, <2>2
      <3> QED
        BY <1>1, <1>3, <3>1, <3>2, <3>3, OthersKeep
    <2> QED
      BY <2>1, <2>2
  <1>5. PushesAreDisjoint'
    BY <1>1 DEF IInv, PushesAreDisjoint
  <1>6. Store'
    <2>1. ASSUME NEW v \in Users, pc[v] = "write", op[v].kind = "deliver"
          PROVE  \/ pc'[v] = "write" /\ op'[v] = op[v]
                 \/ Head(file[op[v].queue].items) \in torn'
      <3>1. op[v] # None /\ copy[v] = file[op[v].queue]
        BY <2>1, WriterFacts DEF IInv, Own, LocksHold
      <3>2. v \in gone => Head(copy[v].items) \in torn1
        BY <2>1, <3>1
      <3> QED
        BY <1>1, <2>1, <3>1, <3>2
    <2> QED
      BY <1>1, <2>1, StoreKeeps
  <1> QED
    BY <1>0, <1>4, <1>5, <1>6 DEF IInv, Store

-----------------------------------------------------------------------------
(* The theorems.                                                           *)

LEMMA InitHolds == Init => IInv
  <1> SUFFICES ASSUME Init PROVE IInv
    OBVIOUS
  <1>1. TypeOK
    BY StoreAssumption DEF Init, TypeOK
  <1>2. \A u \in Users : Own(u)
    BY DEF Init, Own, LocksHold, CopyIsFile, DeliveredFirst, CallsMatch, PushesAreNew, Holding
  <1>3. PushesAreDisjoint /\ NoItemLost
    BY DEF Init, PushesAreDisjoint, NoItemLost
  <1>4. ItemsAreUnique /\ ConsumedArePushed /\ RetriesFindMessages /\ DeliveredOnce
    BY DEF Init, ItemsAreUnique, ConsumedArePushed, RetriesFindMessages, DeliveredOnce
  <1> QED
    BY <1>1, <1>2, <1>3, <1>4 DEF IInv

LEMMA StepKeeps == IInv /\ [Next]_vars => IInv'
  <1>1. ASSUME IInv, UNCHANGED vars PROVE IInv'
    <2>1. UNCHANGED <<file, lock, messages, mu, pc, op, copy, ahead, minted, crashes,
                      pushed, taken, torn, exposed>>
      BY <1>1 DEF vars, durable, local, past
    <2>2. TypeOK' /\ (\A u \in Users : Own(u)') /\ PushesAreDisjoint'
      BY <1>1, <2>1 DEF IInv, TypeOK, PushesAreDisjoint, Own, LocksHold, CopyIsFile, DeliveredFirst,
         CallsMatch, PushesAreNew
    <2>3. Store'
      BY <1>1, <2>1, StoreKeeps
    <2> QED
      BY <2>2, <2>3 DEF IInv, Store
  <1>2. ASSUME IInv, Next PROVE IInv'
    <2>1. TypeOK'
      BY <1>2, TypesStep
    <2>2. CASE \E u \in Users : BeginCreate(u) \/ BeginPush(u) \/ BeginTake(u) \/ BeginMonitor(u)
                                  \/ BeginDeliver(u)
      BY <1>2, <2>1, <2>2, BeginCases, QuietStepsKeep
    <2>3. CASE \E u \in Users : Lock(u) \/ GiveUp(u) \/ Unlock(u) \/ Read(u) \/ PassOver(u)
      BY <1>2, <2>1, <2>3, QuietStepsKeep
    <2>4. CASE \E u \in Users : Link(u) \/ Identify(u) \/ Offer(u) \/ Publish(u) \/ PublishFails(u)
      BY <1>2, <2>1, <2>4, LinkStep, IdentifyStep, OfferStep, PublishStep, PublishFailsStep
    <2>5. CASE \E s \in Stores : Crash(s)
      BY <1>2, <2>1, <2>5, CrashStep
    <2> QED
      BY <1>2, <2>2, <2>3, <2>4, <2>5 DEF Next
  <1> QED
    BY <1>1, <1>2

\* Every state the stores can be in satisfies the invariant: who works on a queue
\* holds its lock, its copy is the file, and a delivered item that is still
\* queued is found again under the identifier of its message (Store.modify,
\* DeliverMonitored).
THEOREM StoresAgree == Spec => []IInv
  BY InitHolds, StepKeeps, PTL DEF Spec

\* An item that was pushed is queued, taken or delivered, and it is consumed once
\* unless it lost its identifier, whatever the stores do at the same time and
\* whoever crashes (Store.Push, Take, DeliverMonitored).
THEOREM ItemsAreAccounted == Spec => []ItemsAccounted
  <1>1. IInv => ItemsAccounted
    <2>1. SUFFICES ASSUME IInv, NEW i \in Items \ exposed
                   PROVE  taken[i] + Cardinality(Messages(i)) <= 1
      BY DEF IInv, ItemsAccounted, ConsumedOnce
    <2>2. taken[i] = 0 \/ taken[i] = 1
      BY <2>1 DEF IInv, ConsumedArePushed
    <2>3. CASE Messages(i) = {}
      BY <2>2, <2>3, FS_EmptySet
    <2>4. CASE Messages(i) # {}
      <3>1. PICK m \in messages : m.item = i
        BY <2>4 DEF Messages
      <3>2. Messages(i) = {m} /\ taken[i] = 0
        BY <2>1, <3>1 DEF IInv, DeliveredOnce, Messages
      <3>3. Cardinality({m}) = 1
        BY FS_Singleton
      <3> QED
        BY <3>2, <3>3
    <2> QED
      BY <2>3, <2>4
  <1> QED
    BY <1>1, StoresAgree, PTL
=============================================================================
