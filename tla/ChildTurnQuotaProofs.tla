------------------------ MODULE ChildTurnQuotaProofs ------------------------
(***************************************************************************)
(* Proofs about ChildTurnQuota for every session tree and every limit.     *)
(***************************************************************************)
EXTENDS ChildTurnQuota, FiniteSetTheorems, SequenceTheorems, TLAPS

\* The types of the variables; that a count is never negative follows from
\* Conservation.
Types ==
    /\ used \in [Pools -> Int]
    /\ waiters \in [Pools -> Seq(Children)]
    /\ held \in [Children -> SUBSET Pools]
    /\ pc \in [Children -> Places]
    /\ cancelled \in [Children -> BOOLEAN]
    /\ awaiting \in [Children -> SUBSET Children]
    /\ closed \in BOOLEAN

\* The queues hold exactly the attempts that wait and were not handed a permit,
\* each once: what release and the cancelled branch of acquire rely on.
QueueOK ==
    /\ \A p \in Pools : \A i \in 1..Len(waiters[p]) :
         LET w == waiters[p][i]
         IN  pc[w] \in Waits /\ WaitPool(w) = p /\ p \notin held[w]
    /\ \A p \in Pools : \A i, j \in 1..Len(waiters[p]) :
         waiters[p][i] = waiters[p][j] => i = j
    /\ \A c \in Children :
         pc[c] \in Waits /\ WaitPool(c) \notin held[c] => Queued(WaitPool(c), c)

\* The inductive invariant.
IInv == Types /\ PermitsMatchPlace /\ QueueOK /\ Conservation /\ NoIdlePermit

-----------------------------------------------------------------------------

\* The limits of both kinds of pool are positive naturals.
LEMMA LimitType == \A p \in Pools : Limit(p) \in Nat \ {0}
  BY QuotaAssumption DEF Limit

\* The holders of a permit are finitely many, whatever held says.
LEMMA HoldersFinite ==
  \A p : IsFiniteSet(Holders(p)) /\ Cardinality(Holders(p)) \in Nat
  <1> TAKE p
  <1>1. Holders(p) \in SUBSET Children
    BY DEF Holders
  <1> QED
    BY <1>1, QuotaAssumption, FS_Subset, FS_CardinalityType

\* Removing position i of a sequence shifts the elements behind it.
LEMMA RemoveAtShifts ==
  ASSUME NEW S, NEW s \in Seq(S), NEW i \in 1..Len(s)
  PROVE  /\ RemoveAt(s, i) \in Seq(S)
         /\ Len(RemoveAt(s, i)) = Len(s) - 1
         /\ \A j \in 1..(Len(s) - 1) :
              RemoveAt(s, i)[j] = IF j < i THEN s[j] ELSE s[j + 1]
  <1> DEFINE a == SubSeq(s, 1, i - 1)
             b == SubSeq(s, i + 1, Len(s))
  <1>1. a \in Seq(S) /\ Len(a) = i - 1 /\ \A j \in 1..(i - 1) : a[j] = s[j]
    OBVIOUS
  <1>2. /\ b \in Seq(S) /\ Len(b) = Len(s) - i
        /\ \A j \in 1..(Len(s) - i) : b[j] = s[i + j]
    OBVIOUS
  <1>3. RemoveAt(s, i) = a \o b
    BY DEF RemoveAt
  <1> HIDE DEF a, b
  <1>4. /\ a \o b \in Seq(S) /\ Len(a \o b) = Len(a) + Len(b)
        /\ \A j \in 1..(Len(a) + Len(b)) :
             (a \o b)[j] = IF j <= Len(a) THEN a[j] ELSE b[j - Len(a)]
    BY <1>1, <1>2, ConcatProperties
  <1>5. ASSUME NEW j \in 1..(Len(s) - 1), ~(j < i)
        PROVE  b[j - (i - 1)] = s[j + 1]
    <2>1. j - (i - 1) \in 1..(Len(s) - i) /\ i + (j - (i - 1)) = j + 1
      BY <1>5
    <2> QED
      BY <2>1, <1>2
  <1> QED
    BY <1>1, <1>2, <1>3, <1>4, <1>5

-----------------------------------------------------------------------------
(* What one semaphore operation preserves.                                 *)

SemOK == QueueOK /\ Conservation /\ NoIdlePermit

\* The queues stay right in a step that leaves them and every waiting attempt
\* alone.
LEMMA QueueKept ==
  ASSUME IInv, waiters' = waiters,
         \A d \in Children : pc[d] \in Waits \/ pc'[d] \in Waits
                               => pc'[d] = pc[d] /\ held'[d] = held[d]
  PROVE  QueueOK'
  <1>1. ASSUME NEW q \in Pools, NEW i \in 1..Len(waiters'[q])
        PROVE  (/\ pc[waiters[q][i]] \in Waits
                /\ WaitPool(waiters[q][i]) = q
                /\ q \notin held[waiters[q][i]])'
    <2>1. i \in 1..Len(waiters[q]) /\ waiters[q] \in Seq(Children)
      BY <1>1 DEF IInv, Types
    <2>2. PICK v \in Children : v = waiters[q][i]
      BY <2>1
    <2>3. pc[v] \in Waits /\ WaitPool(v) = q /\ q \notin held[v]
      BY <2>1, <2>2 DEF IInv, QueueOK
    <2>4. pc'[v] = pc[v] /\ held'[v] = held[v] /\ waiters'[q][i] = v
      BY <2>2, <2>3
    <2> QED
      BY <2>3, <2>4 DEF WaitPool
  <1>2. ASSUME NEW d \in Children, pc'[d] \in Waits, WaitPool(d)' \notin held'[d]
        PROVE  Queued(WaitPool(d), d)'
    <2>1. pc'[d] = pc[d] /\ held'[d] = held[d]
      BY <1>2
    <2>2. WaitPool(d)' = WaitPool(d)
      BY <2>1 DEF WaitPool
    <2>3. Queued(WaitPool(d), d)
      BY <1>2, <2>1, <2>2 DEF IInv, QueueOK
    <2> QED
      BY <2>2, <2>3 DEF Queued
  <1>3. \A q \in Pools : \A i, j \in 1..Len(waiters'[q]) :
          waiters'[q][i] = waiters'[q][j] => i = j
    BY DEF IInv, QueueOK
  <1> QED
    BY <1>1, <1>2, <1>3 DEF QueueOK

\* An attempt that takes a free permit is counted once.
LEMMA TakePreserves ==
  ASSUME IInv, NEW p \in Pools, NEW c \in Children, NEW x \in Places \ Waits,
         Take(p, c), Goto(c, x), pc[c] \notin Waits, p \notin held[c]
  PROVE  SemOK'
  <1> USE DEF IInv, Types, Take, Goto, Available
  <1>1. QueueOK'
    BY QueueKept
  <1>2. Conservation'
    <2> SUFFICES ASSUME NEW q \in Pools
                 PROVE  (used[q] = Cardinality(Holders(q)) /\ used[q] <= Limit(q))'
      BY DEF Conservation
    <2>1. CASE q = p
      <3>1. Holders(p)' = Holders(p) \cup {c} /\ c \notin Holders(p)
        BY DEF Holders
      <3>2. Cardinality(Holders(p)') = Cardinality(Holders(p)) + 1
        BY <3>1, HoldersFinite, FS_AddElement
      <3> QED
        BY <2>1, <3>2, LimitType DEF Conservation, Limit
    <2>2. CASE q # p
      <3>1. Holders(q)' = Holders(q)
        BY <2>2 DEF Holders
      <3> QED
        BY <2>2, <3>1 DEF Conservation, Limit
    <2> QED
      BY <2>1, <2>2
  <1>3. NoIdlePermit'
    BY DEF NoIdlePermit, Limit
  <1> QED
    BY <1>1, <1>2, <1>3 DEF SemOK

\* A released permit goes to the first waiter or back to the semaphore.
LEMMA ReleasePreserves ==
  ASSUME IInv, NEW p \in Pools, NEW c \in Children, NEW x \in Places \ Waits,
         Release(p, c), Goto(c, x), pc[c] \notin Waits, p \in held[c]
  PROVE  SemOK' /\ Types!2' /\ Types!3'
  <1> USE DEF IInv, Types, Goto
  <1>1. CASE waiters[p] = << >>
    <2> USE <1>1 DEF Release
    <2>1. QueueOK'
      BY QueueKept
    <2>2. Conservation'
      <3> SUFFICES ASSUME NEW q \in Pools
                   PROVE  (used[q] = Cardinality(Holders(q)) /\ used[q] <= Limit(q))'
        BY DEF Conservation
      <3>1. CASE q = p
        <4>1. Holders(p)' = Holders(p) \ {c} /\ c \in Holders(p)
          BY DEF Holders
        <4>2. Cardinality(Holders(p)') = Cardinality(Holders(p)) - 1
          BY <4>1, HoldersFinite, FS_RemoveElement
        <4> QED
          BY <3>1, <4>2, LimitType DEF Conservation, Limit
      <3>2. CASE q # p
        <4>1. Holders(q)' = Holders(q)
          BY <3>2 DEF Holders
        <4> QED
          BY <3>2, <4>1 DEF Conservation, Limit
      <3> QED
        BY <3>1, <3>2
    <2>3. NoIdlePermit'
      BY DEF NoIdlePermit, Limit
    <2> QED
      BY <2>1, <2>2, <2>3 DEF SemOK
  <1>2. CASE waiters[p] # << >>
    <2> DEFINE w == Head(waiters[p])
    <2>1. /\ waiters' = [waiters EXCEPT ![p] = Tail(@)]
          /\ held' = [d \in Children |->
                        IF d = w THEN held[d] \cup {p}
                        ELSE IF d = c THEN held[d] \ {p} ELSE held[d]]
          /\ used' = used
      BY <1>2 DEF Release
    <2>2. /\ waiters[p] \in Seq(Children)
          /\ Len(waiters[p]) \in Nat \ {0}
          /\ w = waiters[p][1] /\ w \in Children
          /\ Tail(waiters[p]) \in Seq(Children)
          /\ Len(Tail(waiters[p])) = Len(waiters[p]) - 1
          /\ \A i \in 1..(Len(waiters[p]) - 1) : Tail(waiters[p])[i] = waiters[p][i + 1]
      BY <1>2
    <2>3. /\ pc[w] \in Waits /\ WaitPool(w) = p /\ p \notin held[w] /\ w # c
          /\ \A i \in 2..Len(waiters[p]) : waiters[p][i] # w
      BY <2>2 DEF QueueOK
    <2> HIDE DEF w
    <2>4. Types!2' /\ Types!3'
      BY <2>1, <2>2
    <2>5. QueueOK'
      <3>1. ASSUME NEW q \in Pools, NEW i \in 1..Len(waiters'[q])
            PROVE  (/\ pc[waiters[q][i]] \in Waits
                    /\ WaitPool(waiters[q][i]) = q
                    /\ q \notin held[waiters[q][i]])'
        <4>1. CASE q = p
          <5>1. i + 1 \in 2..Len(waiters[p]) /\ waiters'[p][i] = waiters[p][i + 1]
            BY <2>1, <2>2, <3>1, <4>1
          <5>2. waiters[p][i + 1] # w
            BY <2>3, <5>1
          <5>3. PICK v \in Children : v = waiters[p][i + 1]
            BY <2>2, <5>1
          <5>4. pc[v] \in Waits /\ WaitPool(v) = p /\ p \notin held[v] /\ v # c
            BY <2>2, <5>1, <5>3, SMTT(20) DEF QueueOK
          <5>5. pc'[v] = pc[v] /\ held'[v] = held[v] /\ waiters'[q][i] = v
            BY <2>1, <4>1, <5>1, <5>2, <5>3, <5>4
          <5>6. WaitPool(v)' = WaitPool(v)
            BY <5>5 DEF WaitPool
          <5> QED
            BY <4>1, <5>4, <5>5, <5>6 DEF WaitPool
        <4>2. CASE q # p
          <5>1. waiters'[q] = waiters[q]
            BY <2>1, <4>2
          <5>2. PICK v \in Children : v = waiters[q][i]
            BY <3>1, <5>1
          <5>3. pc[v] \in Waits /\ WaitPool(v) = q /\ q \notin held[v] /\ v # c
            BY <3>1, <5>1, <5>2 DEF QueueOK
          <5>4. v # w
            BY <2>3, <4>2, <5>3
          <5>5. pc'[v] = pc[v] /\ held'[v] = held[v] /\ waiters'[q][i] = v
            BY <2>1, <5>1, <5>2, <5>3, <5>4
          <5>6. WaitPool(v)' = WaitPool(v)
            BY <5>5 DEF WaitPool
          <5> QED
            BY <5>3, <5>5, <5>6 DEF WaitPool
        <4> QED
          BY <4>1, <4>2
      <3>2. ASSUME NEW q \in Pools, NEW i \in 1..Len(waiters'[q]), NEW j \in 1..Len(waiters'[q]),
                   waiters'[q][i] = waiters'[q][j]
            PROVE  i = j
        <4>1. CASE q = p
          <5>1. /\ i + 1 \in 1..Len(waiters[p]) /\ waiters'[p][i] = waiters[p][i + 1]
                /\ j + 1 \in 1..Len(waiters[p]) /\ waiters'[p][j] = waiters[p][j + 1]
            BY <2>1, <2>2, <3>2, <4>1
          <5>2. i + 1 = j + 1
            BY <3>2, <4>1, <5>1 DEF QueueOK
          <5> QED
            BY <5>2
        <4>2. CASE q # p
          BY <2>1, <3>2, <4>2 DEF QueueOK
        <4> QED
          BY <4>1, <4>2
      <3>3. ASSUME NEW d \in Children, pc'[d] \in Waits, WaitPool(d)' \notin held'[d]
            PROVE  Queued(WaitPool(d), d)'
        <4>1. d # c /\ pc'[d] = pc[d] /\ WaitPool(d)' = WaitPool(d)
          BY <3>3 DEF WaitPool
        <4>2. d # w
          BY <2>1, <2>3, <3>3, <4>1
        <4>3. WaitPool(d) \notin held[d]
          BY <2>1, <3>3, <4>1, <4>2
        <4>4. PICK i \in 1..Len(waiters[WaitPool(d)]) : waiters[WaitPool(d)][i] = d
          BY <3>3, <4>1, <4>3 DEF QueueOK, Queued
        <4>5. WaitPool(d) \in Pools
          BY QuotaAssumption DEF WaitPool, Pools
        <4>6. CASE WaitPool(d) = p
          <5>1. i # 1
            BY <2>2, <4>2, <4>4, <4>6
          <5>2. i - 1 \in 1..(Len(waiters[p]) - 1) /\ (i - 1) + 1 = i
            BY <2>2, <4>4, <4>6, <5>1
          <5>3. Tail(waiters[p])[i - 1] = d
            BY <2>2, <4>4, <4>6, <5>2
          <5> QED
            BY <2>1, <2>2, <4>1, <4>6, <5>2, <5>3 DEF Queued
        <4>7. CASE WaitPool(d) # p
          BY <2>1, <4>1, <4>4, <4>5, <4>7 DEF Queued
        <4> QED
          BY <4>6, <4>7
      <3> QED
        BY <3>1, <3>2, <3>3 DEF QueueOK
    <2>6. Conservation'
      <3> SUFFICES ASSUME NEW q \in Pools
                   PROVE  (used[q] = Cardinality(Holders(q)) /\ used[q] <= Limit(q))'
        BY DEF Conservation
      <3>1. CASE q = p
        <4>1. /\ Holders(p)' = (Holders(p) \ {c}) \cup {w}
              /\ c \in Holders(p) /\ w \notin Holders(p) \ {c}
          BY <2>1, <2>2, <2>3 DEF Holders
        <4> DEFINE H == Holders(p)
        <4>6. IsFiniteSet(H)
          BY HoldersFinite
        <4>4. IsFiniteSet(H) /\ c \in H
          BY <4>1, <4>6
        <4> HIDE DEF H
        <4>5. IsFiniteSet(H \ {c}) /\ Cardinality(H \ {c}) = Cardinality(H) - 1
          BY <4>4, FS_RemoveElement
        <4>2. /\ IsFiniteSet(Holders(p) \ {c})
              /\ Cardinality(Holders(p) \ {c}) = Cardinality(Holders(p)) - 1
          BY <4>5 DEF H
        <4>3. Cardinality(Holders(p)') = Cardinality(Holders(p) \ {c}) + 1
          BY <4>1, <4>2, FS_AddElement
        <4> QED
          BY <2>1, <3>1, <4>2, <4>3, HoldersFinite DEF Conservation, Limit
      <3>2. CASE q # p
        <4>1. Holders(q)' = Holders(q)
          BY <2>1, <3>2 DEF Holders
        <4> QED
          BY <2>1, <4>1 DEF Conservation, Limit
      <3> QED
        BY <3>1, <3>2
    <2>7. NoIdlePermit'
      <3> SUFFICES ASSUME NEW q \in Pools, waiters'[q] # << >>
                   PROVE  used'[q] = Limit(q)
        BY DEF NoIdlePermit, Limit
      <3>1. waiters[q] # << >>
        BY <1>2, <2>1
      <3> QED
        BY <2>1, <3>1 DEF NoIdlePermit
    <2> QED
      BY <2>4, <2>5, <2>6, <2>7 DEF SemOK
  <1> QED
    BY <1>1, <1>2

\* An attempt joins the queue of a full semaphore.
LEMMA EnqueuePreserves ==
  ASSUME IInv, NEW c \in Children, NEW x \in Waits, Goto(c, x), pc[c] \notin Waits,
         NEW p \in Pools, p = IF x = "globalWait" THEN Global ELSE ParentOf[c],
         Enqueue(p, c), p \notin held[c]
  PROVE  SemOK' /\ Types!2'
  <1> USE DEF IInv, Types, Goto, Enqueue
  <1> DEFINE n == Len(waiters[p])
  <1>1. /\ waiters[p] \in Seq(Children) /\ n \in Nat
        /\ Append(waiters[p], c) \in Seq(Children)
        /\ Len(Append(waiters[p], c)) = n + 1
        /\ \A i \in 1..n : Append(waiters[p], c)[i] = waiters[p][i]
        /\ Append(waiters[p], c)[n + 1] = c
    OBVIOUS
  <1>2. waiters'[p] = Append(waiters[p], c) /\ \A q \in Pools \ {p} : waiters'[q] = waiters[q]
    OBVIOUS
  <1> HIDE DEF n
  <1>3. ASSUME NEW q \in Pools, NEW i \in 1..Len(waiters'[q])
        PROVE  \/ /\ i \in 1..Len(waiters[q]) /\ waiters'[q][i] = waiters[q][i]
                  /\ waiters[q][i] \in Children \ {c}
               \/ q = p /\ i = n + 1 /\ waiters'[q][i] = c
    <2>1. CASE q = p /\ i = n + 1
      BY <1>1, <1>2, <2>1
    <2>2. CASE ~(q = p /\ i = n + 1)
      <3>1. i \in 1..Len(waiters[q]) /\ waiters'[q][i] = waiters[q][i]
        BY <1>1, <1>2, <1>3, <2>2 DEF n
      <3>2. waiters[q] \in Seq(Children)
        OBVIOUS
      <3>3. waiters[q][i] \in Children /\ pc[waiters[q][i]] \in Waits
        BY <3>1, <3>2 DEF QueueOK
      <3> QED
        BY <3>1, <3>3
    <2> QED
      BY <2>1, <2>2
  <1>4. \A d \in Children \ {c} : pc'[d] = pc[d] /\ held'[d] = held[d]
    OBVIOUS
  <1>5. QueueOK'
    <2>1. ASSUME NEW q \in Pools, NEW i \in 1..Len(waiters'[q])
          PROVE  (/\ pc[waiters[q][i]] \in Waits
                  /\ WaitPool(waiters[q][i]) = q
                  /\ q \notin held[waiters[q][i]])'
      <3>1. CASE q = p /\ i = n + 1 /\ waiters'[q][i] = c
        BY <3>1 DEF WaitPool, Waits
      <3>2. CASE /\ i \in 1..Len(waiters[q]) /\ waiters'[q][i] = waiters[q][i]
                 /\ waiters[q][i] \in Children \ {c}
        <4>1. PICK v \in Children \ {c} : v = waiters[q][i]
          BY <3>2
        <4>2. pc[v] \in Waits /\ WaitPool(v) = q /\ q \notin held[v]
          BY <3>2, <4>1 DEF QueueOK
        <4> QED
          BY <1>4, <3>2, <4>1, <4>2 DEF WaitPool
      <3> QED
        BY <1>3, <2>1, <3>1, <3>2
    <2>2. ASSUME NEW q \in Pools, NEW i \in 1..Len(waiters'[q]), NEW j \in 1..Len(waiters'[q]),
                 waiters'[q][i] = waiters'[q][j]
          PROVE  i = j
      <3>1. CASE i \in 1..Len(waiters[q]) /\ j \in 1..Len(waiters[q])
                 /\ waiters'[q][i] = waiters[q][i] /\ waiters'[q][j] = waiters[q][j]
        BY <2>2, <3>1 DEF QueueOK
      <3>2. CASE ~(i \in 1..Len(waiters[q]) /\ j \in 1..Len(waiters[q])
                   /\ waiters'[q][i] = waiters[q][i] /\ waiters'[q][j] = waiters[q][j])
        <4>1. waiters'[q][i] \in Children \ {c} \/ (i = n + 1 /\ waiters'[q][i] = c)
          BY ONLY <1>3, <2>2
        <4>2. waiters'[q][j] \in Children \ {c} \/ (j = n + 1 /\ waiters'[q][j] = c)
          BY ONLY <1>3, <2>2
        <4> QED
          BY <1>3, <2>2, <3>2, <4>1, <4>2
      <3> QED
        BY <3>1, <3>2
    <2>3. ASSUME NEW d \in Children, pc'[d] \in Waits, WaitPool(d)' \notin held'[d]
          PROVE  Queued(WaitPool(d), d)'
      <3>1. CASE d = c
        <4>1. WaitPool(c)' = p
          BY DEF WaitPool
        <4>2. n + 1 \in 1..Len(waiters'[p]) /\ waiters'[p][n + 1] = c
          BY <1>1, <1>2
        <4> QED
          BY <3>1, <4>1, <4>2 DEF Queued
      <3>2. CASE d # c
        <4>1. WaitPool(d)' = WaitPool(d) /\ WaitPool(d) \in Pools
          BY <1>4, <3>2, QuotaAssumption DEF WaitPool, Pools
        <4>2. PICK i \in 1..Len(waiters[WaitPool(d)]) : waiters[WaitPool(d)][i] = d
          BY <1>4, <2>3, <3>2, <4>1 DEF QueueOK, Queued
        <4>3. i \in 1..Len(waiters'[WaitPool(d)]) /\ waiters'[WaitPool(d)][i] = d
          BY <1>1, <1>2, <4>1, <4>2 DEF n
        <4> QED
          BY <4>1, <4>3 DEF Queued
      <3> QED
        BY <3>1, <3>2
    <2> QED
      BY <2>1, <2>2, <2>3 DEF QueueOK
  <1>6. Conservation'
    <2>1. ASSUME NEW q \in Pools
          PROVE  Holders(q)' = Holders(q)
      BY DEF Holders
    <2> QED
      BY <2>1 DEF Conservation, Limit
  <1>7. NoIdlePermit'
    <2> SUFFICES ASSUME NEW q \in Pools, waiters'[q] # << >>
                 PROVE  used'[q] = Limit(q)
      BY DEF NoIdlePermit, Limit
    <2>1. CASE q = p
      BY <2>1, LimitType DEF NoIdlePermit, Conservation, Available
    <2>2. CASE q # p
      BY <1>2, <2>2 DEF NoIdlePermit
    <2> QED
      BY <2>1, <2>2
  <1> QED
    BY <1>1, <1>5, <1>6, <1>7 DEF SemOK

\* A cancelled attempt leaves the queue; everybody behind it moves up.
LEMMA WithdrawPreserves ==
  ASSUME IInv, NEW c \in Children, NEW x \in Places \ Waits, Goto(c, x), pc[c] \in Waits,
         Withdraw(WaitPool(c), c)
  PROVE  SemOK' /\ Types!2' /\ WaitPool(c) \notin held[c]
  <1> USE DEF IInv, Types, Goto
  <1> DEFINE p == WaitPool(c)
  <1>1. p \in Pools
    BY QuotaAssumption DEF WaitPool, Pools
  <1>2. PICK k \in 1..Len(waiters[p]) :
          waiters[p][k] = c /\ waiters' = [waiters EXCEPT ![p] = RemoveAt(@, k)]
    BY DEF Withdraw
  <1>3. used' = used /\ held' = held
    BY DEF Withdraw
  <1> HIDE DEF p
  <1> DEFINE r == RemoveAt(waiters[p], k)
             n == Len(waiters[p])
  <1>4. waiters[p] \in Seq(Children) /\ n \in Nat
    BY <1>1
  <1>5. /\ r \in Seq(Children) /\ Len(r) = n - 1
        /\ \A i \in 1..(n - 1) : r[i] = IF i < k THEN waiters[p][i] ELSE waiters[p][i + 1]
    BY <1>2, <1>4, RemoveAtShifts
  <1>6. waiters'[p] = r /\ \A q \in Pools \ {p} : waiters'[q] = waiters[q]
    BY <1>1, <1>2
  <1>7. Types!2'
    BY <1>1, <1>2, <1>5
  <1> HIDE DEF r, n
  <1>8. \A i \in 1..n : i # k => waiters[p][i] # c
    BY <1>1, <1>2 DEF QueueOK, n
  <1>9. p \notin held[c]
    BY <1>1, <1>2 DEF QueueOK
  \* Where the element at place i of the new queue q was before.
  <1> DEFINE old(q, i) == IF q = p /\ ~(i < k) THEN i + 1 ELSE i
  <1>10. ASSUME NEW q \in Pools, NEW i \in 1..Len(waiters'[q])
         PROVE  /\ old(q, i) \in 1..Len(waiters[q])
                /\ waiters'[q][i] = waiters[q][old(q, i)]
                /\ waiters[q][old(q, i)] \in Children \ {c}
    <2>1. CASE q = p
      <3>1. i \in 1..(n - 1) /\ k \in 1..n /\ n = Len(waiters[p])
        BY <1>2, <1>5, <1>6, <2>1 DEF n
      <3>2. old(q, i) \in 1..n /\ old(q, i) # k
        BY <1>4, <2>1, <3>1
      <3>3. waiters'[q][i] = waiters[q][old(q, i)]
        BY <1>5, <1>6, <2>1, <3>1
      <3>4. waiters[p][old(q, i)] \in Children
        BY <1>4, <3>1, <3>2
      <3> QED
        BY <1>8, <2>1, <3>1, <3>2, <3>3, <3>4
    <2>2. CASE q # p
      <3>1. old(q, i) = i /\ waiters'[q] = waiters[q] /\ waiters[q] \in Seq(Children)
        BY <1>6, <2>2
      <3>2. waiters[q][i] \in Children /\ i \in 1..Len(waiters[q])
        BY <3>1
      <3>3. waiters[q][i] # c
        BY <2>2, <3>2 DEF QueueOK, p
      <3> QED
        BY <3>1, <3>2, <3>3
    <2> QED
      BY <2>1, <2>2
  <1>11. \A q \in Pools : \A i, j \in 1..Len(waiters'[q]) : old(q, i) = old(q, j) => i = j
    <2>1. k \in Int
      BY <1>2
    <2>2. \A q \in Pools : Len(waiters'[q]) \in Nat
      BY <1>7
    <2> QED
      BY <2>1, <2>2
  <1> HIDE DEF old
  <1>12. QueueOK'
    <2>1. ASSUME NEW q \in Pools, NEW i \in 1..Len(waiters'[q])
          PROVE  (/\ pc[waiters[q][i]] \in Waits
                  /\ WaitPool(waiters[q][i]) = q
                  /\ q \notin held[waiters[q][i]])'
      <3>1. PICK j \in 1..Len(waiters[q]), v \in Children \ {c} :
              j = old(q, i) /\ v = waiters[q][j] /\ v = waiters'[q][i]
        BY <1>10
      <3>2. pc[v] \in Waits /\ WaitPool(v) = q /\ q \notin held[v]
        BY <3>1 DEF QueueOK
      <3> QED
        BY <1>3, <3>1, <3>2 DEF WaitPool
    <2>2. ASSUME NEW q \in Pools, NEW i \in 1..Len(waiters'[q]), NEW j \in 1..Len(waiters'[q]),
                 waiters'[q][i] = waiters'[q][j]
          PROVE  i = j
      <3>1. old(q, i) = old(q, j)
        BY <1>10, <2>2, SMTT(20) DEF QueueOK
      <3> QED
        BY <1>11, <3>1
    <2>3. ASSUME NEW d \in Children, pc'[d] \in Waits, WaitPool(d)' \notin held'[d]
          PROVE  Queued(WaitPool(d), d)'
      <3>1. d # c /\ pc'[d] = pc[d]
        BY <2>3
      <3>2. WaitPool(d)' = WaitPool(d) /\ WaitPool(d) \in Pools
        BY <3>1, QuotaAssumption DEF WaitPool, Pools
      <3>3. PICK i \in 1..Len(waiters[WaitPool(d)]) : waiters[WaitPool(d)][i] = d
        BY <1>3, <2>3, <3>1, <3>2 DEF QueueOK, Queued
      <3>4. CASE WaitPool(d) = p
        <4>1. i # k /\ i \in 1..n
          BY <1>2, <3>1, <3>3, <3>4 DEF n
        <4>2. CASE i < k
          <5>1. i \in 1..(n - 1) /\ r[i] = d
            BY <1>2, <1>4, <1>5, <3>3, <3>4, <4>1, <4>2 DEF n
          <5> QED
            BY <1>5, <1>6, <3>2, <3>4, <5>1 DEF Queued
        <4>3. CASE i > k
          <5>1. i - 1 \in 1..(n - 1) /\ ~(i - 1 < k) /\ (i - 1) + 1 = i
            BY <1>2, <1>4, <4>1, <4>3 DEF n
          <5>2. r[i - 1] = d
            BY <1>5, <3>3, <3>4, <5>1
          <5> QED
            BY <1>5, <1>6, <3>2, <3>4, <5>1, <5>2 DEF Queued
        <4> QED
          BY <1>2, <1>4, <4>1, <4>2, <4>3
      <3>5. CASE WaitPool(d) # p
        BY <1>6, <3>2, <3>3, <3>5 DEF Queued
      <3> QED
        BY <3>4, <3>5
    <2> QED
      BY <2>1, <2>2, <2>3 DEF QueueOK
  <1>13. Conservation'
    <2>1. ASSUME NEW q \in Pools
          PROVE  Holders(q)' = Holders(q)
      BY <1>3 DEF Holders
    <2> QED
      BY <1>3, <2>1 DEF Conservation, Limit
  <1>14. NoIdlePermit'
    <2> SUFFICES ASSUME NEW q \in Pools, waiters'[q] # << >>
                 PROVE  used'[q] = Limit(q)
      BY DEF NoIdlePermit, Limit
    <2>1. waiters[q] # << >>
      BY <1>2, <1>6
    <2> QED
      BY <1>3, <2>1 DEF NoIdlePermit
  <1> QED
    BY <1>7, <1>9, <1>12, <1>13, <1>14 DEF SemOK, p

-----------------------------------------------------------------------------
(* Every step.                                                             *)

\* The parent of an attempt is a pool, and not the user-wide one.
LEMMA ParentPool ==
  \A c \in Children : ParentOf[c] \in Pools /\ ParentOf[c] # Global
  BY QuotaAssumption DEF Pools

\* An attempt at place x with permits h owns what the place requires.
PlaceFits(c, x, h) ==
    /\ x # "parentWait" => (ParentOf[c] \in h <=> x \in OwnsParent)
    /\ x # "globalWait" => (Global \in h <=> x \in OwnsGlobal)
    /\ h \subseteq {ParentOf[c], Global}

\* The part of the invariant about the semaphores and the places.
Core == Types!1 /\ Types!2 /\ Types!3 /\ Types!4 /\ PermitsMatchPlace /\ SemOK

\* Taking a permit on the way to a place that does not wait keeps the core.
LEMMA TakeStep ==
  ASSUME IInv, NEW c \in Children, NEW x \in Places \ Waits, NEW p \in {ParentOf[c], Global},
         Take(p, c), Goto(c, x), pc[c] \notin Waits, p \notin held[c],
         PlaceFits(c, x, held[c] \cup {p})
  PROVE  Core'
  <1>1. p \in Pools
    BY ParentPool DEF Pools
  <1>2. SemOK'
    BY <1>1, TakePreserves
  <1>3. Types!1' /\ Types!2' /\ Types!3' /\ Types!4'
    BY <1>1 DEF IInv, Types, Take, Goto
  <1>4. PermitsMatchPlace'
    <2> SUFFICES ASSUME NEW d \in Children PROVE PlaceFits(d, pc'[d], held'[d])
      BY DEF PermitsMatchPlace, PlaceFits
    <2>1. CASE d = c
      BY <2>1 DEF IInv, Types, Take, Goto
    <2>2. CASE d # c
      BY <2>2 DEF IInv, Types, Take, Goto, PermitsMatchPlace, PlaceFits
    <2> QED
      BY <2>1, <2>2
  <1> QED
    BY <1>2, <1>3, <1>4 DEF Core

\* Releasing a permit on the way to a place that does not wait keeps the core.
LEMMA ReleaseStep ==
  ASSUME IInv, NEW c \in Children, NEW x \in Places \ Waits, NEW p \in {ParentOf[c], Global},
         Release(p, c), Goto(c, x), pc[c] \notin Waits, p \in held[c],
         PlaceFits(c, x, held[c] \ {p})
  PROVE  Core'
  <1>1. p \in Pools
    BY ParentPool DEF Pools
  <1>2. SemOK' /\ Types!2' /\ Types!3'
    BY <1>1, ReleasePreserves
  <1>3. Types!1' /\ Types!4'
    BY <1>1 DEF IInv, Types, Release, Goto
  <1>4. PermitsMatchPlace'
    <2> SUFFICES ASSUME NEW d \in Children PROVE PlaceFits(d, pc'[d], held'[d])
      BY DEF PermitsMatchPlace, PlaceFits
    <2>1. PlaceFits(d, pc[d], held[d])
      BY DEF IInv, PermitsMatchPlace, PlaceFits
    <2>2. CASE waiters[p] = << >>
      <3>1. CASE d = c
        BY <2>2, <3>1 DEF IInv, Types, Release, Goto
      <3>2. CASE d # c
        BY <2>1, <2>2, <3>2 DEF IInv, Types, Release, Goto
      <3> QED
        BY <3>1, <3>2
    <2>3. CASE waiters[p] # << >>
      <3> DEFINE w == Head(waiters[p])
      <3>1. w = waiters[p][1] /\ 1 \in 1..Len(waiters[p])
        BY <1>1, <2>3 DEF IInv, Types
      <3>2. pc[w] \in Waits /\ WaitPool(w) = p /\ p \notin held[w] /\ w # c
        BY <1>1, <3>1 DEF IInv, QueueOK
      <3>3. held'[d] = IF d = w THEN held[d] \cup {p}
                       ELSE IF d = c THEN held[d] \ {p} ELSE held[d]
        BY <2>3 DEF Release
      <3> HIDE DEF w
      <3>4. CASE d = c
        BY <3>2, <3>3, <3>4 DEF IInv, Types, Goto
      <3>5. CASE d = w
        <4>1. pc'[d] = pc[d] /\ held'[d] = held[d] \cup {p}
          BY <3>2, <3>3, <3>5 DEF IInv, Types, Goto
        <4>2. CASE pc[d] = "globalWait"
          BY <2>1, <3>2, <3>5, <4>1, <4>2, ParentPool DEF PlaceFits, WaitPool
        <4>3. CASE pc[d] = "parentWait"
          BY <2>1, <3>2, <3>5, <4>1, <4>3, ParentPool DEF PlaceFits, WaitPool
        <4> QED
          BY <3>2, <3>5, <4>2, <4>3 DEF Waits
      <3>6. CASE d # c /\ d # w
        BY <2>1, <3>3, <3>6 DEF IInv, Types, Goto
      <3> QED
        BY <3>4, <3>5, <3>6
    <2> QED
      BY <2>2, <2>3
  <1> QED
    BY <1>2, <1>3, <1>4 DEF Core

\* Joining a queue on the way to the place that waits for it keeps the core.
LEMMA EnqueueStep ==
  ASSUME IInv, NEW c \in Children, NEW x \in Waits, Goto(c, x), pc[c] \notin Waits,
         NEW p \in Pools, p = IF x = "globalWait" THEN Global ELSE ParentOf[c],
         Enqueue(p, c), p \notin held[c], PlaceFits(c, x, held[c])
  PROVE  Core'
  <1>1. SemOK' /\ Types!2'
    BY EnqueuePreserves
  <1>2. Types!1' /\ Types!3' /\ Types!4'
    BY DEF IInv, Types, Enqueue, Goto, Places
  <1>3. PermitsMatchPlace'
    <2> SUFFICES ASSUME NEW d \in Children PROVE PlaceFits(d, pc'[d], held'[d])
      BY DEF PermitsMatchPlace, PlaceFits
    <2>1. PlaceFits(d, pc[d], held[d])
      BY DEF IInv, PermitsMatchPlace, PlaceFits
    <2> QED
      BY <2>1 DEF IInv, Types, Enqueue, Goto
  <1> QED
    BY <1>1, <1>2, <1>3 DEF Core

\* Leaving a queue on the way to a place that does not wait keeps the core.
LEMMA WithdrawStep ==
  ASSUME IInv, NEW c \in Children, NEW x \in Places \ Waits, Goto(c, x), pc[c] \in Waits,
         Withdraw(WaitPool(c), c),
         WaitPool(c) \notin held[c] => PlaceFits(c, x, held[c])
  PROVE  Core'
  <1>1. SemOK' /\ Types!2' /\ WaitPool(c) \notin held[c]
    BY WithdrawPreserves
  <1>2. Types!1' /\ Types!3' /\ Types!4'
    BY DEF IInv, Types, Withdraw, Goto
  <1>3. PermitsMatchPlace'
    <2> SUFFICES ASSUME NEW d \in Children PROVE PlaceFits(d, pc'[d], held'[d])
      BY DEF PermitsMatchPlace, PlaceFits
    <2>1. PlaceFits(d, pc[d], held[d])
      BY DEF IInv, PermitsMatchPlace, PlaceFits
    <2> QED
      BY <1>1, <2>1 DEF IInv, Types, Withdraw, Goto
  <1> QED
    BY <1>1, <1>2, <1>3 DEF Core

\* A step that touches no semaphore moves one attempt between places outside
\* the queues, or out of a wait that was granted.
LEMMA StayStep ==
  ASSUME IInv, NEW c \in Children, NEW x \in Places \ Waits,
         UNCHANGED <<used, waiters, held>>, Goto(c, x),
         pc[c] \in Waits => WaitPool(c) \in held[c],
         PlaceFits(c, x, held[c])
  PROVE  Core'
  <1>1. SemOK'
    <2>1. QueueOK'
      <3>1. ASSUME NEW q \in Pools, NEW i \in 1..Len(waiters'[q])
            PROVE  (/\ pc[waiters[q][i]] \in Waits
                    /\ WaitPool(waiters[q][i]) = q
                    /\ q \notin held[waiters[q][i]])'
        <4>1. PICK v \in Children : v = waiters[q][i]
          BY <3>1 DEF IInv, Types
        <4>2. pc[v] \in Waits /\ WaitPool(v) = q /\ q \notin held[v]
          BY <4>1 DEF IInv, QueueOK
        <4>3. v # c
          BY <4>2
        <4> QED
          BY <4>1, <4>2, <4>3 DEF WaitPool, IInv, Types, Goto
      <3>2. ASSUME NEW d \in Children, pc'[d] \in Waits, WaitPool(d)' \notin held'[d]
            PROVE  Queued(WaitPool(d), d)'
        <4>1. d # c /\ pc'[d] = pc[d]
          BY <3>2 DEF IInv, Types, Goto
        <4>2. WaitPool(d)' = WaitPool(d)
          BY <4>1 DEF WaitPool
        <4>3. Queued(WaitPool(d), d)
          BY <3>2, <4>1, <4>2 DEF IInv, QueueOK
        <4> QED
          BY <4>2, <4>3 DEF Queued
      <3> QED
        BY <3>1, <3>2 DEF IInv, QueueOK
    <2>2. \A q : Holders(q)' = Holders(q)
      BY DEF Holders
    <2>3. Conservation' /\ NoIdlePermit'
      BY <2>2 DEF IInv, Conservation, NoIdlePermit, Limit
    <2> QED
      BY <2>1, <2>3 DEF SemOK
  <1>2. Types!1' /\ Types!2' /\ Types!3' /\ Types!4'
    BY DEF IInv, Types, Goto
  <1>3. PermitsMatchPlace'
    <2> SUFFICES ASSUME NEW d \in Children PROVE PlaceFits(d, pc'[d], held'[d])
      BY DEF PermitsMatchPlace, PlaceFits
    <2>1. PlaceFits(d, pc[d], held[d])
      BY DEF IInv, PermitsMatchPlace, PlaceFits
    <2> QED
      BY <2>1 DEF IInv, Types, Goto
  <1> QED
    BY <1>1, <1>2, <1>3 DEF Core

\* At first all permits are free and nobody waits.
LEMMA InitInvariant == Init => IInv
  <1> SUFFICES ASSUME Init PROVE IInv
    OBVIOUS
  <1> USE DEF Init
  <1>1. Types
    <2>1. << >> \in Seq(Children)
      BY EmptySeq
    <2>2. waiters \in [Pools -> Seq(Children)]
      BY <2>1
    <2>3. "idle" \in Places
      BY DEF Places
    <2>4. used \in [Pools -> Int] /\ held \in [Children -> SUBSET Pools]
      OBVIOUS
    <2>5. cancelled \in [Children -> BOOLEAN] /\ awaiting \in [Children -> SUBSET Children]
      OBVIOUS
    <2>6. pc \in [Children -> Places] /\ closed \in BOOLEAN
      BY <2>3
    <2> QED
      BY <2>2, <2>4, <2>5, <2>6 DEF Types
  <1>2. PermitsMatchPlace
    BY DEF PermitsMatchPlace, OwnsParent, OwnsGlobal
  <1>3. QueueOK
    BY DEF QueueOK, Waits
  <1>4. Conservation
    <2> SUFFICES ASSUME NEW p \in Pools
                 PROVE  used[p] = Cardinality(Holders(p)) /\ used[p] <= Limit(p)
      BY DEF Conservation
    <2>1. Holders(p) = {}
      BY DEF Holders
    <2>2. Cardinality(Holders(p)) = 0
      BY <2>1, FS_EmptySet
    <2> QED
      BY <2>2, LimitType
  <1>5. NoIdlePermit
    BY DEF NoIdlePermit
  <1> QED
    BY <1>1, <1>2, <1>3, <1>4, <1>5 DEF IInv

\* Every step that moves an attempt preserves the counts and the ownership.
LEMMA MovePreserves ==
  ASSUME IInv
  PROVE  \A c \in Children :
           \/ TryParent(c) \/ Acquisition(c) \/ Reject(c)
           \/ Start(c) \/ Finish(c) \/ ReleaseParent(c) \/ ReleaseGlobal(c) \/ Complete(c)
           => Core'
  <1>1. ASSUME NEW c \in Children, TryParent(c) PROVE Core'
    <2>1. CASE Take(ParentOf[c], c) /\ Goto(c, "tryGlobal")
      BY <1>1, <2>1, TakeStep, ParentPool DEF TryParent, IInv, Types, PermitsMatchPlace, PlaceFits, OwnsParent, OwnsGlobal, Places, Waits
    <2>2. CASE Goto(c, "busy") /\ UNCHANGED <<used, waiters, held>>
      BY <1>1, <2>2, StayStep, ParentPool DEF TryParent, IInv, Types, PermitsMatchPlace, PlaceFits, OwnsParent, OwnsGlobal, Places, Waits
    <2> QED
      BY <1>1, <2>1, <2>2 DEF TryParent
  <1>2. ASSUME NEW c \in Children, TryGlobal(c) PROVE Core'
    <2>1. CASE Take(Global, c) /\ Goto(c, "holding")
      BY <1>2, <2>1, TakeStep, ParentPool DEF TryGlobal, IInv, Types, PermitsMatchPlace, PlaceFits, OwnsParent, OwnsGlobal, Places, Waits
    <2>2. CASE Goto(c, "failDrop") /\ UNCHANGED <<used, waiters, held>>
      BY <1>2, <2>2, StayStep, ParentPool DEF TryGlobal, IInv, Types, PermitsMatchPlace, PlaceFits, OwnsParent, OwnsGlobal, Places, Waits
    <2>3. CASE Goto(c, "busyDrop") /\ UNCHANGED <<used, waiters, held>>
      BY <1>2, <2>3, StayStep, ParentPool DEF TryGlobal, IInv, Types, PermitsMatchPlace, PlaceFits, OwnsParent, OwnsGlobal, Places, Waits
    <2> QED
      BY <1>2, <2>1, <2>2, <2>3 DEF TryGlobal
  <1>3. ASSUME NEW c \in Children, DropParent(c) PROVE Core'
    <2>1. CASE Release(ParentOf[c], c) /\ Goto(c, "busy") /\ pc[c] = "busyDrop"
      BY <1>3, <2>1, ReleaseStep, ParentPool DEF DropParent, IInv, Types, PermitsMatchPlace, PlaceFits, OwnsParent, OwnsGlobal, Places, Waits
    <2>2. CASE Release(ParentOf[c], c) /\ Goto(c, "ending") /\ pc[c] = "failDrop"
      BY <1>3, <2>2, ReleaseStep, ParentPool DEF DropParent, IInv, Types, PermitsMatchPlace, PlaceFits, OwnsParent, OwnsGlobal, Places, Waits
    <2> QED
      BY <1>3, <2>1, <2>2 DEF DropParent
  <1>4. ASSUME NEW c \in Children, Block(c) PROVE Core'
    BY <1>4, StayStep, ParentPool DEF Block, IInv, Types, PermitsMatchPlace, PlaceFits, OwnsParent, OwnsGlobal, Places, Waits
  <1>5. ASSUME NEW c \in Children, Reject(c) PROVE Core'
    <2>1. CASE pc[c] = "busy" /\ Goto(c, "ending") /\ UNCHANGED <<used, waiters, held>>
      BY <1>5, <2>1, StayStep, ParentPool DEF Reject, IInv, Types, PermitsMatchPlace, PlaceFits, OwnsParent, OwnsGlobal, Places, Waits
    <2>2. CASE pc[c] = "holding" /\ Goto(c, "releaseParent") /\ UNCHANGED <<used, waiters, held>>
      BY <1>5, <2>2, StayStep, ParentPool DEF Reject, IInv, Types, PermitsMatchPlace, PlaceFits, OwnsParent, OwnsGlobal, Places, Waits
    <2> QED
      BY <1>5, <2>1, <2>2 DEF Reject
  <1>6. ASSUME NEW c \in Children, AcquireParent(c) PROVE Core'
    <2>1. CASE Take(ParentOf[c], c) /\ Goto(c, "acquireGlobal")
      BY <1>6, <2>1, TakeStep, ParentPool DEF AcquireParent, IInv, Types, PermitsMatchPlace, PlaceFits, OwnsParent, OwnsGlobal, Places, Waits
    <2>2. CASE Enqueue(ParentOf[c], c) /\ Goto(c, "parentWait")
      BY <1>6, <2>2, EnqueueStep, ParentPool DEF AcquireParent, IInv, Types, PermitsMatchPlace, PlaceFits, OwnsParent, OwnsGlobal, Places, Waits
    <2> QED
      BY <1>6, <2>1, <2>2 DEF AcquireParent
  <1>7. ASSUME NEW c \in Children, AcquireGlobal(c) PROVE Core'
    <2>1. CASE Take(Global, c) /\ Goto(c, "checkClosed")
      BY <1>7, <2>1, TakeStep, ParentPool DEF AcquireGlobal, Pools, IInv, Types, PermitsMatchPlace, PlaceFits, OwnsParent, OwnsGlobal, Places, Waits
    <2>2. CASE Enqueue(Global, c) /\ Goto(c, "globalWait")
      BY <1>7, <2>2, EnqueueStep, ParentPool DEF AcquireGlobal, Pools, IInv, Types, PermitsMatchPlace, PlaceFits, OwnsParent, OwnsGlobal, Places, Waits
    <2> QED
      BY <1>7, <2>1, <2>2 DEF AcquireGlobal, Pools
  <1>8. ASSUME NEW c \in Children, Granted(c) PROVE Core'
    <2>1. CASE pc[c] = "globalWait"
      BY <1>8, <2>1, StayStep, ParentPool DEF Granted, WaitPool, IInv, Types, PermitsMatchPlace, PlaceFits, OwnsParent, OwnsGlobal, Places, Waits
    <2>2. CASE pc[c] = "parentWait"
      BY <1>8, <2>2, StayStep, ParentPool DEF Granted, WaitPool, IInv, Types, PermitsMatchPlace, PlaceFits, OwnsParent, OwnsGlobal, Places, Waits
    <2> QED
      BY <1>8, <2>1, <2>2 DEF Granted, Waits
  <1>9. ASSUME NEW c \in Children, GiveUp(c) PROVE Core'
    <2>1. CASE pc[c] = "globalWait"
      BY <1>9, <2>1, WithdrawStep, ParentPool DEF GiveUp, WaitPool, IInv, Types, PermitsMatchPlace, PlaceFits, OwnsParent, OwnsGlobal, Places, Waits
    <2>2. CASE pc[c] = "parentWait"
      BY <1>9, <2>2, WithdrawStep, ParentPool DEF GiveUp, WaitPool, IInv, Types, PermitsMatchPlace, PlaceFits, OwnsParent, OwnsGlobal, Places, Waits
    <2> QED
      BY <1>9, <2>1, <2>2 DEF GiveUp, Waits
  <1>10. ASSUME NEW c \in Children, GiveUpLate(c) PROVE Core'
    <2>1. CASE pc[c] = "globalWait"
      BY <1>10, <2>1, StayStep, ParentPool DEF GiveUpLate, WaitPool, QueueOK, IInv, Types, PermitsMatchPlace, PlaceFits, OwnsParent, OwnsGlobal, Places, Waits
    <2>2. CASE pc[c] = "parentWait"
      BY <1>10, <2>2, StayStep, ParentPool DEF GiveUpLate, WaitPool, QueueOK, IInv, Types, PermitsMatchPlace, PlaceFits, OwnsParent, OwnsGlobal, Places, Waits
    <2> QED
      BY <1>10, <2>1, <2>2 DEF GiveUpLate, Waits
  <1>11. ASSUME NEW c \in Children, PassOn(c) PROVE Core'
    <2>1. CASE pc[c] = "parentPass"
      BY <1>11, <2>1, ReleaseStep, ParentPool DEF PassOn, IInv, Types, PermitsMatchPlace, PlaceFits, OwnsParent, OwnsGlobal, Places, Waits
    <2>2. CASE pc[c] = "globalPass"
      BY <1>11, <2>2, ReleaseStep, ParentPool DEF PassOn, IInv, Types, PermitsMatchPlace, PlaceFits, OwnsParent, OwnsGlobal, Places, Waits
    <2> QED
      BY <1>11, <2>1, <2>2 DEF PassOn
  <1>12. ASSUME NEW c \in Children, CheckClosed(c) PROVE Core'
    <2>1. CASE Goto(c, "globalPass") /\ UNCHANGED <<used, waiters, held>>
      BY <1>12, <2>1, StayStep, ParentPool DEF CheckClosed, IInv, Types, PermitsMatchPlace, PlaceFits, OwnsParent, OwnsGlobal, Places, Waits
    <2>2. CASE Goto(c, "holding") /\ UNCHANGED <<used, waiters, held>>
      BY <1>12, <2>2, StayStep, ParentPool DEF CheckClosed, IInv, Types, PermitsMatchPlace, PlaceFits, OwnsParent, OwnsGlobal, Places, Waits
    <2> QED
      BY <1>12, <2>1, <2>2 DEF CheckClosed
  <1>13. ASSUME NEW c \in Children, Start(c) PROVE Core'
    <2>1. CASE Goto(c, "releaseParent") /\ UNCHANGED <<used, waiters, held>>
      BY <1>13, <2>1, StayStep, ParentPool DEF Start, IInv, Types, PermitsMatchPlace, PlaceFits, OwnsParent, OwnsGlobal, Places, Waits
    <2>2. CASE Goto(c, "running") /\ UNCHANGED <<used, waiters, held>>
      BY <1>13, <2>2, StayStep, ParentPool DEF Start, IInv, Types, PermitsMatchPlace, PlaceFits, OwnsParent, OwnsGlobal, Places, Waits
    <2> QED
      BY <1>13, <2>1, <2>2 DEF Start
  <1>14. ASSUME NEW c \in Children, Finish(c) PROVE Core'
    BY <1>14, StayStep, ParentPool DEF Finish, IInv, Types, PermitsMatchPlace, PlaceFits, OwnsParent, OwnsGlobal, Places, Waits
  <1>15. ASSUME NEW c \in Children, ReleaseParent(c) PROVE Core'
    BY <1>15, ReleaseStep, ParentPool DEF ReleaseParent, IInv, Types, PermitsMatchPlace, PlaceFits, OwnsParent, OwnsGlobal, Places, Waits
  <1>16. ASSUME NEW c \in Children, ReleaseGlobal(c) PROVE Core'
    BY <1>16, ReleaseStep, ParentPool DEF ReleaseGlobal, IInv, Types, PermitsMatchPlace, PlaceFits, OwnsParent, OwnsGlobal, Places, Waits
  <1>17. ASSUME NEW c \in Children, Complete(c) PROVE Core'
    BY <1>17, StayStep, ParentPool DEF Complete, IInv, Types, PermitsMatchPlace, PlaceFits, OwnsParent, OwnsGlobal, Places, Waits
  <1> QED
    BY <1>1, <1>2, <1>3, <1>4, <1>5, <1>6, <1>7, <1>8, <1>9, <1>10, <1>11, <1>12, <1>13, <1>14, <1>15, <1>16, <1>17 DEF Acquisition

\* The invariant is inductive.
LEMMA NextInvariant == IInv /\ [Next]_vars => IInv'
  <1> SUFFICES ASSUME IInv, [Next]_vars PROVE IInv'
    OBVIOUS
  <1>1. ASSUME UNCHANGED <<used, waiters, held, pc>>
        PROVE  Core'
    <2>1. \A q : Holders(q)' = Holders(q)
      BY <1>1 DEF Holders
    <2>2. QueueOK'
      BY <1>1, QueueKept
    <2>3. Conservation' /\ NoIdlePermit'
      BY <1>1, <2>1 DEF IInv, Conservation, NoIdlePermit, Limit
    <2>4. PermitsMatchPlace'
      BY <1>1 DEF IInv, PermitsMatchPlace
    <2>5. Types!1' /\ Types!2' /\ Types!3' /\ Types!4'
      BY <1>1 DEF IInv, Types
    <2> QED
      BY <2>2, <2>3, <2>4, <2>5 DEF Core, SemOK
  <1>2. Core'
    BY <1>1, MovePreserves DEF Next, Turn, AwaitCancelled, Await, Cancel, Close, vars
  <1>3. Types!5' /\ Types!6' /\ Types!7'
    <2> USE DEF IInv, Types
    <2>1. CASE UNCHANGED <<cancelled, awaiting, closed>>
      BY <2>1
    <2>2. ASSUME NEW c \in Children, AwaitCancelled(c) \/ Complete(c) \/ Cancel(c)
          PROVE  Types!5' /\ Types!6' /\ Types!7'
      <3>1. cancelled' \in [Children -> BOOLEAN]
        BY <2>2 DEF AwaitCancelled, Complete, Cancel
      <3>2. awaiting' \in [Children -> SUBSET Children]
        <4>1. CASE Complete(c)
          <5>1. \A d \in Children : awaiting[d] \ {c} \in SUBSET Children
            OBVIOUS
          <5> QED
            BY <4>1, <5>1 DEF Complete
        <4>2. CASE AwaitCancelled(c) \/ Cancel(c)
          BY <4>2 DEF AwaitCancelled, Cancel
        <4> QED
          BY <2>2, <4>1, <4>2
      <3>3. closed' = closed
        BY <2>2 DEF AwaitCancelled, Complete, Cancel
      <3> QED
        BY <3>1, <3>2, <3>3
    <2>3. ASSUME NEW c \in Children, NEW d \in Children, Await(c, d)
          PROVE  Types!5' /\ Types!6' /\ Types!7'
      BY <2>3 DEF Await
    <2>4. CASE Close
      BY <2>4 DEF Close
    <2>5. ASSUME NEW c \in Children,
                 \/ TryParent(c) \/ Acquisition(c) \/ Reject(c)
                 \/ Start(c) \/ Finish(c) \/ ReleaseParent(c) \/ ReleaseGlobal(c)
          PROVE  UNCHANGED Rest
      BY <2>5 DEF TryParent, Acquisition, TryGlobal, DropParent, Block, AcquireParent,
           AcquireGlobal, Granted, GiveUp, GiveUpLate, PassOn, CheckClosed, Reject,
           Start, Finish, ReleaseParent, ReleaseGlobal, Rest
    <2> QED
      BY <2>1, <2>2, <2>3, <2>4, <2>5 DEF Next, Turn, vars, Rest
  <1> QED
    BY <1>2, <1>3 DEF Core, SemOK, IInv, Types

\* The queues hold exactly who waits, and the counts are exact, in every
\* reachable state (acquire, release, tryAcquireTurnQuota, acquireTurnQuota).
THEOREM Invariance == Spec => []IInv
  BY InitInvariant, NextInvariant, PTL DEF Spec

-----------------------------------------------------------------------------
(* The results.                                                            *)

\* The variables always have their types; in particular no semaphore ever counts
\* below zero, so that no permit is returned twice (childTurnSemaphore.release).
THEOREM TypeCorrect == Spec => []TypeOK
  <1>1. IInv => TypeOK
    <2> SUFFICES ASSUME IInv PROVE TypeOK
      OBVIOUS
    <2>1. \A p \in Pools : used[p] \in Nat
      BY HoldersFinite DEF IInv, Conservation
    <2>2. used \in [Pools -> Nat]
      BY <2>1 DEF IInv, Types
    <2> QED
      BY <2>2 DEF IInv, Types, TypeOK
  <1> QED
    BY <1>1, Invariance, PTL

\* Every semaphore counts exactly the permits that are out, within its limit,
\* for every session tree and every limit.
THEOREM PermitsAreConserved == Spec => []Conservation
  BY Invariance, PTL DEF IInv

\* Nobody waits while a permit is free: no hand-over is lost.
THEOREM NoWakeupIsLost == Spec => []NoIdlePermit
  BY Invariance, PTL DEF IInv

\* No path of an acquisition leaks a permit or returns one it does not own.
THEOREM NoPermitLeaks == Spec => []PermitsMatchPlace
  BY Invariance, PTL DEF IInv

\* The counts, the queues and the permits of the attempts agree.
THEOREM PermitsAreExact == Spec => []PermitsExact
  BY Invariance, PTL DEF IInv, PermitsExact

\* The running turns never exceed the configured limits.
THEOREM LimitsHold == Spec => []RunningWithinLimits
  <1>1. IInv => RunningWithinLimits
    <2> SUFFICES ASSUME IInv PROVE RunningWithinLimits
      OBVIOUS
    <2>1. ASSUME NEW p \in Pools, NEW R \in SUBSET Holders(p)
          PROVE  Cardinality(R) <= Limit(p)
      <3>1. IsFiniteSet(R) /\ Cardinality(R) <= Cardinality(Holders(p))
        BY HoldersFinite, FS_Subset
      <3>2. Cardinality(R) \in Nat
        BY <3>1, FS_CardinalityType
      <3> QED
        BY <3>1, <3>2, HoldersFinite, LimitType DEF IInv, Conservation
    <2>2. {c \in Children : pc[c] = "running"} \subseteq Holders(Global)
      BY DEF IInv, PermitsMatchPlace, Holders, OwnsGlobal
    <2>3. ASSUME NEW p \in Children \cup {Root}
          PROVE  {c \in Children : pc[c] = "running" /\ ParentOf[c] = p} \subseteq Holders(p)
      BY DEF IInv, PermitsMatchPlace, Holders, OwnsParent
    <2>4. Cardinality({c \in Children : pc[c] = "running"}) <= Limit(Global)
      BY <2>1, <2>2 DEF Pools
    <2>5. ASSUME NEW p \in Children \cup {Root}
          PROVE  Cardinality({c \in Children : pc[c] = "running" /\ ParentOf[c] = p}) <= Limit(p)
      BY <2>1, <2>3 DEF Pools
    <2> QED
      BY <2>4, <2>5, QuotaAssumption DEF RunningWithinLimits, Limit
  <1> QED
    BY <1>1, Invariance, PTL

\* The quota keeps its books and its limits together.
THEOREM QuotaIsKept == Spec => []QuotaIsExact
  BY PermitsAreExact, LimitsHold, PTL DEF QuotaIsExact

\* A permit obtained while others wait goes to the first of them.
THEOREM FirstComeFirstServed == Spec => NoOvertaking
  <1>1. IInv /\ [Next]_vars =>
          [\A p \in Pools, c \in Children :
             p \in held'[c] \ held[c] /\ waiters[p] # << >> => c = Head(waiters[p])]_vars
    <2> SUFFICES ASSUME IInv, Next, NEW p \in Pools, NEW c \in Children,
                        p \in held'[c] \ held[c], waiters[p] # << >>
                 PROVE  c = Head(waiters[p])
      BY DEF vars
    <2>1. ASSUME NEW q, NEW d \in Children, Take(q, d) PROVE c = Head(waiters[p])
      BY <2>1 DEF Take, Available, IInv, Types
    <2>2. ASSUME NEW q, NEW d \in Children, Release(q, d) PROVE c = Head(waiters[p])
      <3>1. CASE waiters[q] = << >>
        <4>1. held' = [held EXCEPT ![d] = @ \ {q}]
          BY <2>2, <3>1 DEF Release
        <4>2. held'[c] \subseteq held[c]
          BY <4>1 DEF IInv, Types
        <4> QED
          BY <4>2
      <3>2. CASE waiters[q] # << >>
        <4>1. held'[c] = IF c = Head(waiters[q]) THEN held[c] \cup {q}
                         ELSE IF c = d THEN held[c] \ {q} ELSE held[c]
          BY <2>2, <3>2 DEF Release
        <4> QED
          BY <4>1
      <3> QED
        BY <3>1, <3>2
    <2>3. ASSUME held' = held PROVE c = Head(waiters[p])
      BY <2>3
    <2> QED
      BY <2>1, <2>2, <2>3 DEF Next, Acquisition, Turn, TryParent, TryGlobal, DropParent,
           Block, AcquireParent, AcquireGlobal, Granted, GiveUp, GiveUpLate, PassOn,
           CheckClosed, Reject, Start, AwaitCancelled, Finish, ReleaseParent,
           ReleaseGlobal, Complete, Cancel, Await, Close, Enqueue, Withdraw
  <1> QED
    BY <1>1, Invariance, PTL DEF NoOvertaking, Spec

\* A closed user session lets no further attempt through to a turn.
THEOREM ClosedIsFinal == Spec => ClosedAdmitsNothing
  <1>1. IInv /\ [Next]_vars =>
          [closed => \A c \in Children : pc'[c] = "holding" => pc[c] = "holding"]_vars
    <2> SUFFICES ASSUME IInv, Next, closed, NEW c \in Children, pc'[c] = "holding"
                 PROVE  pc[c] = "holding"
      BY DEF vars
    <2>1. ASSUME NEW d \in Children, NEW x, Goto(d, x), x # "holding"
          PROVE  pc[c] = "holding"
      BY <2>1 DEF Goto, IInv, Types
    <2>2. ASSUME pc' = pc PROVE pc[c] = "holding"
      BY <2>2
    <2> QED
      BY <2>1, <2>2 DEF Next, Acquisition, Turn, TryParent, TryGlobal, DropParent,
           Block, AcquireParent, AcquireGlobal, Granted, GiveUp, GiveUpLate, PassOn,
           CheckClosed, Reject, Start, AwaitCancelled, Finish, ReleaseParent,
           ReleaseGlobal, Complete, Cancel, Await, Close
  <1> QED
    BY <1>1, Invariance, PTL DEF ClosedAdmitsNothing, Spec
=============================================================================
