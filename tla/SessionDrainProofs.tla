------------------------ MODULE SessionDrainProofs ------------------------
(***************************************************************************)
(* Proofs about SessionDrain: tool calls, notices and closed messages, and *)
(* that the session implements Inbox.  The facts about InOrder come first, *)
(* then the inductive invariant and what each kind of step does to the     *)
(* history, then one lemma for each part of the invariant.                 *)
(***************************************************************************)
EXTENDS SessionDrain, FiniteSetTheorems, SequenceTheorems, TLAPS

-----------------------------------------------------------------------------
(* InOrder.                                                                *)

\* The rank of a number among those of a set.
RankIn(S, i) == Cardinality({h \in S : h <= i})

LEMMA InOrderOfNothing ==
    ASSUME NEW f, DOMAIN f = {}
    PROVE  InOrder(f) = << >>
  <1>1. Cardinality(DOMAIN f) = 0
    BY FS_EmptySet
  <1> QED
    BY <1>1 DEF InOrder

LEMMA IntervalSize ==
    ASSUME NEW a \in Nat, NEW k \in Nat
    PROVE  IsFiniteSet((a + 1)..(a + k)) /\ Cardinality((a + 1)..(a + k)) = k
  <1>1. CASE k = 0
    <2>1. (a + 1)..(a + k) = {}
      BY <1>1
    <2> QED
      BY <1>1, <2>1, FS_EmptySet
  <1>2. CASE k # 0
    <2>1. a + 1 \in Int /\ a + k \in Int /\ ~(a + 1 > a + k)
      BY <1>2
    <2> QED
      BY <2>1, FS_Interval
  <1> QED
    BY <1>1, <1>2

LEMMA IntervalRank ==
    ASSUME NEW a \in Nat, NEW b \in Nat, NEW i \in (a + 1)..b
    PROVE  RankIn((a + 1)..b, i) = i - a
  <1>1. {h \in (a + 1)..b : h <= i} = (a + 1)..i
    OBVIOUS
  <1>2. Cardinality((a + 1)..i) = i - a
    BY FS_Interval
  <1> QED
    BY <1>1, <1>2 DEF RankIn

\* What is in order already stays as it is.
LEMMA InOrderOfInterval ==
    ASSUME NEW S, NEW s \in Seq(S), NEW a \in Nat, NEW b \in Nat, a <= b, b <= Len(s)
    PROVE  InOrder([i \in (a + 1)..b |-> s[i]]) = SubSeq(s, a + 1, b)
  <1> DEFINE f == [i \in (a + 1)..b |-> s[i]]
  <1>1. Cardinality(DOMAIN f) = b - a
    <2>1. DOMAIN f = (a + 1)..b
      OBVIOUS
    <2>2. Cardinality((a + 1)..b) = b - a
      <3>1. a + 1 \in Int /\ b \in Int
        OBVIOUS
      <3>2. Cardinality((a + 1)..b) = IF a + 1 > b THEN 0 ELSE b - (a + 1) + 1
        BY <3>1, FS_Interval
      <3> QED
        BY <3>2
    <2> QED
      BY <2>1, <2>2
  <1>2. ASSUME NEW j \in 1..(b - a)
        PROVE  (CHOOSE i \in DOMAIN f : Cardinality({h \in DOMAIN f : h <= i}) = j) = a + j
    <2>1. a + j \in DOMAIN f
      OBVIOUS
    <2>2. \A i \in DOMAIN f : Cardinality({h \in DOMAIN f : h <= i}) = i - a
      BY IntervalRank DEF RankIn
    <2>3. \A i \in DOMAIN f : Cardinality({h \in DOMAIN f : h <= i}) = j <=> i = a + j
      BY <2>2
    <2> HIDE DEF f
    <2> QED
      BY <2>1, <2>3
  <1>3. \A j \in 1..(b - a) : f[a + j] = s[a + j]
    OBVIOUS
  <1>4. InOrder(f) = [j \in 1..(b - a) |-> s[a + j]]
    <2> HIDE DEF f
    <2> QED
      BY <1>1, <1>2, <1>3 DEF InOrder
  <1>5. SubSeq(s, a + 1, b) = [j \in 1..(b - a) |-> s[a + j]]
    OBVIOUS
  <1> QED
    BY <1>4, <1>5

LEMMA Ranks ==
    ASSUME NEW A \in SUBSET Nat, IsFiniteSet(A)
    PROVE  /\ \A i \in A : RankIn(A, i) \in 1..Cardinality(A)
           /\ \A i, k \in A : i < k => RankIn(A, i) < RankIn(A, k)
  <1> DEFINE Upto(i) == {h \in A : h <= i}
  <1>1. \A i \in A : /\ IsFiniteSet(Upto(i)) /\ Cardinality(Upto(i)) \in Nat
                     /\ Cardinality(Upto(i)) <= Cardinality(A)
    <2>1. \A i \in A : Upto(i) \in SUBSET A
      OBVIOUS
    <2> HIDE DEF Upto
    <2> QED
      BY <2>1, FS_Subset, FS_CardinalityType
  <1>2. \A i \in A : Cardinality(Upto(i)) # 0
    <2>1. \A i \in A : i \in Upto(i)
      OBVIOUS
    <2> HIDE DEF Upto
    <2> QED
      BY <2>1, <1>1, FS_EmptySet
  <1>3. ASSUME NEW i \in A, NEW k \in A, i < k
        PROVE  Cardinality(Upto(i)) < Cardinality(Upto(k))
    <2>1. Upto(i) \in SUBSET Upto(k) /\ k \in Upto(k) /\ k \notin Upto(i)
      <3>1. i \in Nat /\ k \in Nat /\ \A h \in A : h \in Nat
        OBVIOUS
      <3>2. k \in Upto(k) /\ k \notin Upto(i)
        BY <3>1, <1>3
      <3>3. \A h \in A : h <= i => h <= k
        BY <3>1, <1>3
      <3>4. Upto(i) \subseteq Upto(k)
        BY <3>3
      <3> QED
        BY <3>2, <3>4
    <2> HIDE DEF Upto
    <2>2. Cardinality(Upto(i)) <= Cardinality(Upto(k)) /\ Upto(i) # Upto(k)
      BY <2>1, <1>1, FS_Subset
    <2>3. Cardinality(Upto(i)) # Cardinality(Upto(k))
      BY <2>1, <2>2, <1>1, FS_Subset
    <2> QED
      BY <2>2, <2>3, <1>1
  <1>4. Cardinality(A) \in Nat
    BY FS_CardinalityType
  <1> QED
    BY <1>1, <1>2, <1>3, <1>4 DEF RankIn

LEMMA EveryRank ==
    ASSUME NEW A \in SUBSET Nat, IsFiniteSet(A), NEW j \in 1..Cardinality(A)
    PROVE  \E i \in A : RankIn(A, i) = j
  <1> DEFINE r == [i \in A |-> RankIn(A, i)]
             T == 1..Cardinality(A)
  <1>1. Cardinality(A) \in Nat
    BY FS_CardinalityType
  <1>2. IsFiniteSet(T) /\ Cardinality(T) = Cardinality(A)
    BY <1>1, FS_Interval
  <1>3. r \in [A -> T]
    BY Ranks
  <1>4. \A i, k \in A : r[i] = r[k] => i = k
    <2>1. \A i, k \in A : i < k => r[i] < r[k]
      BY Ranks
    <2>2. \A i \in A : r[i] \in Nat /\ i \in Nat
      BY <1>3, <1>1
    <2> HIDE DEF r
    <2> QED
      BY <2>1, <2>2
  <1>5. r \in Injection(A, T)
    BY <1>3, <1>4 DEF Injection, IsInjective
  <1>6. r \in Surjection(A, T)
    <2> HIDE DEF r, T
    <2> QED
      BY <1>2, <1>5, FS_Injection
  <1>7. \E i \in A : r[i] = j
    BY <1>6 DEF Surjection
  <1> QED
    BY <1>7

LEMMA SameRank ==
    ASSUME NEW A \in SUBSET Nat, IsFiniteSet(A), NEW i \in A, NEW k \in A,
           RankIn(A, i) = RankIn(A, k)
    PROVE  i = k
  <1>1. RankIn(A, i) \in Nat /\ RankIn(A, k) \in Nat /\ i \in Nat /\ k \in Nat
    BY Ranks, FS_CardinalityType
  <1>2. ~(i < k) /\ ~(k < i)
    BY <1>1, Ranks
  <1> QED
    BY <1>1, <1>2

\* Each value stands at the rank of its argument.
LEMMA InOrderAt ==
    ASSUME NEW f, DOMAIN f \in SUBSET Nat, IsFiniteSet(DOMAIN f), NEW i \in DOMAIN f
    PROVE  InOrder(f)[RankIn(DOMAIN f, i)] = f[i]
  <1> DEFINE j == RankIn(DOMAIN f, i)
  <1>1. j \in 1..Cardinality(DOMAIN f)
    BY Ranks
  <1>2. \A k \in DOMAIN f : Cardinality({h \in DOMAIN f : h <= k}) = j <=> k = i
    BY SameRank DEF RankIn
  <1> HIDE DEF j
  <1>3. (CHOOSE k \in DOMAIN f : Cardinality({h \in DOMAIN f : h <= k}) = j) = i
    BY <1>2
  <1>4. InOrder(f)[j] = f[CHOOSE k \in DOMAIN f : Cardinality({h \in DOMAIN f : h <= k}) = j]
    BY <1>1 DEF InOrder
  <1> QED
    BY <1>3, <1>4 DEF j

LEMMA Concatenation ==
    ASSUME NEW S, NEW s \in Seq(S), NEW t \in Seq(S)
    PROVE  s \o t = [j \in 1..(Len(s) + Len(t)) |->
                       IF j <= Len(s) THEN s[j] ELSE t[j - Len(s)]]
  <1> DEFINE x == s \o t
  <1>1. /\ x \in Seq(S) /\ Len(x) = Len(s) + Len(t)
        /\ \A j \in 1..(Len(s) + Len(t)) :
             x[j] = IF j <= Len(s) THEN s[j] ELSE t[j - Len(s)]
    BY ConcatProperties
  <1> HIDE DEF x
  <1>2. x \in [1..(Len(s) + Len(t)) -> S]
    BY <1>1, LenProperties
  <1>3. x = [j \in 1..(Len(s) + Len(t)) |-> x[j]]
    BY <1>2
  <1> QED
    BY <1>1, <1>3 DEF x

\* g has the values of f, and then those of e behind n.
Extends(f, g, n, e) ==
    /\ DOMAIN f \subseteq 1..n
    /\ DOMAIN g = DOMAIN f \cup (n + 1)..(n + Len(e))
    /\ \A i \in DOMAIN f : g[i] = f[i]
    /\ \A k \in 1..Len(e) : g[n + k] = e[k]

\* What comes after all the rest is appended.
LEMMA InOrderOfMore ==
    ASSUME NEW n \in Nat, NEW f, NEW g, NEW V, NEW e \in Seq(V),
           Extends(f, g, n, e)
    PROVE  InOrder(g) = InOrder(f) \o e
  <1>0. /\ DOMAIN f \subseteq 1..n
        /\ DOMAIN g = DOMAIN f \cup (n + 1)..(n + Len(e))
        /\ \A i \in DOMAIN f : g[i] = f[i]
        /\ \A k \in 1..Len(e) : g[n + k] = e[k]
    BY DEF Extends
  <1> DEFINE A == DOMAIN f
             B == DOMAIN g
             C == (n + 1)..(n + Len(e))
  <1>1. A \in SUBSET Nat /\ B \in SUBSET Nat /\ Len(e) \in Nat /\ A \cap C = {}
    BY <1>0
  <1>2. /\ IsFiniteSet(A) /\ IsFiniteSet(C) /\ IsFiniteSet(B)
        /\ Cardinality(C) = Len(e) /\ Cardinality(B) = Cardinality(A) + Len(e)
        /\ Cardinality(A) \in Nat
    <2>1. IsFiniteSet(A)
      <3>1. IsFiniteSet(1..n)
        BY FS_Interval
      <3>2. A \in SUBSET (1..n)
        BY <1>0
      <3> QED
        BY <3>1, <3>2, FS_Subset
    <2>2. IsFiniteSet(C) /\ Cardinality(C) = Len(e)
      BY <1>1, IntervalSize
    <2>3. Cardinality(A) \in Nat
      BY <2>1, FS_CardinalityType
    <2>4. IsFiniteSet(B) /\ Cardinality(B) = Cardinality(A) + Cardinality(C) - Cardinality(A \cap C)
      <3>1. B = A \cup C
        BY <1>0
      <3> HIDE DEF A, B, C
      <3> QED
        BY <3>1, <2>1, <2>2, FS_Union
    <2>5. Cardinality(A \cap C) = 0
      BY <1>1, FS_EmptySet
    <2> HIDE DEF A, B, C
    <2> QED
      BY <2>1, <2>2, <2>3, <2>4, <2>5
  <1>3. \A i \in A : RankIn(B, i) = RankIn(A, i)
    <2>1. \A i \in A : {h \in B : h <= i} = {h \in A : h <= i}
      BY <1>0
    <2> QED
      BY <2>1 DEF RankIn
  <1>4. \A k \in 1..Len(e) : n + k \in C /\ RankIn(B, n + k) = Cardinality(A) + k
    <2> TAKE k \in 1..Len(e)
    <2>1. {h \in B : h <= n + k} = A \cup (n + 1)..(n + k)
      BY <1>0
    <2>2. IsFiniteSet((n + 1)..(n + k)) /\ Cardinality((n + 1)..(n + k)) = k
      <3>1. n + 1 \in Int /\ n + k \in Int /\ k \in Nat /\ ~(n + 1 > n + k)
        OBVIOUS
      <3> QED
        BY <3>1, FS_Interval
    <2>3. A \cap (n + 1)..(n + k) = {}
      BY <1>0
    <2>4. Cardinality(A \cup (n + 1)..(n + k)) = Cardinality(A) + k
      <3> DEFINE D == (n + 1)..(n + k)
      <3>1. /\ IsFiniteSet(A) /\ IsFiniteSet(D) /\ A \cap D = {}
            /\ Cardinality(D) = k /\ Cardinality(A) \in Nat /\ k \in Nat
        BY <2>2, <2>3, <1>2
      <3> HIDE DEF A, D
      <3>2. Cardinality(A \cup D) = Cardinality(A) + Cardinality(D) - Cardinality(A \cap D)
        BY <3>1, FS_Union
      <3>3. Cardinality(A \cap D) = 0
        BY <3>1, FS_EmptySet
      <3>4. Cardinality(A \cup D) = Cardinality(A) + k
        BY <3>1, <3>2, <3>3
      <3> QED
        BY <3>4 DEF D
    <2>5. RankIn(B, n + k) = Cardinality(A) + k
      BY <2>1, <2>4 DEF RankIn
    <2> QED
      BY <2>5
  <1>5. InOrder(f) = [j \in 1..Cardinality(A) |-> InOrder(f)[j]]
    BY DEF InOrder
  <1>6. InOrder(g) = [j \in 1..(Cardinality(A) + Len(e)) |-> InOrder(g)[j]]
    BY <1>2 DEF InOrder
  <1>7. \A j \in 1..Cardinality(A) : InOrder(g)[j] = InOrder(f)[j]
    <2> TAKE j \in 1..Cardinality(A)
    <2>1. PICK i \in A : RankIn(A, i) = j
      BY <1>1, <1>2, EveryRank
    <2>2. InOrder(f)[j] = f[i]
      BY <2>1, <1>1, <1>2, InOrderAt
    <2>3. InOrder(g)[j] = g[i]
      <3>1. i \in B /\ RankIn(B, i) = j
        BY <1>0, <1>3, <2>1
      <3> QED
        BY <3>1, <1>1, <1>2, InOrderAt
    <2> QED
      BY <1>0, <2>1, <2>2, <2>3
  <1>8. \A k \in 1..Len(e) : InOrder(g)[Cardinality(A) + k] = e[k]
    <2> TAKE k \in 1..Len(e)
    <2>1. n + k \in B /\ RankIn(B, n + k) = Cardinality(A) + k
      BY <1>0, <1>4
    <2>2. InOrder(g)[RankIn(B, n + k)] = g[n + k]
      BY <2>1, <1>1, <1>2, InOrderAt
    <2> QED
      BY <1>0, <2>1, <2>2
  <1> DEFINE c == Cardinality(A)
             W == {InOrder(f)[j] : j \in 1..c}
  <1>9. c \in Nat
    BY <1>2
  <1>10. InOrder(f) \in Seq(W) /\ Len(InOrder(f)) = c
    <2> DEFINE x == InOrder(f)
    <2>1. x = [j \in 1..c |-> x[j]]
      BY <1>5
    <2> HIDE DEF x, c
    <2>2. x \in [1..c -> {x[j] : j \in 1..c}]
      BY <2>1
    <2>3. x \in Seq({x[j] : j \in 1..c}) /\ Len(x) = c
      <3> DEFINE X == {x[j] : j \in 1..c}
      <3>1. x \in [1..c -> X]
        BY <2>2
      <3> HIDE DEF X
      <3>2. x \in Seq(X) /\ Len(x) = c
        BY <3>1, <1>9
      <3> QED
        BY <3>2 DEF X
    <2> QED
      BY <2>3 DEF x
  <1> HIDE DEF c, W
  <1>11. InOrder(f) \o e =
           [j \in 1..(c + Len(e)) |-> IF j <= c THEN InOrder(f)[j] ELSE e[j - c]]
    <2>1. InOrder(f) \in Seq(W \cup V) /\ e \in Seq(W \cup V)
      <3>1. \A S, T : Seq(S) \subseteq Seq(S \cup T)
        OBVIOUS
      <3> QED
        BY <1>10, <3>1
    <2>2. InOrder(f) \o e =
            [j \in 1..(Len(InOrder(f)) + Len(e)) |->
               IF j <= Len(InOrder(f)) THEN InOrder(f)[j] ELSE e[j - Len(InOrder(f))]]
      BY <2>1, Concatenation
    <2> QED
      BY <2>2, <1>10
  <1>12. \A j \in 1..(c + Len(e)) :
           InOrder(g)[j] = IF j <= c THEN InOrder(f)[j] ELSE e[j - c]
    <2> TAKE j \in 1..(c + Len(e))
    <2>1. CASE j <= c
      BY <2>1, <1>7, <1>9 DEF c
    <2>2. CASE ~(j <= c)
      <3>1. j - c \in 1..Len(e) /\ c + (j - c) = j
        BY <2>2, <1>9, <1>1
      <3>2. InOrder(g)[c + (j - c)] = e[j - c]
        BY <3>1, <1>8 DEF c
      <3> QED
        BY <2>2, <3>1, <3>2
    <2> QED
      BY <2>1, <2>2
  <1> QED
    BY <1>6, <1>11, <1>12 DEF c

-----------------------------------------------------------------------------
(* The inductive invariant.                                                *)

\* What may be said of the drain by where it is.
Stages ==
    /\ pc \in {"cutoff", "promote", "ready", "status", "provide", "tools", "results", "cleanup"}
         => rounds < MaxRounds
    /\ pc \notin {"tools", "results", "cleanup"} => answered = 0
    /\ pc \in {"notified", "renotified"} => queue # << >>
    /\ cutoff <= Len(admitted)

\* Goroutines run only in executeTools, for calls of the batch; a call that is
\* about to be executed is recorded as running and has not been executed, and one
\* that was executed is never pending again.
ToolsHold ==
    /\ \A k \in Calls : pc # "tools" => tool[k] \in {"none", "done", "lost"}
    /\ \A k \in Calls : pc = "tools" /\ tool[k] # "none" => Contains(batch, k)
    /\ \A k \in Calls : ran[k] \in {0, 1}
    /\ \A k \in Calls : ran[k] = 1 => calls[k] \in Terminal \cup {"running"}
    /\ \A k \in Calls : tool[k] = "started" => calls[k] = "running" /\ ran[k] = 0

\* A notice has one row.
NoticesOnce ==
    \A i, j \in Rows("user") :
        history[i].of = history[j].of /\ history[i].of \in Notices => i = j

\* The prompts the model has been given, in the order of the history, ...
Given == InOrder([i \in PromptRows |-> history[i].of])

\* ... are those promoted, and they are the first that were admitted.
Prefix(m) ==
    /\ promoted = {admitted[i] : i \in 1..m}
    /\ Given = SubSeq(admitted, 1, m)

PromptsHold ==
    /\ \A i, j \in DOMAIN admitted : admitted[i] = admitted[j] => i = j
    /\ \E m \in 0..Len(admitted) : Prefix(m)

IInv == TypeOK /\ Stages /\ ToolsHold /\ NoticesOnce /\ PromptsHold

-----------------------------------------------------------------------------
(* What the operators of the drain give.                                   *)

LEMMA CallsOfRows ==
    ASSUME TypeOK, NEW i \in Rows("assistant")
    PROVE  history[i].calls \in Seq(Calls)
  <1>1. history[i] \in Row /\ history[i].role = "assistant"
    BY DEF TypeOK, Rows
  <1> QED
    BY <1>1 DEF Row

LEMMA UsedType ==
    ASSUME TypeOK
    PROVE  Used \in Nat
  <1> DEFINE U == UNION {ToSet(history[i].calls) : i \in Rows("assistant")}
  <1>1. U \in SUBSET Calls
    <2>1. \A i \in Rows("assistant") : ToSet(history[i].calls) \subseteq Calls
      BY CallsOfRows DEF ToSet
    <2> QED
      BY <2>1
  <1>2. IsFiniteSet(Calls)
    BY DrainAssumption, FS_Interval DEF Calls
  <1>3. Cardinality(U) \in Nat
    <2> HIDE DEF U
    <2> QED
      BY <1>1, <1>2, FS_Subset, FS_CardinalityType
  <1> QED
    BY <1>3 DEF Used

LEMMA NewBatchType ==
    ASSUME TypeOK, NEW n \in BatchSizes
    PROVE  NewBatch(n) \in Seq(Calls)
  <1>1. Used \in Nat /\ n \in Nat /\ Used + n <= MaxCalls /\ MaxCalls \in Nat
    BY UsedType, DrainAssumption DEF BatchSizes
  <1>2. \A i \in 1..n : Used + i \in Calls
    BY <1>1 DEF Calls
  <1> QED
    BY <1>1, <1>2 DEF NewBatch

LEMMA RowTypes ==
    /\ \A x \in Prompts \cup Notices \cup {None} : User(x) \in Row
    /\ \A k \in Calls : Result(k) \in Row
    /\ [role |-> "system"] \in Row
    /\ \A s \in {"active", "complete", "error", "interrupted"}, t \in BOOLEAN, c \in Seq(Calls) :
         Assistant(s, t, c) \in Row
  BY DEF Row, User, Result, Assistant

\* Promote takes what was admitted after the last promotion.
LEMMA WhatIsTaken ==
    ASSUME TypeOK, PromptsHold, NEW m \in 0..Len(admitted), Prefix(m),
           NEW n \in 0..Len(admitted)
    PROVE  InOrder(Unpromoted(n)) = SubSeq(admitted, m + 1, n)
  <1>1. admitted \in Seq(Prompts) /\ Len(admitted) \in Nat /\ DOMAIN admitted = 1..Len(admitted)
    BY DEF TypeOK
  <1>2. {k \in 1..n : admitted[k] \notin promoted} = (m + 1)..n
    <2>1. \A k \in 1..n : admitted[k] \in promoted <=> k <= m
      BY <1>1 DEF PromptsHold, Prefix
    <2> QED
      BY <2>1, <1>1
  <1>3. Unpromoted(n) = [i \in (m + 1)..n |-> admitted[i]]
    BY <1>2 DEF Unpromoted
  <1>4. CASE m <= n
    <2>1. m \in Nat /\ n \in Nat /\ n <= Len(admitted)
      BY <1>1
    <2>2. InOrder([i \in (m + 1)..n |-> admitted[i]]) = SubSeq(admitted, m + 1, n)
      BY <2>1, <1>1, <1>4, InOrderOfInterval
    <2> QED
      BY <2>2, <1>3
  <1>5. CASE n < m
    <2>1. DOMAIN Unpromoted(n) = {}
      BY <1>3, <1>5
    <2>2. InOrder(Unpromoted(n)) = << >>
      BY <2>1, InOrderOfNothing
    <2>3. SubSeq(admitted, m + 1, n) = << >>
      BY <1>1, <1>5
    <2> QED
      BY <2>2, <2>3
  <1> QED
    BY <1>1, <1>4, <1>5

\* PromoteSteers adds rows of the prompts that come next.
LEMMA PromoteRows ==
    ASSUME TypeOK, Stages, PromptsHold, Promote
    PROVE  \E m \in 0..Len(admitted) :
             LET taken == SubSeq(admitted, m + 1, cutoff) IN
             /\ Prefix(m)
             /\ taken \in Seq(Prompts)
             /\ promoted' = promoted \cup ToSet(taken)
             /\ history' = history \o [i \in DOMAIN taken |-> User(taken[i])]
  <1>1. PICK m \in 0..Len(admitted) : Prefix(m)
    BY DEF PromptsHold
  <1>2. cutoff \in 0..Len(admitted) /\ admitted \in Seq(Prompts) /\ Len(admitted) \in Nat
    BY DEF TypeOK, Stages
  <1> DEFINE taken == SubSeq(admitted, m + 1, cutoff)
  <1>3. InOrder(Unpromoted(cutoff)) = taken
    BY <1>1, <1>2, WhatIsTaken
  <1>4. taken \in Seq(Prompts)
    BY <1>2
  <1>5. /\ promoted' = promoted \cup ToSet(taken)
        /\ history' = history \o [i \in DOMAIN taken |-> User(taken[i])]
    BY <1>3 DEF Promote
  <1> QED
    BY <1>1, <1>4, <1>5

Closing(row) ==
    history' = [i \in DOMAIN history |-> IF i \in ActiveRows THEN row ELSE history[i]]

\* The steps that change the history: something other than a user's row is
\* appended, or a notice or the goal's message, or the active rows are closed, or
\* prompts are promoted.
LEMMA HistoryStep ==
    ASSUME TypeOK, Stages, [Next]_vars
    PROVE  \/ history' = history
           \/ \E row \in Row : row.role # "user" /\ history' = Append(history, row)
           \/ \E x \in Notices \cup {None} :
                 (x \in Notices => ~Noticed(x)) /\ history' = Append(history, User(x))
           \/ \E row \in Row : row.role = "assistant" /\ Closing(row)
           \/ Promote
  <1> DEFINE G ==
          \/ history' = history
          \/ \E row \in Row : row.role # "user" /\ history' = Append(history, row)
          \/ \E x \in Notices \cup {None} :
                (x \in Notices => ~Noticed(x)) /\ history' = Append(history, User(x))
          \/ \E row \in Row : row.role = "assistant" /\ Closing(row)
          \/ Promote
  <1>1. ASSUME NEW x \in Prompts, Admit(x) PROVE G
    BY <1>1 DEF Admit, durable, volatile, counters, KeptByTools
  <1>2. ASSUME NEW n \in Notices, Offer(n) PROVE G
    BY <1>2 DEF Offer, durable, volatile, counters, KeptByTools
  <1>3. ASSUME Begin PROVE G
    BY <1>3 DEF Begin, durable, volatile, counters, KeptByTools
  <1>4. ASSUME Cancel PROVE G
    BY <1>4 DEF Cancel, durable, volatile, counters, KeptByTools
  <1>5. ASSUME Crash PROVE G
    BY <1>5 DEF Crash, End, Forget, durable, volatile, counters, KeptByTools
  <1>6. ASSUME Repair PROVE G
    <2>1. << >> \in Seq(Calls)
      OBVIOUS
    <2>2. Assistant("interrupted", FALSE, << >>) \in Row
      BY <2>1, RowTypes
    <2> QED
      BY <1>6, <2>2 DEF Repair, Closing, Assistant
  <1>7. ASSUME ReadCutoff PROVE G
    BY <1>7 DEF ReadCutoff, durable, volatile, counters, KeptByTools
  <1>8. ASSUME Promote PROVE G
    BY <1>8
  <1>9. ASSUME CheckReady PROVE G
    BY <1>9 DEF CheckReady, durable, volatile, counters, KeptByTools
  <1>10. ASSUME AppendStatus PROVE G
    <2>1. CASE Append1([role |-> "system"])
      BY <2>1, RowTypes DEF Append1
    <2>2. CASE history' = history
      BY <2>2
    <2> QED
      BY <1>10, <2>1, <2>2 DEF AppendStatus
  <1>11. ASSUME StartAssistant PROVE G
    <2>1. << >> \in Seq(Calls)
      OBVIOUS
    <2>2. Assistant("active", FALSE, << >>) \in Row
      BY <2>1, RowTypes
    <2> QED
      BY <1>11, <2>2 DEF StartAssistant, Append1, Assistant
  <1>12. ASSUME NEW n \in BatchSizes, NEW text \in BOOLEAN, StreamCompletes(n, text) PROVE G
    <2>1. Assistant("complete", text, NewBatch(n)) \in Row
      BY NewBatchType, RowTypes
    <2> QED
      BY <1>12, <2>1 DEF StreamCompletes, FinishAs, Closing, Assistant
  <1>13. ASSUME NEW n \in BatchSizes, NEW text \in BOOLEAN, StreamFails(n, text) PROVE G
    <2>1. << >> \in Seq(Calls)
      OBVIOUS
    <2>2. /\ Assistant("error", text, << >>) \in Row
          /\ Assistant("interrupted", text, NewBatch(n)) \in Row
      BY <2>1, NewBatchType, RowTypes
    <2>3. CASE FinishAs(Assistant("error", text, << >>))
      BY <2>2, <2>3 DEF FinishAs, Closing, Assistant
    <2>4. CASE FinishAs(Assistant("interrupted", text, NewBatch(n)))
      BY <2>2, <2>4 DEF FinishAs, Closing, Assistant
    <2>5. CASE history' = history
      BY <2>5
    <2> QED
      BY <1>13, <2>3, <2>4, <2>5 DEF StreamFails
  <1>14. ASSUME AddToolCall PROVE G
    BY <1>14 DEF AddToolCall, durable, volatile, counters, KeptByTools
  <1>15. ASSUME Recorded PROVE G
    BY <1>15 DEF Recorded, End, Forget, durable, volatile, counters, KeptByTools
  <1>16. ASSUME NEW k \in Calls, StartTool(k) PROVE G
    BY <1>16 DEF StartTool, ToolGoes, KeptByTools, durable, volatile, counters, KeptByTools
  <1>17. ASSUME NEW k \in Calls, RunTool(k) PROVE G
    BY <1>17 DEF RunTool, ToolGoes, KeptByTools, durable, volatile, counters, KeptByTools
  <1>18. ASSUME NEW k \in Calls, SettleTool(k) PROVE G
    BY <1>18 DEF SettleTool, ToolGoes, KeptByTools, durable, volatile, counters, KeptByTools
  <1>19. ASSUME NEW k \in Calls, LoseTool(k) PROVE G
    BY <1>19 DEF LoseTool, ToolGoes, KeptByTools, durable, volatile, counters, KeptByTools
  <1>20. ASSUME NEW k \in Calls, CleanUp(k) PROVE G
    BY <1>20 DEF CleanUp, KeptByTools, durable, volatile, counters, KeptByTools
  <1>21. ASSUME ToolsDone PROVE G
    BY <1>21 DEF ToolsDone, End, Forget, durable, volatile, counters, KeptByTools
  <1>22. ASSUME AppendResult PROVE G
    <2>1. batch[answered + 1] \in Calls
      BY <1>22 DEF AppendResult, TypeOK
    <2>2. Result(batch[answered + 1]) \in Row /\ Result(batch[answered + 1]).role = "tool"
      BY <2>1, RowTypes DEF Result
    <2> QED
      BY <1>22, <2>2 DEF AppendResult, Append1
  <1>23. ASSUME Answered PROVE G
    BY <1>23 DEF Answered, End, Forget, durable, volatile, counters, KeptByTools
  <1>24. ASSUME AppendNotice PROVE G
    <2>1. Head(queue) \in Notices
      BY <1>24 DEF AppendNotice, TypeOK
    <2>2. CASE ~Noticed(Head(queue)) /\ Append1(User(Head(queue)))
      BY <2>1, <2>2 DEF Append1
    <2>3. CASE history' = history
      BY <2>3
    <2> QED
      BY <1>24, <2>2, <2>3 DEF AppendNotice
  <1>25. ASSUME DropNotice PROVE G
    BY <1>25 DEF DropNotice, durable, volatile, counters, KeptByTools
  <1>26. ASSUME NoNotice PROVE G
    BY <1>26 DEF NoNotice, durable, volatile, counters, KeptByTools
  <1>27. ASSUME ContinueGoal PROVE G
    <2>1. CASE Append1(User(None))
      BY <2>1, DrainAssumption DEF Append1
    <2>2. CASE history' = history
      BY <2>2
    <2> QED
      BY <1>27, <2>1, <2>2 DEF ContinueGoal
  <1>28. ASSUME DrainFails PROVE G
    BY <1>28 DEF DrainFails, End, Forget, durable, volatile, counters, KeptByTools
  <1>29. ASSUME UNCHANGED vars PROVE G
    BY <1>29 DEF vars, durable, volatile, counters, KeptByTools
  <1> QED
    BY <1>1, <1>2, <1>3, <1>4, <1>5, <1>6, <1>7, <1>8, <1>9, <1>10, <1>11, <1>12, <1>13,
       <1>14, <1>15, <1>16, <1>17, <1>18, <1>19, <1>20, <1>21, <1>22, <1>23, <1>24, <1>25,
       <1>26, <1>27, <1>28, <1>29 DEF Next, Drain

\* The rows that PromoteSteers adds, by position.
LEMMA RowsAfterPromote ==
    ASSUME TypeOK, NEW taken \in Seq(Prompts),
           history' = history \o [i \in DOMAIN taken |-> User(taken[i])]
    PROVE  /\ history' \in Seq(Row)
           /\ Len(history') = Len(history) + Len(taken)
           /\ \A i \in 1..Len(history) : history'[i] = history[i]
           /\ \A i \in 1..Len(taken) : history'[Len(history) + i] = User(taken[i])
  <1> DEFINE e == [i \in DOMAIN taken |-> User(taken[i])]
  <1>1. /\ history \in Seq(Row) /\ Len(history) \in Nat
        /\ Len(taken) \in Nat /\ DOMAIN taken = 1..Len(taken)
    BY DEF TypeOK
  <1>2. \A i \in 1..Len(taken) : User(taken[i]) \in Row
    BY RowTypes
  <1>3. e \in [1..Len(taken) -> Row]
    BY <1>1, <1>2
  <1>4. e \in Seq(Row) /\ Len(e) = Len(taken)
    <2> HIDE DEF e
    <2> QED
      BY <1>1, <1>3
  <1>5. /\ history \o e \in Seq(Row)
        /\ Len(history \o e) = Len(history) + Len(taken)
        /\ \A i \in 1..(Len(history) + Len(taken)) :
             (history \o e)[i] = IF i <= Len(history) THEN history[i] ELSE e[i - Len(history)]
    <2> HIDE DEF e
    <2>1. /\ history \o e \in Seq(Row)
          /\ Len(history \o e) = Len(history) + Len(e)
          /\ \A i \in 1..(Len(history) + Len(e)) :
               (history \o e)[i] = IF i <= Len(history) THEN history[i] ELSE e[i - Len(history)]
      BY <1>1, <1>4, ConcatProperties
    <2> QED
      BY <2>1, <1>4
  <1>6. \A i \in 1..Len(history) : (history \o e)[i] = history[i]
    <2> HIDE DEF e
    <2> QED
      BY <1>1, <1>5
  <1>7. \A i \in 1..Len(taken) : (history \o e)[Len(history) + i] = User(taken[i])
    <2> TAKE i \in 1..Len(taken)
    <2>1. Len(history) + i \in 1..(Len(history) + Len(taken)) /\ ~(Len(history) + i <= Len(history))
          /\ Len(history) + i - Len(history) = i
      BY <1>1
    <2>2. (history \o e)[Len(history) + i] = e[i]
      <3> HIDE DEF e
      <3> QED
        BY <2>1, <1>5
    <2> QED
      BY <2>2, <1>1
  <1>8. history' = history \o e
    OBVIOUS
  <1> HIDE DEF e
  <1> QED
    BY <1>5, <1>6, <1>7, <1>8

\* Past rows stay, but for the active ones that are closed.
LEMMA HistoryGrows ==
    ASSUME TypeOK, Stages, PromptsHold, [Next]_vars
    PROVE  /\ history' \in Seq(Row)
           /\ Len(history) <= Len(history')
           /\ \A i \in DOMAIN history : i \notin ActiveRows => history'[i] = history[i]
  <1>1. history \in Seq(Row) /\ Len(history) \in Nat /\ DOMAIN history = 1..Len(history)
    BY DEF TypeOK
  <1>2. CASE history' = history
    BY <1>1, <1>2
  <1>3. ASSUME NEW row \in Row, history' = Append(history, row)
        PROVE  /\ history' \in Seq(Row)
               /\ Len(history) <= Len(history')
               /\ \A i \in DOMAIN history : history'[i] = history[i]
    BY <1>1, <1>3
  <1>4. CASE \E x \in Notices \cup {None} : history' = Append(history, User(x))
    BY <1>3, <1>4, RowTypes
  <1>5. ASSUME NEW row \in Row, Closing(row)
        PROVE  /\ history' \in Seq(Row)
               /\ Len(history) = Len(history')
               /\ \A i \in DOMAIN history : i \notin ActiveRows => history'[i] = history[i]
    <2>1. history' \in [1..Len(history) -> Row]
      BY <1>1, <1>5 DEF Closing
    <2>2. history' \in Seq(Row) /\ Len(history) = Len(history')
      BY <2>1, <1>1
    <2> QED
      BY <2>2, <1>1, <1>5 DEF Closing
  <1>6. CASE Promote
    <2>1. PICK taken \in Seq(Prompts) :
                history' = history \o [i \in DOMAIN taken |-> User(taken[i])]
      BY <1>6, PromoteRows
    <2> QED
      BY <2>1, <1>1, RowsAfterPromote, SMTT(20)
  <1>7. \/ history' = history
        \/ \E row \in Row : history' = Append(history, row)
        \/ \E x \in Notices \cup {None} : history' = Append(history, User(x))
        \/ \E row \in Row : Closing(row)
        \/ Promote
    BY HistoryStep
  <1> QED
    BY <1>1, <1>2, <1>3, <1>4, <1>5, <1>6, <1>7

VolatileOK ==
    /\ pc \in Places
    /\ cancelled \in BOOLEAN /\ fresh \in BOOLEAN
    /\ cutoff \in Nat /\ rounds \in 0..MaxRounds
    /\ batch \in Seq(Calls) /\ answered \in 0..Len(batch)
    /\ tool \in [Calls -> {"none", "waiting", "started", "executed", "done", "lost"}]

LEMMA EndForgets ==
    ASSUME TypeOK, End
    PROVE  /\ VolatileOK'
           /\ pc' = "idle" /\ answered' = 0 /\ cutoff' = 0
           /\ \A k \in Calls : tool'[k] = "none"
  <1>1. pc' \in Places /\ pc' = "idle"
    BY DEF End, Places
  <1>2. cancelled' \in BOOLEAN /\ fresh' \in BOOLEAN /\ cutoff' \in Nat /\ cutoff' = 0
    BY DEF End, Forget
  <1>3. rounds' \in 0..MaxRounds
    BY DrainAssumption DEF End, Forget
  <1>4. batch' \in Seq(Calls) /\ Len(batch') = 0 /\ answered' = 0
    BY DEF End, Forget
  <1>5. answered' \in 0..Len(batch')
    BY <1>4
  <1>6. /\ tool' \in [Calls -> {"none", "waiting", "started", "executed", "done", "lost"}]
        /\ \A k \in Calls : tool'[k] = "none"
    BY DEF End, Forget
  <1> QED
    BY <1>1, <1>2, <1>3, <1>4, <1>5, <1>6 DEF VolatileOK

LEMMA TypesStep ==
    ASSUME TypeOK, Stages, PromptsHold, [Next]_vars
    PROVE  TypeOK'
  <1> DEFINE T == TypeOK'
  <1>0. history' \in Seq(Row)
    BY HistoryGrows
  <1>1. ASSUME NEW x \in Prompts, Admit(x) PROVE T
    <2>1. admitted' \in Seq(Prompts)
      BY <1>1 DEF Admit, TypeOK
    <2> QED
      BY <1>1, <1>0, <2>1 DEF Admit, volatile, counters, TypeOK
  <1>2. ASSUME NEW n \in Notices, Offer(n) PROVE T
    <2>1. queue' \in Seq(Notices)
      BY <1>2 DEF Offer, TypeOK
    <2> QED
      BY <1>2, <1>0, <2>1 DEF Offer, volatile, counters, TypeOK
  <1>3. ASSUME Begin PROVE T
    BY <1>3, <1>0, DrainAssumption DEF Begin, durable, volatile, counters, TypeOK, Places,
       Live, Terminal, Stages
  <1>4. ASSUME Cancel PROVE T
    BY <1>4, <1>0, DrainAssumption DEF Cancel, durable, volatile, counters, TypeOK, Places,
       Live, Terminal, Stages
  <1>5. ASSUME Crash PROVE T
    <2>1. VolatileOK'
      BY <1>5, EndForgets DEF Crash
    <2>2. crashes' \in 0..MaxCrashes /\ UNCHANGED <<durable, ran>>
      BY <1>5, DrainAssumption DEF Crash, TypeOK
    <2> QED
      BY <1>5, <1>0, <2>1, <2>2 DEF TypeOK, VolatileOK, durable
  <1>6. ASSUME Repair PROVE T
    BY <1>6, <1>0, DrainAssumption DEF Repair, durable, volatile, counters, TypeOK, Places,
       Live, Terminal, Stages
  <1>7. ASSUME ReadCutoff PROVE T
    BY <1>7, <1>0, DrainAssumption DEF ReadCutoff, durable, volatile, counters, TypeOK,
       Places, Live, Terminal, Stages
  <1>8. ASSUME Promote PROVE T
    <2>1. promoted' \subseteq Prompts
      <3>1. PICK taken \in Seq(Prompts) : promoted' = promoted \cup ToSet(taken)
        BY <1>8, PromoteRows
      <3> QED
        BY <3>1 DEF TypeOK, ToSet
    <2>2. ASSUME End PROVE VolatileOK'
      BY <2>2, EndForgets
    <2>3. ASSUME fresh' \in BOOLEAN, cutoff' = 0, pc' = "ready",
                 UNCHANGED <<cancelled, rounds, batch, tool, answered>>
          PROVE  VolatileOK'
      BY <2>3 DEF TypeOK, VolatileOK, Places
    <2>4. VolatileOK'
      BY <1>8, <2>2, <2>3 DEF Promote
    <2> QED
      BY <1>8, <1>0, <2>1, <2>4 DEF Promote, TypeOK, VolatileOK, counters
  <1>9. ASSUME CheckReady PROVE T
    BY <1>9, <1>0, DrainAssumption DEF CheckReady, durable, volatile, counters, TypeOK,
       Places, Live, Terminal, Stages
  <1>10. ASSUME AppendStatus PROVE T
    BY <1>10, <1>0, DrainAssumption DEF AppendStatus, Append1, durable, volatile, counters,
       TypeOK, Places, Live, Terminal, Stages
  <1>11. ASSUME StartAssistant PROVE T
    <2>1. rounds < MaxRounds /\ MaxRounds \in Nat /\ rounds \in Nat
      BY <1>11, DrainAssumption DEF StartAssistant, Stages, TypeOK
    <2>2. rounds' \in 0..MaxRounds
      BY <1>11, <2>1 DEF StartAssistant
    <2> QED
      BY <1>11, <1>0, <2>2 DEF StartAssistant, TypeOK, Places, counters
  <1>12. ASSUME NEW n \in BatchSizes, NEW text \in BOOLEAN, StreamCompletes(n, text) PROVE T
    <2>1. batch' \in Seq(Calls) /\ answered' \in 0..Len(batch')
      BY <1>12, NewBatchType DEF StreamCompletes, TypeOK, Stages
    <2> QED
      BY <1>12, <1>0, <2>1 DEF StreamCompletes, TypeOK, Places, counters
  <1>13. ASSUME NEW n \in BatchSizes, NEW text \in BOOLEAN, StreamFails(n, text) PROVE T
    <2>1. VolatileOK'
      BY <1>13, EndForgets DEF StreamFails, TypeOK, VolatileOK
    <2> QED
      BY <1>13, <1>0, <2>1 DEF StreamFails, TypeOK, VolatileOK, durable, counters
  <1>14. ASSUME AddToolCall PROVE T
    BY <1>14, <1>0, DrainAssumption DEF AddToolCall, durable, volatile, counters, TypeOK,
       Places, Live, Terminal, Stages
  <1>15. ASSUME Recorded PROVE T
    <2>1. VolatileOK'
      BY <1>15, EndForgets DEF Recorded, TypeOK, VolatileOK, Places, volatile
    <2> QED
      BY <1>15, <1>0, <2>1 DEF Recorded, TypeOK, VolatileOK, durable, counters
  <1>16. ASSUME NEW k \in Calls, StartTool(k) PROVE T
    BY <1>16, <1>0, DrainAssumption DEF StartTool, ToolGoes, KeptByTools, durable, volatile,
       counters, TypeOK, Places, Live, Terminal, Stages
  <1>17. ASSUME NEW k \in Calls, RunTool(k) PROVE T
    <2>1. /\ tool' \in [Calls -> {"none", "waiting", "started", "executed", "done", "lost"}]
          /\ ran' \in [Calls -> Nat]
      BY <1>17 DEF RunTool, ToolGoes, TypeOK
    <2> QED
      BY <1>17, <1>0, <2>1 DEF RunTool, KeptByTools, TypeOK
  <1>18. ASSUME NEW k \in Calls, SettleTool(k) PROVE T
    BY <1>18, <1>0, DrainAssumption DEF SettleTool, ToolGoes, KeptByTools, durable,
       volatile, counters, TypeOK, Places, Live, Terminal, Stages
  <1>19. ASSUME NEW k \in Calls, LoseTool(k) PROVE T
    BY <1>19, <1>0, DrainAssumption DEF LoseTool, ToolGoes, KeptByTools, durable, volatile,
       counters, TypeOK, Places, Live, Terminal, Stages
  <1>20. ASSUME NEW k \in Calls, CleanUp(k) PROVE T
    BY <1>20, <1>0, DrainAssumption DEF CleanUp, KeptByTools, durable, volatile, counters,
       TypeOK, Places, Live, Terminal, Stages
  <1>21. ASSUME ToolsDone PROVE T
    <2>1. VolatileOK'
      BY <1>21, EndForgets DEF ToolsDone, TypeOK, VolatileOK, Places, volatile
    <2> QED
      BY <1>21, <1>0, <2>1 DEF ToolsDone, TypeOK, VolatileOK, durable, counters
  <1>22. ASSUME AppendResult PROVE T
    <2>1. answered' \in 0..Len(batch')
      BY <1>22 DEF AppendResult, TypeOK
    <2> QED
      BY <1>22, <1>0, <2>1 DEF AppendResult, TypeOK, Places, counters
  <1>23. ASSUME Answered PROVE T
    <2>1. ASSUME End PROVE VolatileOK'
      BY <2>1, EndForgets
    <2>2. ASSUME /\ pc' = "cutoff" /\ batch' = << >> /\ answered' = 0
                 /\ tool' = [k \in Calls |-> "none"] /\ fresh' = FALSE
                 /\ UNCHANGED <<cancelled, cutoff, rounds>>
          PROVE  VolatileOK'
      <3>1. batch' \in Seq(Calls) /\ Len(batch') = 0
        BY <2>2
      <3>2. answered' \in 0..Len(batch')
        BY <2>2, <3>1
      <3> QED
        BY <2>2, <3>1, <3>2 DEF TypeOK, VolatileOK, Places
    <2>3. VolatileOK'
      BY <1>23, <2>1, <2>2 DEF Answered
    <2> QED
      BY <1>23, <1>0, <2>3 DEF Answered, TypeOK, VolatileOK, durable, counters
  <1>24. ASSUME AppendNotice PROVE T
    BY <1>24, <1>0, DrainAssumption DEF AppendNotice, Append1, durable, volatile, counters,
       TypeOK, Places, Live, Terminal, Stages
  <1>25. ASSUME DropNotice PROVE T
    <2>1. queue' \in Seq(Notices)
      BY <1>25 DEF DropNotice, TypeOK, Stages
    <2>2. pc' \in Places
      BY <1>25 DEF DropNotice, Places
    <2> QED
      BY <1>25, <1>0, <2>1, <2>2 DEF DropNotice, volatile, counters, TypeOK
  <1>26. ASSUME NoNotice PROVE T
    BY <1>26, <1>0, DrainAssumption DEF NoNotice, durable, volatile, counters, TypeOK,
       Places, Live, Terminal, Stages
  <1>27. ASSUME ContinueGoal PROVE T
    <2>1. VolatileOK'
      BY <1>27, EndForgets DEF ContinueGoal, TypeOK, VolatileOK, Places, volatile
    <2> QED
      BY <1>27, <1>0, <2>1 DEF ContinueGoal, TypeOK, VolatileOK, durable, counters
  <1>28. ASSUME DrainFails PROVE T
    <2>1. VolatileOK'
      BY <1>28, EndForgets DEF DrainFails, TypeOK, VolatileOK
    <2> QED
      BY <1>28, <1>0, <2>1 DEF DrainFails, TypeOK, VolatileOK, durable, counters
  <1>29. ASSUME UNCHANGED vars PROVE T
    BY <1>29, <1>0, DrainAssumption DEF vars, durable, volatile, counters, TypeOK, Places,
       Live, Terminal, Stages
  <1> QED
    BY <1>1, <1>2, <1>3, <1>4, <1>5, <1>6, <1>7, <1>8, <1>9, <1>10, <1>11, <1>12, <1>13,
       <1>14, <1>15, <1>16, <1>17, <1>18, <1>19, <1>20, <1>21, <1>22, <1>23, <1>24, <1>25,
       <1>26, <1>27, <1>28, <1>29 DEF Next, Drain

LEMMA StagesStep ==
    ASSUME TypeOK, Stages, TypeOK', [Next]_vars
    PROVE  Stages'
  <1> DEFINE S == Stages'
  <1>0. admitted \in Seq(Prompts) /\ cutoff \in Nat /\ rounds \in Nat
    BY DrainAssumption DEF TypeOK
  <1>e. ASSUME End, UNCHANGED admitted PROVE S
    <2>1. pc' = "idle" /\ answered' = 0 /\ cutoff' = 0
      BY <1>e, EndForgets
    <2> QED
      BY <1>0, <1>e, <2>1 DEF Stages
  <1>1. ASSUME NEW x \in Prompts, Admit(x) PROVE S
    BY <1>1, DrainAssumption DEF Admit, durable, volatile, counters, TypeOK, Stages
  <1>2. ASSUME NEW n \in Notices, Offer(n) PROVE S
    <2>1. queue' # << >>
      <3>1. queue \in Seq(Notices) /\ queue' = Append(queue, n)
        BY <1>2 DEF Offer, TypeOK
      <3> QED
        BY <3>1
    <2>2. /\ pc' = pc /\ rounds' = rounds /\ answered' = answered
          /\ cutoff' = cutoff /\ admitted' = admitted
      BY <1>2 DEF Offer, volatile, counters
    <2> QED
      BY <2>1, <2>2 DEF Stages
  <1>3. ASSUME Begin PROVE S
    BY <1>3, DrainAssumption DEF Begin, durable, volatile, counters, TypeOK, Stages
  <1>4. ASSUME Cancel PROVE S
    BY <1>4, DrainAssumption DEF Cancel, durable, volatile, counters, TypeOK, Stages
  <1>5. ASSUME Crash PROVE S
    BY <1>5, DrainAssumption DEF Crash, End, Forget, durable, volatile, counters, TypeOK,
       Stages
  <1>6. ASSUME Repair PROVE S
    BY <1>6, DrainAssumption DEF Repair, durable, volatile, counters, TypeOK, Stages
  <1>7. ASSUME ReadCutoff PROVE S
    BY <1>7, DrainAssumption DEF ReadCutoff, durable, volatile, counters, TypeOK, Stages
  <1>8. ASSUME Promote PROVE S
    <2>1. CASE End
      BY <1>8, <1>e, <2>1 DEF Promote
    <2>2. CASE pc' = "ready" /\ cutoff' = 0 /\ UNCHANGED <<rounds, answered>>
      BY <1>0, <1>8, <2>2 DEF Promote, Stages
    <2> QED
      BY <1>8, <2>1, <2>2 DEF Promote
  <1>9. ASSUME CheckReady PROVE S
    BY <1>9, DrainAssumption DEF CheckReady, durable, volatile, counters, TypeOK, Stages
  <1>10. ASSUME AppendStatus PROVE S
    BY <1>10, DrainAssumption DEF AppendStatus, Append1, durable, volatile, counters,
       TypeOK, Stages
  <1>11. ASSUME StartAssistant PROVE S
    BY <1>11, DrainAssumption DEF StartAssistant, Append1, durable, volatile, counters,
       TypeOK, Stages
  <1>12. ASSUME NEW n \in BatchSizes, NEW text \in BOOLEAN, StreamCompletes(n, text) PROVE S
    BY <1>12, DrainAssumption DEF StreamCompletes, FinishAs, durable, volatile, counters,
       TypeOK, Stages
  <1>13. ASSUME NEW n \in BatchSizes, NEW text \in BOOLEAN, StreamFails(n, text) PROVE S
    BY <1>13, DrainAssumption DEF StreamFails, End, Forget, FinishAs, durable, volatile,
       counters, TypeOK, Stages
  <1>14. ASSUME AddToolCall PROVE S
    BY <1>14, DrainAssumption DEF AddToolCall, durable, volatile, counters, TypeOK, Stages
  <1>15. ASSUME Recorded PROVE S
    <2>1. CASE End
      BY <1>15, <1>e, <2>1 DEF Recorded, durable
    <2>2. CASE ~End
      BY <1>15, <2>2 DEF Recorded, durable, volatile, Stages
    <2> QED
      BY <2>1, <2>2
  <1>16. ASSUME NEW k \in Calls, StartTool(k) PROVE S
    BY <1>16, DrainAssumption DEF StartTool, ToolGoes, KeptByTools, durable, volatile,
       counters, TypeOK, Stages
  <1>17. ASSUME NEW k \in Calls, RunTool(k) PROVE S
    BY <1>17, DrainAssumption DEF RunTool, ToolGoes, KeptByTools, durable, volatile,
       counters, TypeOK, Stages
  <1>18. ASSUME NEW k \in Calls, SettleTool(k) PROVE S
    BY <1>18, DrainAssumption DEF SettleTool, ToolGoes, KeptByTools, durable, volatile,
       counters, TypeOK, Stages
  <1>19. ASSUME NEW k \in Calls, LoseTool(k) PROVE S
    BY <1>19, DrainAssumption DEF LoseTool, ToolGoes, KeptByTools, durable, volatile,
       counters, TypeOK, Stages
  <1>20. ASSUME NEW k \in Calls, CleanUp(k) PROVE S
    BY <1>20, DrainAssumption DEF CleanUp, KeptByTools, durable, volatile, counters, TypeOK,
       Stages
  <1>21. ASSUME ToolsDone PROVE S
    <2>1. CASE End
      BY <1>21, <1>e, <2>1 DEF ToolsDone, durable
    <2>2. CASE ~End
      BY <1>21, <2>2 DEF ToolsDone, durable, volatile, Stages
    <2> QED
      BY <2>1, <2>2
  <1>22. ASSUME AppendResult PROVE S
    BY <1>22, DrainAssumption DEF AppendResult, Append1, durable, volatile, counters,
       TypeOK, Stages
  <1>23. ASSUME Answered PROVE S
    <2>1. CASE End
      BY <1>23, <1>e, <2>1 DEF Answered, durable
    <2>2. CASE pc' = "cutoff" /\ pc = "results" /\ answered' = 0 /\ UNCHANGED <<cutoff, rounds>>
      BY <1>23, <2>2 DEF Answered, durable, Stages
    <2> QED
      BY <1>23, <2>1, <2>2 DEF Answered
  <1>24. ASSUME AppendNotice PROVE S
    BY <1>24, DrainAssumption DEF AppendNotice, Append1, durable, volatile, counters,
       TypeOK, Stages
  <1>25. ASSUME DropNotice PROVE S
    BY <1>25, DrainAssumption DEF DropNotice, durable, volatile, counters, TypeOK, Stages
  <1>26. ASSUME NoNotice PROVE S
    BY <1>26, DrainAssumption DEF NoNotice, durable, volatile, counters, TypeOK, Stages
  <1>27. ASSUME ContinueGoal PROVE S
    <2>1. CASE End
      BY <1>27, <1>e, <2>1 DEF ContinueGoal
    <2>2. CASE ~End
      BY <1>27, <2>2 DEF ContinueGoal, volatile, Stages
    <2> QED
      BY <2>1, <2>2
  <1>28. ASSUME DrainFails PROVE S
    BY <1>28, DrainAssumption DEF DrainFails, End, Forget, durable, volatile, counters,
       TypeOK, Stages
  <1>29. ASSUME UNCHANGED vars PROVE S
    BY <1>29, DrainAssumption DEF vars, durable, volatile, counters, TypeOK, Stages
  <1> QED
    BY <1>1, <1>2, <1>3, <1>4, <1>5, <1>6, <1>7, <1>8, <1>9, <1>10, <1>11, <1>12, <1>13,
       <1>14, <1>15, <1>16, <1>17, <1>18, <1>19, <1>20, <1>21, <1>22, <1>23, <1>24, <1>25,
       <1>26, <1>27, <1>28, <1>29 DEF Next, Drain

LEMMA ToolsStep ==
    ASSUME TypeOK, Stages, ToolsHold, TypeOK', [Next]_vars
    PROVE  ToolsHold'
  <1> DEFINE H == ToolsHold'
  <1>1. ASSUME NEW x \in Prompts, Admit(x) PROVE H
    BY <1>1 DEF Admit, durable, volatile, counters, TypeOK, Stages, ToolsHold, Live,
       Terminal
  <1>2. ASSUME NEW n \in Notices, Offer(n) PROVE H
    BY <1>2 DEF Offer, durable, volatile, counters, TypeOK, Stages, ToolsHold, Live,
       Terminal
  <1>3. ASSUME Begin PROVE H
    BY <1>3 DEF Begin, durable, volatile, counters, TypeOK, Stages, ToolsHold, Live,
       Terminal
  <1>4. ASSUME Cancel PROVE H
    BY <1>4 DEF Cancel, durable, volatile, counters, TypeOK, Stages, ToolsHold, Live,
       Terminal
  <1>5. ASSUME Crash PROVE H
    BY <1>5 DEF Crash, End, Forget, durable, volatile, counters, TypeOK, Stages, ToolsHold,
       Live, Terminal
  <1>6. ASSUME Repair PROVE H
    BY <1>6 DEF Repair, durable, volatile, counters, TypeOK, Stages, ToolsHold, Live,
       Terminal
  <1>7. ASSUME ReadCutoff PROVE H
    BY <1>7 DEF ReadCutoff, durable, volatile, counters, TypeOK, Stages, ToolsHold, Live,
       Terminal
  <1>8. ASSUME Promote PROVE H
    BY <1>8 DEF Promote, End, Forget, durable, volatile, counters, TypeOK, Stages,
       ToolsHold, Live, Terminal
  <1>9. ASSUME CheckReady PROVE H
    BY <1>9 DEF CheckReady, durable, volatile, counters, TypeOK, Stages, ToolsHold, Live,
       Terminal
  <1>10. ASSUME AppendStatus PROVE H
    BY <1>10 DEF AppendStatus, Append1, durable, volatile, counters, TypeOK, Stages,
       ToolsHold, Live, Terminal
  <1>11. ASSUME StartAssistant PROVE H
    BY <1>11 DEF StartAssistant, Append1, durable, volatile, counters, TypeOK, Stages,
       ToolsHold, Live, Terminal
  <1>12. ASSUME NEW n \in BatchSizes, NEW text \in BOOLEAN, StreamCompletes(n, text) PROVE H
    BY <1>12 DEF StreamCompletes, FinishAs, durable, volatile, counters, TypeOK, Stages,
       ToolsHold, Live, Terminal
  <1>13. ASSUME NEW n \in BatchSizes, NEW text \in BOOLEAN, StreamFails(n, text) PROVE H
    BY <1>13 DEF StreamFails, End, Forget, FinishAs, durable, volatile, counters, TypeOK,
       Stages, ToolsHold, Live, Terminal
  <1>14. ASSUME AddToolCall PROVE H
    BY <1>14 DEF AddToolCall, durable, volatile, counters, TypeOK, Stages, ToolsHold, Live,
       Terminal
  <1>15. ASSUME Recorded PROVE H
    <2>1. CASE End
      BY <1>15, <2>1, EndForgets DEF Recorded, TypeOK, ToolsHold, durable, counters
    <2>2. CASE batch = << >> /\ pc' = "drained" /\ UNCHANGED volatile
      BY <1>15, <2>2 DEF Recorded, TypeOK, ToolsHold, durable, counters, volatile
    <2>3. CASE /\ pc' = "tools" /\ UNCHANGED batch
               /\ tool' = [k \in Calls |-> IF Contains(batch, k) THEN "waiting" ELSE "none"]
      <3>1. \A k \in Calls : tool'[k] # "none" => Contains(batch', k)
        BY <2>3
      <3>2. \A k \in Calls : tool'[k] \in {"none", "waiting"}
        BY <2>3
      <3>3. UNCHANGED <<calls, ran>> /\ pc' = "tools"
        BY <1>15, <2>3 DEF Recorded, durable, counters
      <3> QED
        BY <3>1, <3>2, <3>3 DEF ToolsHold
    <2> QED
      BY <1>15, <2>1, <2>2, <2>3 DEF Recorded
  <1>16. ASSUME NEW k \in Calls, StartTool(k) PROVE H
    <2>1. /\ pc = "tools" /\ tool[k] = "waiting" /\ tool' = [tool EXCEPT ![k] = "started"]
          /\ calls[k] = "pending" /\ calls' = [calls EXCEPT ![k] = "running"]
          /\ UNCHANGED <<pc, batch, ran>>
      BY <1>16 DEF StartTool, ToolGoes, KeptByTools
    <2>2. tool[k] # "none" /\ ran[k] = 0
      BY <2>1 DEF ToolsHold, Terminal
    <2> QED
      BY <2>1, <2>2 DEF TypeOK, ToolsHold
  <1>17. ASSUME NEW k \in Calls, RunTool(k) PROVE H
    BY <1>17 DEF RunTool, ToolGoes, KeptByTools, durable, volatile, counters, TypeOK,
       Stages, ToolsHold, Live, Terminal
  <1>18. ASSUME NEW k \in Calls, SettleTool(k) PROVE H
    BY <1>18 DEF SettleTool, ToolGoes, KeptByTools, durable, volatile, counters, TypeOK,
       Stages, ToolsHold, Live, Terminal
  <1>19. ASSUME NEW k \in Calls, LoseTool(k) PROVE H
    BY <1>19 DEF LoseTool, ToolGoes, KeptByTools, durable, volatile, counters, TypeOK,
       Stages, ToolsHold, Live, Terminal
  <1>20. ASSUME NEW k \in Calls, CleanUp(k) PROVE H
    <2>1. /\ pc = "cleanup" /\ tool' = [tool EXCEPT ![k] = "done"]
          /\ \/ calls[k] \in Live /\ calls' = [calls EXCEPT ![k] = "interrupted"]
             \/ UNCHANGED calls
          /\ UNCHANGED <<pc, batch, ran>>
      BY <1>20 DEF CleanUp, KeptByTools
    <2>2. \A j \in Calls : tool'[j] \in {"none", "done", "lost"}
      BY <2>1 DEF ToolsHold, TypeOK
    <2>3. \A j \in Calls : calls'[j] = calls[j] \/ calls'[j] \in Terminal
      BY <2>1 DEF Terminal, TypeOK
    <2> QED
      BY <2>1, <2>2, <2>3 DEF ToolsHold
  <1>21. ASSUME ToolsDone PROVE H
    <2>1. CASE End
      BY <1>21, <2>1, EndForgets DEF ToolsDone, TypeOK, ToolsHold, durable, counters
    <2>2. CASE pc' \in {"cleanup", "results"} /\ UNCHANGED volatile
      <3>1. \A k \in Calls : tool[k] \in {"none", "done", "lost"}
        <4> TAKE k \in Calls
        <4>1. CASE Contains(batch, k)
          <5>1. PICK i \in DOMAIN batch : batch[i] = k
            BY <4>1 DEF Contains
          <5> QED
            BY <1>21, <5>1 DEF ToolsDone
        <4>2. CASE ~Contains(batch, k)
          BY <1>21, <4>2 DEF ToolsDone, ToolsHold
        <4> QED
          BY <4>1, <4>2
      <3>2. UNCHANGED <<calls, ran, tool>> /\ pc' # "tools"
        BY <1>21, <2>2 DEF ToolsDone, durable, counters, volatile
      <3> QED
        BY <3>1, <3>2 DEF ToolsHold
    <2> QED
      BY <1>21, <2>1, <2>2 DEF ToolsDone
  <1>22. ASSUME AppendResult PROVE H
    BY <1>22 DEF AppendResult, Append1, durable, volatile, counters, TypeOK, Stages,
       ToolsHold, Live, Terminal
  <1>23. ASSUME Answered PROVE H
    BY <1>23 DEF Answered, End, Forget, durable, volatile, counters, TypeOK, Stages,
       ToolsHold, Live, Terminal
  <1>24. ASSUME AppendNotice PROVE H
    BY <1>24 DEF AppendNotice, Append1, durable, volatile, counters, TypeOK, Stages,
       ToolsHold, Live, Terminal
  <1>25. ASSUME DropNotice PROVE H
    BY <1>25 DEF DropNotice, durable, volatile, counters, TypeOK, Stages, ToolsHold, Live,
       Terminal
  <1>26. ASSUME NoNotice PROVE H
    BY <1>26 DEF NoNotice, durable, volatile, counters, TypeOK, Stages, ToolsHold, Live,
       Terminal
  <1>27. ASSUME ContinueGoal PROVE H
    BY <1>27 DEF ContinueGoal, End, Forget, Append1, durable, volatile, counters, TypeOK,
       Stages, ToolsHold, Live, Terminal
  <1>28. ASSUME DrainFails PROVE H
    BY <1>28 DEF DrainFails, End, Forget, durable, volatile, counters, TypeOK, Stages,
       ToolsHold, Live, Terminal
  <1>29. ASSUME UNCHANGED vars PROVE H
    BY <1>29 DEF vars, durable, volatile, counters, TypeOK, Stages, ToolsHold, Live,
       Terminal
  <1> QED
    BY <1>1, <1>2, <1>3, <1>4, <1>5, <1>6, <1>7, <1>8, <1>9, <1>10, <1>11, <1>12, <1>13,
       <1>14, <1>15, <1>16, <1>17, <1>18, <1>19, <1>20, <1>21, <1>22, <1>23, <1>24, <1>25,
       <1>26, <1>27, <1>28, <1>29 DEF Next, Drain

LEMMA UserRowsStep ==
    ASSUME TypeOK, Stages, [Next]_vars, ~Promote
    PROVE  \/ /\ Rows("user")' = Rows("user")
              /\ \A i \in Rows("user") : history'[i] = history[i]
           \/ \E x \in Notices \cup {None} :
                /\ x \in Notices => ~Noticed(x)
                /\ Rows("user")' = Rows("user") \cup {Len(history) + 1}
                /\ \A i \in Rows("user") : history'[i] = history[i]
                /\ history'[Len(history) + 1] = User(x)
                /\ Len(history) + 1 \notin Rows("user")
  <1>1. /\ history \in Seq(Row) /\ Len(history) \in Nat /\ DOMAIN history = 1..Len(history)
        /\ Rows("user") = {i \in 1..Len(history) : history[i].role = "user"}
    BY DEF TypeOK, Rows
  <1>2. CASE history' = history
    BY <1>2 DEF Rows
  <1>3. ASSUME NEW row \in Row, history' = Append(history, row)
        PROVE  /\ DOMAIN history' = 1..(Len(history) + 1)
               /\ \A i \in 1..Len(history) : history'[i] = history[i]
               /\ history'[Len(history) + 1] = row
    BY <1>1, <1>3
  <1>4. ASSUME NEW row \in Row, row.role # "user", history' = Append(history, row)
        PROVE  /\ Rows("user")' = Rows("user")
               /\ \A i \in Rows("user") : history'[i] = history[i]
    BY <1>1, <1>3, <1>4 DEF Rows
  <1>5. ASSUME NEW x \in Notices \cup {None}, history' = Append(history, User(x))
        PROVE  /\ Rows("user")' = Rows("user") \cup {Len(history) + 1}
               /\ \A i \in Rows("user") : history'[i] = history[i]
               /\ history'[Len(history) + 1] = User(x)
               /\ Len(history) + 1 \notin Rows("user")
    <2>1. User(x) \in Row /\ User(x).role = "user"
      BY RowTypes DEF User
    <2>2. /\ DOMAIN history' = 1..(Len(history) + 1)
          /\ \A i \in 1..Len(history) : history'[i] = history[i]
          /\ history'[Len(history) + 1] = User(x)
      BY <1>3, <1>5, <2>1
    <2> QED
      BY <1>1, <2>1, <2>2 DEF Rows
  <1>6. ASSUME NEW row \in Row, row.role = "assistant", Closing(row)
        PROVE  /\ Rows("user")' = Rows("user")
               /\ \A i \in Rows("user") : history'[i] = history[i]
    <2>1. \A i \in ActiveRows : history[i].role = "assistant"
      BY DEF ActiveRows, Rows
    <2>2. /\ DOMAIN history' = DOMAIN history
          /\ \A i \in DOMAIN history :
               history'[i] = IF i \in ActiveRows THEN row ELSE history[i]
      BY <1>6 DEF Closing
    <2> QED
      BY <1>6, <2>1, <2>2 DEF Rows
  <1> QED
    BY HistoryStep, <1>2, <1>4, <1>5, <1>6

\* PromoteSteers adds user rows, one for each prompt it takes.
LEMMA UserRowsPromoted ==
    ASSUME TypeOK, NEW taken \in Seq(Prompts),
           history' = history \o [i \in DOMAIN taken |-> User(taken[i])]
    PROVE  /\ Rows("user")' = Rows("user") \cup (Len(history) + 1)..(Len(history) + Len(taken))
           /\ \A i \in Rows("user") : history'[i] = history[i] /\ i \in 1..Len(history)
           /\ \A k \in 1..Len(taken) : history'[Len(history) + k] = User(taken[k])
  <1>1. /\ history \in Seq(Row) /\ Len(history) \in Nat /\ DOMAIN history = 1..Len(history)
        /\ Len(taken) \in Nat
        /\ Rows("user") = {i \in 1..Len(history) : history[i].role = "user"}
    BY DEF TypeOK, Rows
  <1>2. /\ history' \in Seq(Row)
        /\ Len(history') = Len(history) + Len(taken)
        /\ \A i \in 1..Len(history) : history'[i] = history[i]
        /\ \A k \in 1..Len(taken) : history'[Len(history) + k] = User(taken[k])
    BY RowsAfterPromote
  <1>3. Rows("user")' = {i \in 1..(Len(history) + Len(taken)) : history'[i].role = "user"}
    BY <1>2 DEF Rows
  <1>4. \A i \in (Len(history) + 1)..(Len(history) + Len(taken)) : history'[i].role = "user"
    <2> TAKE i \in (Len(history) + 1)..(Len(history) + Len(taken))
    <2>1. i - Len(history) \in 1..Len(taken) /\ Len(history) + (i - Len(history)) = i
      BY <1>1
    <2>2. history'[i] = User(taken[i - Len(history)])
      BY <1>2, <2>1
    <2> QED
      BY <2>2 DEF User
  <1>5. Rows("user")' = Rows("user") \cup (Len(history) + 1)..(Len(history) + Len(taken))
    <2>1. \A i : i \in 1..(Len(history) + Len(taken)) <=>
                 (i \in 1..Len(history) \/ i \in (Len(history) + 1)..(Len(history) + Len(taken)))
      BY <1>1
    <2> QED
      BY <1>1, <1>2, <1>3, <1>4, <2>1
  <1> QED
    BY <1>1, <1>2, <1>5

LEMMA NoticesStep ==
    ASSUME TypeOK, Stages, PromptsHold, NoticesOnce, [Next]_vars
    PROVE  NoticesOnce'
  <1>1. CASE Promote
    <2>1. PICK taken \in Seq(Prompts) :
                history' = history \o [i \in DOMAIN taken |-> User(taken[i])]
      BY <1>1, PromoteRows
    <2>2. /\ Rows("user")' = Rows("user") \cup (Len(history) + 1)..(Len(history) + Len(taken))
          /\ \A i \in Rows("user") : history'[i] = history[i] /\ i \in 1..Len(history)
          /\ \A k \in 1..Len(taken) : history'[Len(history) + k] = User(taken[k])
      BY <2>1, UserRowsPromoted
    <2>3. \A i \in (Len(history) + 1)..(Len(history) + Len(taken)) : history'[i].of \notin Notices
      <3> TAKE i \in (Len(history) + 1)..(Len(history) + Len(taken))
      <3>1. /\ i - Len(history) \in 1..Len(taken) /\ Len(history) + (i - Len(history)) = i
            /\ taken[i - Len(history)] \in Prompts
        BY <2>1 DEF TypeOK
      <3>2. history'[i] = User(taken[i - Len(history)])
        BY <2>2, <3>1
      <3> QED
        BY <3>1, <3>2, DrainAssumption DEF User
    <2>4. \A i \in Rows("user")' : history'[i].of \in Notices =>
            i \in Rows("user") /\ history'[i] = history[i]
      BY <2>2, <2>3
    <2> QED
      BY <2>4 DEF NoticesOnce
  <1>2. CASE /\ Rows("user")' = Rows("user")
             /\ \A i \in Rows("user") : history'[i] = history[i]
    BY <1>2 DEF NoticesOnce
  <1>3. ASSUME NEW x \in Notices \cup {None},
               x \in Notices => ~Noticed(x),
               Rows("user")' = Rows("user") \cup {Len(history) + 1},
               \A i \in Rows("user") : history'[i] = history[i],
               history'[Len(history) + 1] = User(x)
        PROVE  NoticesOnce'
    <2>1. \A i \in Rows("user") : x \in Notices => history[i].of # x
      BY <1>3 DEF Noticed
    <2>2. history'[Len(history) + 1].of = x
      BY <1>3 DEF User
    <2> QED
      BY <1>3, <2>1, <2>2 DEF NoticesOnce
  <1> QED
    BY <1>1, <1>2, <1>3, UserRowsStep

-----------------------------------------------------------------------------
(* The prompts.                                                            *)

\* Only PromoteSteers changes what the model has been given.
LEMMA GivenStep ==
    ASSUME TypeOK, Stages, [Next]_vars, ~Promote
    PROVE  Given' = Given
  <1>1. /\ PromptRows' = PromptRows
        /\ \A i \in PromptRows : history'[i] = history[i]
    <2>1. CASE /\ Rows("user")' = Rows("user")
               /\ \A i \in Rows("user") : history'[i] = history[i]
      BY <2>1 DEF PromptRows
    <2>2. ASSUME NEW x \in Notices \cup {None},
                 Rows("user")' = Rows("user") \cup {Len(history) + 1},
                 \A i \in Rows("user") : history'[i] = history[i],
                 history'[Len(history) + 1] = User(x)
          PROVE  /\ PromptRows' = PromptRows
                 /\ \A i \in PromptRows : history'[i] = history[i]
      <3>1. history'[Len(history) + 1].of \notin Prompts
        BY <2>2, DrainAssumption DEF User
      <3> QED
        BY <2>2, <3>1 DEF PromptRows
    <2> QED
      BY <2>1, <2>2, UserRowsStep
  <1>2. [i \in PromptRows' |-> history'[i].of] = [i \in PromptRows |-> history[i].of]
    BY <1>1
  <1> QED
    BY <1>2 DEF Given

\* PromoteSteers gives what it takes.
LEMMA GivenMore ==
    ASSUME TypeOK, NEW taken \in Seq(Prompts),
           history' = history \o [i \in DOMAIN taken |-> User(taken[i])]
    PROVE  Given' = Given \o taken
  <1> DEFINE f == [i \in PromptRows |-> history[i].of]
             g == [i \in PromptRows' |-> history'[i].of]
  <1>1. Len(history) \in Nat /\ Len(taken) \in Nat
    BY DEF TypeOK
  <1>2. /\ Rows("user")' = Rows("user") \cup (Len(history) + 1)..(Len(history) + Len(taken))
        /\ \A i \in Rows("user") : history'[i] = history[i] /\ i \in 1..Len(history)
        /\ \A k \in 1..Len(taken) : history'[Len(history) + k] = User(taken[k])
    BY UserRowsPromoted
  <1>3. \A i \in (Len(history) + 1)..(Len(history) + Len(taken)) : history'[i].of \in Prompts
    <2> TAKE i \in (Len(history) + 1)..(Len(history) + Len(taken))
    <2>1. /\ i - Len(history) \in 1..Len(taken) /\ Len(history) + (i - Len(history)) = i
          /\ taken[i - Len(history)] \in Prompts
      BY <1>1
    <2>2. history'[i] = User(taken[i - Len(history)])
      BY <1>2, <2>1
    <2> QED
      BY <2>1, <2>2 DEF User
  <1>4. PromptRows' = PromptRows \cup (Len(history) + 1)..(Len(history) + Len(taken))
    BY <1>2, <1>3 DEF PromptRows
  <1>5. PromptRows \subseteq 1..Len(history)
    BY <1>2 DEF PromptRows
  <1>6. \A i \in PromptRows : g[i] = f[i]
    <2>1. \A i \in PromptRows : i \in PromptRows' /\ history'[i] = history[i]
      BY <1>2, <1>4 DEF PromptRows
    <2> QED
      BY <2>1
  <1>7. \A k \in 1..Len(taken) : g[Len(history) + k] = taken[k]
    <2> TAKE k \in 1..Len(taken)
    <2>1. Len(history) + k \in PromptRows'
      BY <1>1, <1>4
    <2>2. history'[Len(history) + k].of = taken[k]
      BY <1>2 DEF User
    <2> QED
      BY <2>1, <2>2
  <1>8. DOMAIN f = PromptRows /\ DOMAIN g = PromptRows'
    OBVIOUS
  <1> HIDE DEF f, g
  <1>9. InOrder(g) = InOrder(f) \o taken
    <2>1. Extends(f, g, Len(history), taken)
      BY <1>4, <1>5, <1>6, <1>7, <1>8 DEF Extends
    <2> QED
      BY <1>1, <2>1, InOrderOfMore
  <1> QED
    BY <1>9 DEF Given, f, g

LEMMA AdmittedStep ==
    ASSUME [Next]_vars
    PROVE  admitted' = admitted \/ \E p \in Prompts : Admit(p)
  <1> DEFINE A == admitted' = admitted \/ \E p \in Prompts : Admit(p)
  <1>1. ASSUME NEW x \in Prompts, Admit(x) PROVE A
    BY <1>1
  <1>2. ASSUME NEW n \in Notices, Offer(n) PROVE A
    BY <1>2 DEF Offer, durable
  <1>3. ASSUME Begin PROVE A
    BY <1>3 DEF Begin, durable
  <1>4. ASSUME Cancel PROVE A
    BY <1>4 DEF Cancel, durable
  <1>5. ASSUME Crash PROVE A
    BY <1>5 DEF Crash, durable
  <1>6. ASSUME Repair PROVE A
    BY <1>6 DEF Repair, durable
  <1>7. ASSUME ReadCutoff PROVE A
    BY <1>7 DEF ReadCutoff, durable
  <1>8. ASSUME Promote PROVE A
    BY <1>8 DEF Promote, durable
  <1>9. ASSUME CheckReady PROVE A
    BY <1>9 DEF CheckReady, durable
  <1>10. ASSUME AppendStatus PROVE A
    BY <1>10 DEF AppendStatus, durable
  <1>11. ASSUME StartAssistant PROVE A
    BY <1>11 DEF StartAssistant, durable
  <1>12. ASSUME NEW n \in BatchSizes, NEW text \in BOOLEAN, StreamCompletes(n, text) PROVE A
    BY <1>12 DEF StreamCompletes, durable
  <1>13. ASSUME NEW n \in BatchSizes, NEW text \in BOOLEAN, StreamFails(n, text) PROVE A
    BY <1>13 DEF StreamFails, durable
  <1>14. ASSUME AddToolCall PROVE A
    BY <1>14 DEF AddToolCall, durable
  <1>15. ASSUME Recorded PROVE A
    BY <1>15 DEF Recorded, durable
  <1>16. ASSUME NEW k \in Calls, StartTool(k) PROVE A
    BY <1>16 DEF StartTool, KeptByTools, durable
  <1>17. ASSUME NEW k \in Calls, RunTool(k) PROVE A
    BY <1>17 DEF RunTool, KeptByTools, durable
  <1>18. ASSUME NEW k \in Calls, SettleTool(k) PROVE A
    BY <1>18 DEF SettleTool, KeptByTools, durable
  <1>19. ASSUME NEW k \in Calls, LoseTool(k) PROVE A
    BY <1>19 DEF LoseTool, KeptByTools, durable
  <1>20. ASSUME NEW k \in Calls, CleanUp(k) PROVE A
    BY <1>20 DEF CleanUp, KeptByTools, durable
  <1>21. ASSUME ToolsDone PROVE A
    BY <1>21 DEF ToolsDone, durable
  <1>22. ASSUME AppendResult PROVE A
    BY <1>22 DEF AppendResult, durable
  <1>23. ASSUME Answered PROVE A
    BY <1>23 DEF Answered, durable
  <1>24. ASSUME AppendNotice PROVE A
    BY <1>24 DEF AppendNotice, durable
  <1>25. ASSUME DropNotice PROVE A
    BY <1>25 DEF DropNotice, durable
  <1>26. ASSUME NoNotice PROVE A
    BY <1>26 DEF NoNotice, durable
  <1>27. ASSUME ContinueGoal PROVE A
    BY <1>27 DEF ContinueGoal, durable
  <1>28. ASSUME DrainFails PROVE A
    BY <1>28 DEF DrainFails, durable
  <1>29. ASSUME UNCHANGED vars PROVE A
    BY <1>29 DEF vars, durable
  <1> QED
    BY <1>1, <1>2, <1>3, <1>4, <1>5, <1>6, <1>7, <1>8, <1>9, <1>10, <1>11, <1>12, <1>13,
       <1>14, <1>15, <1>16, <1>17, <1>18, <1>19, <1>20, <1>21, <1>22, <1>23, <1>24, <1>25,
       <1>26, <1>27, <1>28, <1>29 DEF Next, Drain

LEMMA PromotedStep ==
    ASSUME [Next]_vars
    PROVE  promoted' = promoted \/ Promote
  <1> DEFINE A == promoted' = promoted \/ Promote
  <1>1. ASSUME NEW x \in Prompts, Admit(x) PROVE A
    BY <1>1 DEF Admit, durable
  <1>2. ASSUME NEW n \in Notices, Offer(n) PROVE A
    BY <1>2 DEF Offer, durable
  <1>3. ASSUME Begin PROVE A
    BY <1>3 DEF Begin, durable
  <1>4. ASSUME Cancel PROVE A
    BY <1>4 DEF Cancel, durable
  <1>5. ASSUME Crash PROVE A
    BY <1>5 DEF Crash, durable
  <1>6. ASSUME Repair PROVE A
    BY <1>6 DEF Repair, durable
  <1>7. ASSUME ReadCutoff PROVE A
    BY <1>7 DEF ReadCutoff, durable
  <1>8. ASSUME Promote PROVE A
    BY <1>8
  <1>9. ASSUME CheckReady PROVE A
    BY <1>9 DEF CheckReady, durable
  <1>10. ASSUME AppendStatus PROVE A
    BY <1>10 DEF AppendStatus, durable
  <1>11. ASSUME StartAssistant PROVE A
    BY <1>11 DEF StartAssistant, durable
  <1>12. ASSUME NEW n \in BatchSizes, NEW text \in BOOLEAN, StreamCompletes(n, text) PROVE A
    BY <1>12 DEF StreamCompletes, durable
  <1>13. ASSUME NEW n \in BatchSizes, NEW text \in BOOLEAN, StreamFails(n, text) PROVE A
    BY <1>13 DEF StreamFails, durable
  <1>14. ASSUME AddToolCall PROVE A
    BY <1>14 DEF AddToolCall, durable
  <1>15. ASSUME Recorded PROVE A
    BY <1>15 DEF Recorded, durable
  <1>16. ASSUME NEW k \in Calls, StartTool(k) PROVE A
    BY <1>16 DEF StartTool, KeptByTools, durable
  <1>17. ASSUME NEW k \in Calls, RunTool(k) PROVE A
    BY <1>17 DEF RunTool, KeptByTools, durable
  <1>18. ASSUME NEW k \in Calls, SettleTool(k) PROVE A
    BY <1>18 DEF SettleTool, KeptByTools, durable
  <1>19. ASSUME NEW k \in Calls, LoseTool(k) PROVE A
    BY <1>19 DEF LoseTool, KeptByTools, durable
  <1>20. ASSUME NEW k \in Calls, CleanUp(k) PROVE A
    BY <1>20 DEF CleanUp, KeptByTools, durable
  <1>21. ASSUME ToolsDone PROVE A
    BY <1>21 DEF ToolsDone, durable
  <1>22. ASSUME AppendResult PROVE A
    BY <1>22 DEF AppendResult, durable
  <1>23. ASSUME Answered PROVE A
    BY <1>23 DEF Answered, durable
  <1>24. ASSUME AppendNotice PROVE A
    BY <1>24 DEF AppendNotice, durable
  <1>25. ASSUME DropNotice PROVE A
    BY <1>25 DEF DropNotice, durable
  <1>26. ASSUME NoNotice PROVE A
    BY <1>26 DEF NoNotice, durable
  <1>27. ASSUME ContinueGoal PROVE A
    BY <1>27 DEF ContinueGoal, durable
  <1>28. ASSUME DrainFails PROVE A
    BY <1>28 DEF DrainFails, durable
  <1>29. ASSUME UNCHANGED vars PROVE A
    BY <1>29 DEF vars, durable
  <1> QED
    BY <1>1, <1>2, <1>3, <1>4, <1>5, <1>6, <1>7, <1>8, <1>9, <1>10, <1>11, <1>12, <1>13,
       <1>14, <1>15, <1>16, <1>17, <1>18, <1>19, <1>20, <1>21, <1>22, <1>23, <1>24, <1>25,
       <1>26, <1>27, <1>28, <1>29 DEF Next, Drain

LEMMA PromptsStep ==
    ASSUME TypeOK, Stages, PromptsHold, [Next]_vars
    PROVE  PromptsHold'
  <1>0. admitted \in Seq(Prompts) /\ Len(admitted) \in Nat /\ DOMAIN admitted = 1..Len(admitted)
    BY DEF TypeOK
  <1>1. CASE Promote
    <2>1. PICK m \in 0..Len(admitted) :
             LET taken == SubSeq(admitted, m + 1, cutoff) IN
             /\ Prefix(m)
             /\ taken \in Seq(Prompts)
             /\ promoted' = promoted \cup ToSet(taken)
             /\ history' = history \o [i \in DOMAIN taken |-> User(taken[i])]
      BY <1>1, PromoteRows
    <2> DEFINE taken == SubSeq(admitted, m + 1, cutoff)
    <2>2. admitted' = admitted
      BY <1>1 DEF Promote
    <2>3. Given' = Given \o taken /\ Given = SubSeq(admitted, 1, m)
      BY <2>1, GivenMore DEF Prefix
    <2>4. PICK c \in 0..Len(admitted) : c = cutoff
      BY <1>0 DEF TypeOK, Stages
    <2>5. CASE m < c
      <3>1. ToSet(taken) = {admitted[i] : i \in (m + 1)..c}
        <4>1. DOMAIN taken = 1..(c - m) /\ \A j \in 1..(c - m) : taken[j] = admitted[m + j]
          BY <1>0, <2>4, <2>5
        <4>2. \A i \in (m + 1)..c : i - m \in 1..(c - m) /\ m + (i - m) = i
          BY <2>4
        <4>3. \A j \in 1..(c - m) : m + j \in (m + 1)..c
          BY <2>4
        <4> HIDE DEF taken
        <4>4. ToSet(taken) \subseteq {admitted[i] : i \in (m + 1)..c}
          BY <4>1, <4>3 DEF ToSet
        <4>5. {admitted[i] : i \in (m + 1)..c} \subseteq ToSet(taken)
          <5> SUFFICES ASSUME NEW i \in (m + 1)..c PROVE admitted[i] \in ToSet(taken)
            OBVIOUS
          <5>1. i - m \in DOMAIN taken /\ taken[i - m] = admitted[i]
            BY <4>1, <4>2
          <5> QED
            BY <5>1 DEF ToSet
        <4> QED
          BY <4>4, <4>5
      <3>2. promoted' = {admitted[i] : i \in 1..c}
        <4>1. promoted' = {admitted[i] : i \in 1..m} \cup {admitted[i] : i \in (m + 1)..c}
          BY <2>1, <3>1 DEF Prefix
        <4>2. \A i : i \in 1..c <=> i \in 1..m \/ i \in (m + 1)..c
          BY <2>4, <2>5
        <4> QED
          BY <4>1, <4>2
      <3>3. Given' = SubSeq(admitted, 1, c)
        <4>1. SubSeq(admitted, 1, m) \o SubSeq(admitted, m + 1, c) = SubSeq(admitted, 1, c)
          BY <1>0, <2>4, <2>5
        <4> QED
          BY <2>3, <2>4, <4>1
      <3>4. Prefix(c)'
        BY <2>2, <3>2, <3>3 DEF Prefix
      <3> QED
        BY <2>2, <2>4, <3>4 DEF PromptsHold
    <2>6. CASE c <= m
      <3>1. taken = << >>
        BY <1>0, <2>4, <2>6
      <3>2. promoted' = promoted
        <4>1. ToSet(<< >>) = {}
          BY DEF ToSet
        <4>2. promoted' = promoted \cup ToSet(taken)
          BY <2>1
        <4> HIDE DEF taken
        <4> QED
          BY <3>1, <4>1, <4>2
      <3>3. Given' = Given
        <4>1. Given \in Seq(Prompts)
          BY <1>0, <2>3
        <4>2. Given' = Given \o << >>
          BY <2>3, <3>1
        <4>3. Given \o << >> = Given
          BY <4>1, ConcatEmptySeq
        <4> QED
          BY <4>2, <4>3
      <3>4. Prefix(m)'
        BY <2>1, <2>2, <3>2, <3>3 DEF Prefix
      <3> QED
        BY <2>2, <3>4 DEF PromptsHold
    <2> QED
      BY <2>4, <2>5, <2>6
  <1>2. CASE ~Promote
    <2>1. Given' = Given
      BY <1>2, GivenStep
    <2>2. promoted' = promoted
      BY <1>2, PromotedStep
    <2>3. PICK m \in 0..Len(admitted) : Prefix(m)
      BY DEF PromptsHold
    <2>4. ASSUME admitted' = admitted
          PROVE  PromptsHold'
      <3>1. Prefix(m)'
        BY <2>1, <2>2, <2>3, <2>4 DEF Prefix
      <3> QED
        BY <2>4, <3>1 DEF PromptsHold
    <2>5. ASSUME NEW p \in Prompts, Admit(p)
          PROVE  PromptsHold'
      <3>1. /\ admitted' = Append(admitted, p)
            /\ \A i \in 1..Len(admitted) : admitted[i] # p
        BY <2>5 DEF Admit, Contains
      <3>2. /\ Len(admitted') = Len(admitted) + 1
            /\ DOMAIN admitted' = 1..(Len(admitted) + 1)
            /\ \A i \in 1..Len(admitted) : admitted'[i] = admitted[i]
            /\ admitted'[Len(admitted) + 1] = p
        BY <1>0, <3>1
      <3>3. \A i, j \in DOMAIN admitted' : admitted'[i] = admitted'[j] => i = j
        BY <1>0, <3>1, <3>2 DEF PromptsHold
      <3>4. {admitted'[i] : i \in 1..m} = {admitted[i] : i \in 1..m}
        BY <1>0, <3>2
      <3>5. SubSeq(admitted', 1, m) = SubSeq(admitted, 1, m)
        BY <1>0, <3>1, <3>2
      <3>6. Prefix(m)'
        BY <2>1, <2>2, <2>3, <3>4, <3>5 DEF Prefix
      <3>7. m \in 0..Len(admitted')
        BY <1>0, <3>2
      <3> QED
        BY <3>3, <3>6, <3>7 DEF PromptsHold
    <2>6. admitted' = admitted \/ \E p \in Prompts : Admit(p)
      BY AdmittedStep
    <2> QED
      BY <2>4, <2>5, <2>6
  <1> QED
    BY <1>1, <1>2

LEMMA CallsStep ==
    ASSUME TypeOK, [Next]_vars
    PROVE  \A k \in Calls : calls[k] \in Terminal => calls'[k] = calls[k]
  <1> DEFINE C == \A k \in Calls : calls[k] \in Terminal => calls'[k] = calls[k]
  <1>1. ASSUME NEW x \in Prompts, Admit(x) PROVE C
    BY <1>1 DEF Admit, durable, volatile, counters, TypeOK, Live, Terminal
  <1>2. ASSUME NEW n \in Notices, Offer(n) PROVE C
    BY <1>2 DEF Offer, durable, volatile, counters, TypeOK, Live, Terminal
  <1>3. ASSUME Begin PROVE C
    BY <1>3 DEF Begin, durable, volatile, counters, TypeOK, Live, Terminal
  <1>4. ASSUME Cancel PROVE C
    BY <1>4 DEF Cancel, durable, volatile, counters, TypeOK, Live, Terminal
  <1>5. ASSUME Crash PROVE C
    BY <1>5 DEF Crash, End, Forget, durable, volatile, counters, TypeOK, Live, Terminal
  <1>6. ASSUME Repair PROVE C
    BY <1>6 DEF Repair, durable, volatile, counters, TypeOK, Live, Terminal
  <1>7. ASSUME ReadCutoff PROVE C
    BY <1>7 DEF ReadCutoff, durable, volatile, counters, TypeOK, Live, Terminal
  <1>8. ASSUME Promote PROVE C
    BY <1>8 DEF Promote, End, Forget, durable, volatile, counters, TypeOK, Live, Terminal
  <1>9. ASSUME CheckReady PROVE C
    BY <1>9 DEF CheckReady, durable, volatile, counters, TypeOK, Live, Terminal
  <1>10. ASSUME AppendStatus PROVE C
    BY <1>10 DEF AppendStatus, Append1, durable, volatile, counters, TypeOK, Live, Terminal
  <1>11. ASSUME StartAssistant PROVE C
    BY <1>11 DEF StartAssistant, Append1, durable, volatile, counters, TypeOK, Live,
       Terminal
  <1>12. ASSUME NEW n \in BatchSizes, NEW text \in BOOLEAN, StreamCompletes(n, text) PROVE C
    BY <1>12 DEF StreamCompletes, FinishAs, durable, volatile, counters, TypeOK, Live,
       Terminal
  <1>13. ASSUME NEW n \in BatchSizes, NEW text \in BOOLEAN, StreamFails(n, text) PROVE C
    BY <1>13 DEF StreamFails, End, Forget, FinishAs, durable, volatile, counters, TypeOK,
       Live, Terminal
  <1>14. ASSUME AddToolCall PROVE C
    BY <1>14 DEF AddToolCall, durable, volatile, counters, TypeOK, Live, Terminal
  <1>15. ASSUME Recorded PROVE C
    BY <1>15 DEF Recorded, End, Forget, durable, volatile, counters, TypeOK, Live, Terminal
  <1>16. ASSUME NEW k \in Calls, StartTool(k) PROVE C
    BY <1>16 DEF StartTool, ToolGoes, KeptByTools, durable, volatile, counters, TypeOK,
       Live, Terminal
  <1>17. ASSUME NEW k \in Calls, RunTool(k) PROVE C
    BY <1>17 DEF RunTool, ToolGoes, KeptByTools, durable, volatile, counters, TypeOK, Live,
       Terminal
  <1>18. ASSUME NEW k \in Calls, SettleTool(k) PROVE C
    BY <1>18 DEF SettleTool, ToolGoes, KeptByTools, durable, volatile, counters, TypeOK,
       Live, Terminal
  <1>19. ASSUME NEW k \in Calls, LoseTool(k) PROVE C
    BY <1>19 DEF LoseTool, ToolGoes, KeptByTools, durable, volatile, counters, TypeOK, Live,
       Terminal
  <1>20. ASSUME NEW k \in Calls, CleanUp(k) PROVE C
    BY <1>20 DEF CleanUp, KeptByTools, durable, volatile, counters, TypeOK, Live, Terminal
  <1>21. ASSUME ToolsDone PROVE C
    BY <1>21 DEF ToolsDone, End, Forget, durable, volatile, counters, TypeOK, Live, Terminal
  <1>22. ASSUME AppendResult PROVE C
    BY <1>22 DEF AppendResult, Append1, durable, volatile, counters, TypeOK, Live, Terminal
  <1>23. ASSUME Answered PROVE C
    BY <1>23 DEF Answered, End, Forget, durable, volatile, counters, TypeOK, Live, Terminal
  <1>24. ASSUME AppendNotice PROVE C
    BY <1>24 DEF AppendNotice, Append1, durable, volatile, counters, TypeOK, Live, Terminal
  <1>25. ASSUME DropNotice PROVE C
    BY <1>25 DEF DropNotice, durable, volatile, counters, TypeOK, Live, Terminal
  <1>26. ASSUME NoNotice PROVE C
    BY <1>26 DEF NoNotice, durable, volatile, counters, TypeOK, Live, Terminal
  <1>27. ASSUME ContinueGoal PROVE C
    BY <1>27 DEF ContinueGoal, End, Forget, Append1, durable, volatile, counters, TypeOK,
       Live, Terminal
  <1>28. ASSUME DrainFails PROVE C
    BY <1>28 DEF DrainFails, End, Forget, durable, volatile, counters, TypeOK, Live,
       Terminal
  <1>29. ASSUME UNCHANGED vars PROVE C
    BY <1>29 DEF vars, durable, volatile, counters, TypeOK, Live, Terminal
  <1> QED
    BY <1>1, <1>2, <1>3, <1>4, <1>5, <1>6, <1>7, <1>8, <1>9, <1>10, <1>11, <1>12, <1>13,
       <1>14, <1>15, <1>16, <1>17, <1>18, <1>19, <1>20, <1>21, <1>22, <1>23, <1>24, <1>25,
       <1>26, <1>27, <1>28, <1>29 DEF Next, Drain

-----------------------------------------------------------------------------
(* The theorems.                                                           *)

LEMMA InitHolds == Init => IInv
  <1> SUFFICES ASSUME Init PROVE IInv
    OBVIOUS
  <1>1. /\ << >> \in Seq(Prompts) /\ << >> \in Seq(Notices)
        /\ << >> \in Seq(Row) /\ << >> \in Seq(Calls)
    OBVIOUS
  <1>2. TypeOK
    <2>1. VolatileOK
      <3>1. batch = << >> /\ Len(batch) = 0 /\ answered = 0 /\ rounds = 0
        BY DEF Init
      <3>2. rounds \in 0..MaxRounds /\ answered \in 0..Len(batch) /\ batch \in Seq(Calls)
        BY <1>1, <3>1, DrainAssumption
      <3> QED
        BY <3>2 DEF Init, VolatileOK, Places
    <2>2. crashes \in 0..MaxCrashes /\ ran \in [Calls -> Nat]
      BY DrainAssumption DEF Init
    <2> QED
      BY <1>1, <2>1, <2>2 DEF Init, TypeOK, VolatileOK
  <1>3. Stages /\ ToolsHold
    BY DEF Init, Stages, ToolsHold, Calls
  <1>4. Rows("user") = {}
    BY DEF Init, Rows
  <1>5. NoticesOnce
    BY <1>4 DEF NoticesOnce
  <1>6. Given = << >>
    <2>1. DOMAIN [i \in PromptRows |-> history[i].of] = {}
      BY <1>4 DEF PromptRows
    <2> QED
      BY <2>1, InOrderOfNothing DEF Given
  <1>7. Prefix(0)
    BY <1>6 DEF Prefix, Init
  <1>8. PromptsHold
    BY <1>7 DEF PromptsHold, Init
  <1> QED
    BY <1>2, <1>3, <1>5, <1>8 DEF IInv

LEMMA StepHolds == IInv /\ [Next]_vars => IInv'
  BY TypesStep, StagesStep, ToolsStep, NoticesStep, PromptsStep DEF IInv

\* The inductive invariant holds in every reachable state, whatever fails, is
\* cancelled or crashes, for any number of prompts, notices and tool calls.
THEOREM DrainInvariance == Spec => []IInv
  BY InitHolds, StepHolds, PTL DEF Spec

LEMMA NoticeRows ==
    ASSUME IInv
    PROVE  NoticeOnce
  <1> SUFFICES ASSUME NEW n \in Notices
               PROVE  Cardinality({i \in Rows("user") : history[i].of = n}) <= 1
    BY DEF NoticeOnce
  <1> DEFINE R == {i \in Rows("user") : history[i].of = n}
  <1>1. \A i, j \in R : i = j
    BY DEF IInv, NoticesOnce
  <1>2. R = {} \/ \E i : R = {i}
    <2> HIDE DEF R
    <2> QED
      BY <1>1
  <1>3. Cardinality(R) \in {0, 1}
    <2> HIDE DEF R
    <2> QED
      BY <1>2, FS_EmptySet, FS_Singleton
  <1> QED
    BY <1>3

\* No tool call is executed twice or without a record, no notice is in the history
\* twice, and no settled call and no closed message ever changes (StartTool,
\* RepairActive, DeliverMonitored, transitionTool, FinishAssistant).
THEOREM WhatIsDoneStays == Spec => DoneOnce
  <1>1. IInv => ToolRunsOnce /\ NoticeOnce
    <2> SUFFICES ASSUME IInv PROVE ToolRunsOnce /\ NoticeOnce
      OBVIOUS
    <2>1. ToolRunsOnce
      BY DEF IInv, ToolsHold, ToolRunsOnce
    <2> QED
      BY <2>1, NoticeRows
  <1>2. IInv /\ [Next]_vars =>
          [/\ \A k \in Calls : calls[k] \in Terminal => calls'[k] = calls[k]
           /\ Len(history) <= Len(history')
           /\ \A i \in DOMAIN history :
                i \notin ActiveRows => history'[i] = history[i]]_vars
    BY CallsStep, HistoryGrows DEF IInv
  <1> QED
    BY <1>1, <1>2, DrainInvariance, PTL DEF Spec, DoneOnce, PastIsFixed

\* The waiting prompts are those admitted behind the promoted ones.
WaitingIs ==
    \A m \in 0..Len(admitted) :
        Prefix(m) => InOrder(Unpromoted(Len(admitted))) = SubSeq(admitted, m + 1, Len(admitted))

LEMMA WaitingHolds == IInv => WaitingIs
  <1> SUFFICES ASSUME IInv, NEW m \in 0..Len(admitted), Prefix(m)
               PROVE  InOrder(Unpromoted(Len(admitted))) = SubSeq(admitted, m + 1, Len(admitted))
    BY DEF WaitingIs
  <1>1. Len(admitted) \in 0..Len(admitted)
    BY DEF IInv, TypeOK
  <1> QED
    BY <1>1, WhatIsTaken DEF IInv

\* The steps of Inbox on parts of one sequence.
LEMMA AdmitIsAdmit ==
    ASSUME NEW s \in Seq(Prompts), NEW p \in Prompts, NEW m \in 0..Len(s),
           \A i \in 1..Len(s) : s[i] # p
    PROVE  LET w == SubSeq(s, m + 1, Len(s))
               t == SubSeq(s, 1, m)
               r == Append(s, p)
           IN  /\ ~Contains(w, p) /\ ~Contains(t, p)
               /\ SubSeq(r, m + 1, Len(r)) = Append(w, p)
               /\ SubSeq(r, 1, m) = t
  <1> DEFINE w == SubSeq(s, m + 1, Len(s))
             t == SubSeq(s, 1, m)
             r == Append(s, p)
  <1>0. Len(s) \in Nat /\ m \in Nat /\ m <= Len(s)
    OBVIOUS
  <1>1. /\ w \in Seq(Prompts) /\ Len(w) = Len(s) - m
        /\ \A i \in 1..(Len(s) - m) : w[i] = s[m + i]
    BY <1>0
  <1>2. t \in Seq(Prompts) /\ Len(t) = m /\ \A i \in 1..m : t[i] = s[i]
    BY <1>0
  <1>3. /\ r \in Seq(Prompts) /\ Len(r) = Len(s) + 1 /\ r[Len(s) + 1] = p
        /\ \A i \in 1..Len(s) : r[i] = s[i]
    BY <1>0
  <1>4. ~Contains(w, p)
    <2>1. \A i \in 1..(Len(s) - m) : w[i] # p
      BY <1>0, <1>1
    <2> HIDE DEF w
    <2> QED
      BY <1>1, <2>1 DEF Contains
  <1>5. ~Contains(t, p)
    <2>1. \A i \in 1..m : t[i] # p
      BY <1>0, <1>2
    <2> HIDE DEF t
    <2> QED
      BY <1>2, <2>1 DEF Contains
  <1>6. SubSeq(r, m + 1, Len(r)) = Append(w, p)
    <2> DEFINE x == SubSeq(r, m + 1, Len(r))
               y == Append(w, p)
    <2>1. /\ x \in Seq(Prompts) /\ Len(x) = Len(s) + 1 - m
          /\ \A i \in 1..(Len(s) + 1 - m) : x[i] = r[m + i]
      <3> HIDE DEF r
      <3> QED
        BY <1>0, <1>3
    <2>2. /\ y \in Seq(Prompts) /\ Len(y) = Len(s) + 1 - m
          /\ \A i \in 1..(Len(s) - m) : y[i] = w[i]
          /\ y[Len(s) + 1 - m] = p
      <3> HIDE DEF w
      <3> QED
        BY <1>0, <1>1
    <2>3. \A i \in 1..(Len(s) + 1 - m) : x[i] = y[i]
      <3> TAKE i \in 1..(Len(s) + 1 - m)
      <3>1. CASE i = Len(s) + 1 - m
        <4>1. m + i = Len(s) + 1
          BY <1>0, <3>1
        <4> HIDE DEF x, y, r, w
        <4> QED
          BY <3>1, <4>1, <2>1, <2>2, <1>3
      <3>2. CASE i # Len(s) + 1 - m
        <4>1. i \in 1..(Len(s) - m) /\ m + i \in 1..Len(s)
          BY <1>0, <3>2
        <4> HIDE DEF x, y, r, w
        <4> QED
          BY <4>1, <2>1, <2>2, <1>1, <1>3
      <3> QED
        BY <3>1, <3>2
    <2> HIDE DEF x, y
    <2>4. x = y
      BY <2>1, <2>2, <2>3, SeqEqual
    <2> QED
      BY <2>4 DEF x, y
  <1>7. SubSeq(r, 1, m) = t
    <2> DEFINE x == SubSeq(r, 1, m)
    <2>1. x \in Seq(Prompts) /\ Len(x) = m /\ \A i \in 1..m : x[i] = r[i]
      <3> HIDE DEF r
      <3> QED
        BY <1>0, <1>3
    <2>2. \A i \in 1..m : x[i] = t[i]
      <3> HIDE DEF x, t, r
      <3> QED
        BY <1>0, <1>2, <1>3, <2>1
    <2> HIDE DEF x, t
    <2>3. x = t
      BY <1>2, <2>1, <2>2, SeqEqual
    <2> QED
      BY <2>3 DEF x
  <1> QED
    BY <1>4, <1>5, <1>6, <1>7

LEMMA PromoteIsTake ==
    ASSUME NEW s \in Seq(Prompts), NEW m \in 0..Len(s), NEW c \in 0..Len(s), m < c
    PROVE  LET w == SubSeq(s, m + 1, Len(s))
               t == SubSeq(s, 1, m)
           IN  /\ c - m \in 1..Len(w)
               /\ SubSeq(s, 1, c) = t \o SubSeq(w, 1, c - m)
               /\ SubSeq(s, c + 1, Len(s)) = SubSeq(w, c - m + 1, Len(w))
  <1> DEFINE w == SubSeq(s, m + 1, Len(s))
             t == SubSeq(s, 1, m)
  <1>0. Len(s) \in Nat /\ m \in Nat /\ c \in Nat /\ m < c /\ c <= Len(s)
    OBVIOUS
  <1>1. /\ w \in Seq(Prompts) /\ Len(w) = Len(s) - m
        /\ \A i \in 1..(Len(s) - m) : w[i] = s[m + i]
    BY <1>0
  <1>2. c - m \in 1..Len(w)
    BY <1>0, <1>1
  <1>3. SubSeq(w, 1, c - m) = SubSeq(s, m + 1, c)
    <2> DEFINE x == SubSeq(w, 1, c - m)
               y == SubSeq(s, m + 1, c)
    <2>1. x \in Seq(Prompts) /\ Len(x) = c - m /\ \A i \in 1..(c - m) : x[i] = w[i]
      <3> HIDE DEF w
      <3> QED
        BY <1>0, <1>1
    <2>2. y \in Seq(Prompts) /\ Len(y) = c - m /\ \A i \in 1..(c - m) : y[i] = s[m + i]
      BY <1>0
    <2>3. \A i \in 1..(c - m) : x[i] = y[i]
      <3> HIDE DEF x, y, w
      <3> QED
        BY <1>0, <1>1, <2>1, <2>2
    <2> HIDE DEF x, y
    <2>4. x = y
      BY <2>1, <2>2, <2>3, SeqEqual
    <2> QED
      BY <2>4 DEF x, y
  <1>4. SubSeq(s, 1, c) = t \o SubSeq(s, m + 1, c)
    BY <1>0
  <1>5. SubSeq(s, c + 1, Len(s)) = SubSeq(w, c - m + 1, Len(w))
    <2> DEFINE x == SubSeq(w, c - m + 1, Len(w))
               y == SubSeq(s, c + 1, Len(s))
    <2>1. x \in Seq(Prompts) /\ Len(x) = Len(s) - c /\ \A i \in 1..(Len(s) - c) : x[i] = w[c - m + i]
      <3> HIDE DEF w
      <3> QED
        BY <1>0, <1>1
    <2>2. y \in Seq(Prompts) /\ Len(y) = Len(s) - c /\ \A i \in 1..(Len(s) - c) : y[i] = s[c + i]
      BY <1>0
    <2>3. \A i \in 1..(Len(s) - c) : x[i] = y[i]
      <3> TAKE i \in 1..(Len(s) - c)
      <3>1. c - m + i \in 1..(Len(s) - m) /\ m + (c - m + i) = c + i
        BY <1>0
      <3> HIDE DEF x, y, w
      <3> QED
        BY <1>1, <2>1, <2>2, <3>1
    <2> HIDE DEF x, y
    <2>4. x = y
      BY <2>1, <2>2, <2>3, SeqEqual
    <2> QED
      BY <2>4 DEF x, y
  <1> QED
    BY <1>2, <1>3, <1>4, <1>5

\* Every step of the session is a step of its inbox, or none.
LEMMA InboxStep ==
    ASSUME IInv, IInv', WaitingIs, WaitingIs', [Next]_vars
    PROVE  [Inbox!Next]_<<InOrder(Unpromoted(Len(admitted))), Given>>
  <1> DEFINE w == InOrder(Unpromoted(Len(admitted)))
  <1>0. admitted \in Seq(Prompts) /\ Len(admitted) \in Nat
    BY DEF IInv, TypeOK
  <1>1. PICK m \in 0..Len(admitted) : Prefix(m)
    BY DEF IInv, PromptsHold
  <1>2. w = SubSeq(admitted, m + 1, Len(admitted)) /\ Given = SubSeq(admitted, 1, m)
    BY <1>1 DEF WaitingIs, Prefix
  <1>3. PICK c \in 0..Len(admitted') : Prefix(c)'
    BY DEF IInv, PromptsHold
  <1>4. w' = SubSeq(admitted', c + 1, Len(admitted')) /\ Given' = SubSeq(admitted', 1, c)
    BY <1>3 DEF WaitingIs, Prefix
  <1>5. Len(Given) = m
    BY <1>0, <1>2
  <1>6. admitted' \in Seq(Prompts) /\ Len(admitted') \in Nat
    BY DEF IInv, TypeOK
  <1>7. Len(Given') = c
    BY <1>4, <1>6
  <1>8. ASSUME NEW p \in Prompts, Admit(p)
        PROVE  Inbox!Admit(p)
    <2>1. /\ admitted' = Append(admitted, p)
          /\ \A i \in 1..Len(admitted) : admitted[i] # p
          /\ history' = history
      BY <1>8 DEF Admit, Contains
    <2>2. Given' = Given
      BY <2>1 DEF Given, PromptRows, Rows
    <2>3. c = m
      BY <2>2, <1>5, <1>7
    <2>4. /\ ~Contains(SubSeq(admitted, m + 1, Len(admitted)), p)
          /\ ~Contains(SubSeq(admitted, 1, m), p)
          /\ SubSeq(admitted', m + 1, Len(admitted'))
               = Append(SubSeq(admitted, m + 1, Len(admitted)), p)
      BY <1>0, <2>1, AdmitIsAdmit
    <2>5. ~Contains(w, p) /\ ~Contains(Given, p) /\ w' = Append(w, p) /\ Given' = Given
      BY <2>2, <2>3, <2>4, <1>2, <1>4
    <2> QED
      BY <2>5 DEF Inbox!Admit, Given, Contains, Inbox!Contains
  <1>9. ASSUME admitted' = admitted, Given' = Given
        PROVE  UNCHANGED <<w, Given>>
    <2>1. c = m
      BY <1>9, <1>5, <1>7
    <2> QED
      BY <2>1, <1>9, <1>2, <1>4
  <1>10. ASSUME Promote
         PROVE  \/ UNCHANGED <<w, Given>>
                \/ \E n \in 1..Len(w) : Inbox!Take(n)
    <2>1. admitted' = admitted
      BY <1>10 DEF Promote
    <2>2. PICK taken \in Seq(Prompts) : Given' = Given \o taken
      <3>1. PICK taken \in Seq(Prompts) :
                 history' = history \o [i \in DOMAIN taken |-> User(taken[i])]
        BY <1>10, PromoteRows DEF IInv
      <3> QED
        BY <3>1, GivenMore DEF IInv
    <2>3. m <= c
      <3>1. Given \in Seq(Prompts)
        BY <1>0, <1>2
      <3>2. Len(Given \o taken) = m + Len(taken) /\ Len(taken) \in Nat
        <4>1. Len(Given \o taken) = Len(Given) + Len(taken)
          BY <3>1, ConcatProperties
        <4>2. Len(taken) \in Nat
          OBVIOUS
        <4> QED
          BY <4>1, <4>2, <1>5
      <3> QED
        BY <3>2, <2>2, <1>7
    <2>4. CASE m = c
      BY <2>1, <2>4, <1>2, <1>4
    <2>5. CASE m < c
      <3>1. c \in 0..Len(admitted)
        BY <2>1
      <3>2. /\ c - m \in 1..Len(SubSeq(admitted, m + 1, Len(admitted)))
            /\ SubSeq(admitted, 1, c)
                 = SubSeq(admitted, 1, m) \o SubSeq(SubSeq(admitted, m + 1, Len(admitted)), 1, c - m)
            /\ SubSeq(admitted, c + 1, Len(admitted))
                 = SubSeq(SubSeq(admitted, m + 1, Len(admitted)), c - m + 1,
                          Len(SubSeq(admitted, m + 1, Len(admitted))))
        BY <1>0, <2>5, <3>1, PromoteIsTake
      <3>3. /\ c - m \in 1..Len(w)
            /\ Given' = Given \o SubSeq(w, 1, c - m)
            /\ w' = SubSeq(w, c - m + 1, Len(w))
        BY <3>2, <2>1, <1>2, <1>4
      <3>4. Inbox!Take(c - m)
        BY <3>3 DEF Inbox!Take, Given
      <3> QED
        BY <3>3, <3>4
    <2> QED
      BY <2>3, <2>4, <2>5, <1>1, <1>3
  <1>11. admitted' = admitted \/ \E p \in Prompts : Admit(p)
    BY AdmittedStep
  <1>12. Given' = Given \/ Promote
    BY GivenStep DEF IInv
  <1> HIDE DEF w
  <1>13. \/ UNCHANGED <<w, Given>>
         \/ \E p \in Prompts : Inbox!Admit(p)
         \/ \E n \in 1..Len(w) : Inbox!Take(n)
    BY <1>8, <1>9, <1>10, <1>11, <1>12
  <1> QED
    BY <1>13 DEF w, Inbox!Next

\* The session keeps the promise of its inbox: an admitted prompt waits until the
\* model is given it, in the order of admission, once (promote).
THEOREM SessionImplementsInbox == Spec => ImplementsInbox
  <1>1. Init => Inbox!Init
    <2> SUFFICES ASSUME Init PROVE Inbox!Init
      OBVIOUS
    <2>1. DOMAIN Unpromoted(Len(admitted)) = {}
      BY DEF Init, Unpromoted
    <2>2. DOMAIN [i \in PromptRows |-> history[i].of] = {}
      BY DEF Init, PromptRows, Rows
    <2> QED
      BY <2>1, <2>2, InOrderOfNothing DEF Inbox!Init
  <1>2. IInv /\ IInv' /\ WaitingIs /\ WaitingIs' /\ [Next]_vars
          => [Inbox!Next]_<<InOrder(Unpromoted(Len(admitted))),
                            InOrder([i \in PromptRows |-> history[i].of])>>
    BY InboxStep DEF Given
  <1> QED
    BY <1>1, <1>2, WaitingHolds, DrainInvariance, PTL DEF Spec, ImplementsInbox, Inbox!Spec
=============================================================================
