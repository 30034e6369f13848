-------------------------- MODULE ServicesProofs ---------------------------
(***************************************************************************)
(* Proofs about services of MCServices, for any number of processes,       *)
(* sessions, names, calls and files: a change of several files is all or   *)
(* nothing, claims of owners and names exclude each other, and the files   *)
(* under the state directory survive starts, failures and kills.           *)
(***************************************************************************)
EXTENDS MCServices, WellFoundedInduction, SequenceTheorems, TLAPS

-----------------------------------------------------------------------------
(* Changes of files.                                                       *)

\* What the plans of the calls are; the rest of the types is ChangeCommit's.
ChangeTypes ==
    /\ cFile \in [Paths -> Change!Contents] /\ directory \in BOOLEAN
    /\ staged \in [Patches -> SUBSET Paths]
    /\ cPc \in [Patches -> {"plan", "check", "makeDirectory", "stage", "apply",
                            "rollback", "discard", "ok", "failed"}]
    /\ before = [c \in Patches |-> before[c]] /\ after = [c \in Patches |-> after[c]]
    /\ \A c \in Patches :
        /\ DOMAIN before[c] \subseteq Paths /\ DOMAIN after[c] = DOMAIN before[c]
        /\ \A p \in DOMAIN before[c] : {before[c][p], after[c][p]} \subseteq Change!Contents
    /\ at \in [Patches -> Paths \cup {0}]
    /\ unrestored \in [Patches -> SUBSET Paths] /\ foreign \in [Patches -> SUBSET Paths]

\* The contents of a plan's paths, by how far its call has come; a path another
\* call wrote in the meantime is left out.
HoldsOld(c, p) == cFile[p] = before[c][p]
HoldsNew(c, p) == cFile[p] = after[c][p]
Progress(c) ==
    /\ cPc[c] \in {"makeDirectory", "stage"} => at[c] = 0
    /\ cPc[c] = "plan" => Change!Of(c) = {}
    /\ \A p \in Change!Of(c) \ foreign[c] :
        /\ cPc[c] \in {"check", "makeDirectory", "stage"} => HoldsOld(c, p)
        /\ cPc[c] \in {"apply", "rollback"} /\ p <= at[c] => HoldsNew(c, p)
        /\ cPc[c] = "apply" /\ p > at[c] => HoldsOld(c, p)
        /\ cPc[c] = "rollback" /\ p > at[c] => HoldsOld(c, p) \/ p \in unrestored[c]
        /\ cPc[c] \in {"discard", "failed"} => HoldsOld(c, p) \/ p \in unrestored[c]
        /\ cPc[c] = "ok" => HoldsNew(c, p)

\* What is staged below the new directory keeps it, as the files in it do.
StagedKeeps(c) == staged[c] \cap Nested # {} => directory
StagedWaits(c) ==
    cPc[c] = "apply" =>
      \A p \in Change!Of(c) : p > at[c] /\ after[c][p] # Absent => p \in staged[c]
DirectoryIsKept == \A p \in Nested : cFile[p] # Absent => directory

\* The inductive invariant of ChangeCommit.
ChangeInv ==
    /\ ChangeTypes /\ DirectoryIsKept
    /\ \A c \in Patches : Progress(c) /\ StagedKeeps(c) /\ StagedWaits(c)

LEMMA NumbersHaveLeast ==
    ASSUME NEW ns \in SUBSET Nat, ns # {}
    PROVE  \E n \in ns : \A m \in ns : n <= m
  <1> DEFINE R == {ss \in Nat \X Nat : ss[1] < ss[2]}
  <1>1. IsWellFoundedOn(R, Nat)
    BY NatLessThanWellFounded DEF OpToRel
  <1>2. \A k, m \in Nat : m < k => <<m, k>> \in R
    OBVIOUS
  <1> HIDE DEF R
  <1>3. PICK n \in ns : \A m \in ns : ~ (<<m, n>> \in R)
    BY <1>1, WFMin
  <1>4. ASSUME NEW m \in ns PROVE n <= m
    <2>1. n \in Nat /\ m \in Nat
      OBVIOUS
    <2>2. ~ (m < n)
      BY <1>2, <1>3, <2>1
    <2> QED
      BY <2>1, <2>2
  <1> QED
    BY <1>4

LEMMA LeastIs ==
    ASSUME NEW ps \in SUBSET Paths, ps # {}
    PROVE  Change!Least(ps) \in ps /\ \A q \in ps : Change!Least(ps) <= q
  <1>1. ps \in SUBSET Nat
    BY ServicesAssumption
  <1>2. \E p \in ps : \A q \in ps : p <= q
    BY <1>1, NumbersHaveLeast
  <1> QED
    BY <1>2 DEF Change!Least

LEMMA GreatestIs ==
    ASSUME NEW ps \in SUBSET Paths, ps # {}
    PROVE  Change!Greatest(ps) \in ps /\ \A q \in ps : q <= Change!Greatest(ps)
  <1>1. \E p \in ps : \A q \in ps : q <= p
    BY ServicesAssumption
  <1> QED
    BY <1>1 DEF Change!Greatest

\* The paths a call has applied, and the next one it restores.
Applied(c) == {p \in Change!Of(c) : p <= at[c]}

LEMMA PathsAreNumbers ==
    ASSUME ChangeTypes, NEW c \in Patches
    PROVE  /\ Change!Of(c) \subseteq Paths /\ Paths \subseteq Nat \ {0} /\ at[c] \in Nat
           /\ Change!Beyond(c) \subseteq Paths /\ Applied(c) \subseteq Paths
  BY ServicesAssumption DEF ChangeTypes, Change!Of, Change!Beyond, Applied

LEMMA ChangeStarts == AllInit => ChangeInv
  <1> SUFFICES ASSUME Change!Init PROVE ChangeInv
    BY DEF AllInit
  <1>1. DOMAIN << >> = {}
    OBVIOUS
  <1>2. ChangeTypes
    BY <1>1, ServicesAssumption DEF Change!Init, ChangeTypes, Change!Contents
  <1>3. DirectoryIsKept
    BY ServicesAssumption DEF Change!Init, DirectoryIsKept
  <1>4. ASSUME NEW c \in Patches PROVE Progress(c) /\ StagedKeeps(c) /\ StagedWaits(c)
    BY <1>1 DEF Change!Init, Progress, StagedKeeps, StagedWaits, Change!Of
  <1> QED
    BY <1>2, <1>3, <1>4 DEF ChangeInv


\* The steps of one call.
Acts(c) ==
    \/ Change!Plan(c) \/ Change!Check(c) \/ Change!Checked(c) \/ Change!MakeDirectory(c)
    \/ Change!Stage(c) \/ Change!Apply(c) \/ Change!Abort(c) \/ Change!Finish(c)
    \/ Change!Rollback(c) \/ Change!RollbackFails(c) \/ Change!Discard(c)

LEMMA ChangeTypesStep ==
    ASSUME ChangeInv, NEW c \in Patches, Acts(c)
    PROVE  ChangeTypes'
  <1> USE DEF Change!Goto, Change!plan
  <1>0. /\ ChangeTypes /\ Change!Of(c) \subseteq Paths
        /\ Change!Beyond(c) \subseteq Paths /\ Applied(c) \subseteq Paths
    BY PathsAreNumbers DEF ChangeInv
  <1>1. ASSUME Change!Plan(c) PROVE ChangeTypes'
    <2>1. PICK ps \in (SUBSET Paths) \ {{}}, ds \in SUBSET Paths :
            /\ before' = [before EXCEPT ![c] = [p \in ps |-> cFile[p]]]
            /\ after' = [after EXCEPT ![c] = [p \in ps |-> IF p \in ds THEN Absent ELSE c]]
      BY <1>1 DEF Change!Plan
    <2>2. /\ cPc' = [cPc EXCEPT ![c] = "check"]
          /\ UNCHANGED <<cFile, directory, staged, made, at, unrestored, foreign, overwrote>>
      BY <1>1 DEF Change!Plan
    <2>3. ASSUME NEW d \in Patches
          PROVE  /\ DOMAIN before'[d] \subseteq Paths /\ DOMAIN after'[d] = DOMAIN before'[d]
                 /\ \A p \in DOMAIN before'[d] :
                        {before'[d][p], after'[d][p]} \subseteq Change!Contents
      <3>1. CASE d = c
        BY <1>0, <2>1, <3>1 DEF ChangeTypes, Change!Contents
      <3>2. CASE d # c
        BY <1>0, <2>1, <3>2 DEF ChangeTypes
      <3> QED
        BY <3>1, <3>2
    <2>4. before' = [d \in Patches |-> before'[d]] /\ after' = [d \in Patches |-> after'[d]]
      BY <1>0, <2>1 DEF ChangeTypes
    <2> QED
      BY <1>0, <2>2, <2>3, <2>4 DEF ChangeTypes, Change!Contents
  <1>2. ASSUME Change!Check(c) PROVE ChangeTypes'
    BY <1>0, <1>2, LeastIs DEF Change!Check, ChangeTypes, Change!Contents
  <1>3. ASSUME Change!Checked(c) PROVE ChangeTypes'
    BY <1>0, <1>3 DEF Change!Checked, ChangeTypes, Change!Contents
  <1>4. ASSUME Change!MakeDirectory(c) PROVE ChangeTypes'
    BY <1>0, <1>4 DEF Change!MakeDirectory, ChangeTypes, Change!Contents
  <1>5. ASSUME Change!Stage(c) PROVE ChangeTypes'
    BY <1>0, <1>5 DEF Change!Stage, ChangeTypes, Change!Contents
  <1>6. ASSUME Change!Apply(c) PROVE ChangeTypes'
    <2>1. Change!Least(Change!Beyond(c)) \in Change!Of(c)
      BY <1>0, <1>6, LeastIs DEF Change!Apply, Change!Beyond
    <2> DEFINE p == Change!Least(Change!Beyond(c))
    <2>2. after[c][p] \in Change!Contents /\ p \in Paths
      BY <1>0, <2>1 DEF ChangeTypes, Change!Of
    <2>3. /\ cFile' = [cFile EXCEPT ![p] = after[c][p]]
          /\ staged' = [staged EXCEPT ![c] = @ \ {p}]
          /\ at' = [at EXCEPT ![c] = p]
          /\ foreign' = [d \in Patches |-> IF d # c /\ p \in Change!Of(d)
                                           THEN foreign[d] \cup {p} ELSE foreign[d]]
          /\ UNCHANGED <<directory, cPc, before, after, unrestored>>
      BY <1>6 DEF Change!Apply, Change!Wrote
    <2> HIDE DEF p
    <2> QED
      BY <1>0, <2>2, <2>3 DEF ChangeTypes, Change!Contents
  <1>7. ASSUME Change!Abort(c) \/ Change!Finish(c) PROVE ChangeTypes'
    BY <1>0, <1>7 DEF Change!Abort, Change!Finish, ChangeTypes, Change!Contents
  <1>8. ASSUME Change!Rollback(c) PROVE ChangeTypes'
    <2>1. CASE Applied(c) = {}
      BY <1>0, <1>8, <2>1 DEF Change!Rollback, Applied, ChangeTypes, Change!Contents
    <2>2. CASE Applied(c) # {}
      <3> DEFINE p == Change!Greatest(Applied(c))
                 rest == Applied(c) \ {p}
      <3>1. /\ cFile' = [cFile EXCEPT ![p] = before[c][p]]
            /\ at' = [at EXCEPT ![c] = IF rest = {} THEN 0 ELSE Change!Greatest(rest)]
            /\ foreign' = [d \in Patches |-> IF d # c /\ p \in Change!Of(d)
                                             THEN foreign[d] \cup {p} ELSE foreign[d]]
            /\ UNCHANGED <<directory, staged, cPc, before, after, unrestored>>
        BY <1>8, <2>2 DEF Change!Rollback, Change!Wrote, Applied
      <3>2. p \in Change!Of(c) /\ p \in Paths /\ before[c][p] \in Change!Contents
        BY <1>0, <2>2, GreatestIs DEF Applied, ChangeTypes, Change!Of
      <3>3. rest # {} => Change!Greatest(rest) \in Paths
        BY <1>0, GreatestIs
      <3> HIDE DEF p, rest
      <3> QED
        BY <1>0, <3>1, <3>2, <3>3 DEF ChangeTypes, Change!Contents
    <2> QED
      BY <2>1, <2>2
  <1>9. ASSUME Change!RollbackFails(c) PROVE ChangeTypes'
    <2> DEFINE p == Change!Greatest(Applied(c))
               rest == Applied(c) \ {p}
    <2>1. /\ unrestored' = [unrestored EXCEPT ![c] = @ \cup {p}]
          /\ at' = [at EXCEPT ![c] = IF rest = {} THEN 0 ELSE Change!Greatest(rest)]
          /\ UNCHANGED <<cFile, directory, staged, cPc, before, after, foreign>>
      BY <1>9 DEF Change!RollbackFails, Applied
    <2>2. p \in Paths
      BY <1>0, <1>9, GreatestIs DEF Change!RollbackFails, Applied
    <2>3. rest # {} => Change!Greatest(rest) \in Paths
      BY <1>0, GreatestIs
    <2> HIDE DEF p, rest
    <2> QED
      BY <1>0, <2>1, <2>2, <2>3 DEF ChangeTypes, Change!Contents
  <1>10. ASSUME Change!Discard(c) PROVE ChangeTypes'
    BY <1>0, <1>10 DEF Change!Discard, ChangeTypes, Change!Contents
  <1> QED
    BY <1>1, <1>2, <1>3, <1>4, <1>5, <1>6, <1>7, <1>8, <1>9, <1>10 DEF Acts

\* What a step of one call leaves to another one.
LEMMA OthersStay ==
    ASSUME ChangeInv, NEW c \in Patches, NEW d \in Patches \ {c}, Acts(c)
    PROVE  /\ cPc'[d] = cPc[d] /\ at'[d] = at[d] /\ before'[d] = before[d]
           /\ after'[d] = after[d] /\ unrestored'[d] = unrestored[d]
           /\ staged'[d] = staged[d] /\ foreign[d] \subseteq foreign'[d]
           /\ \A p \in Change!Of(d) : cFile'[p] # cFile[p] => p \in foreign'[d]
           /\ staged[d] \cap Nested # {} /\ directory => directory'
  <1> USE DEF Change!Goto, Change!plan
  <1>0. ChangeTypes /\ Change!Of(d) \subseteq Paths
    BY PathsAreNumbers DEF ChangeInv
  <1>1. ASSUME Change!Apply(c) \/ Change!Rollback(c)
        PROVE  \A p \in Change!Of(d) : cFile'[p] # cFile[p] => p \in foreign'[d]
    <2>1. \/ cFile' = cFile
          \/ \E p, v : /\ cFile' = [cFile EXCEPT ![p] = v]
                       /\ foreign' = [e \in Patches |-> IF e # c /\ p \in Change!Of(e)
                                            THEN foreign[e] \cup {p} ELSE foreign[e]]
      BY <1>1 DEF Change!Apply, Change!Rollback, Change!Wrote
    <2> QED
      BY <1>0, <2>1 DEF ChangeTypes
  <1>2. foreign[d] \subseteq foreign'[d]
    <2>1. \/ foreign' = foreign
          \/ \E p : foreign' = [e \in Patches |-> IF e # c /\ p \in Change!Of(e)
                                    THEN foreign[e] \cup {p} ELSE foreign[e]]
      BY DEF Acts, Change!Plan, Change!Check, Change!Checked, Change!MakeDirectory,
             Change!Stage, Change!Apply, Change!Abort, Change!Finish, Change!Rollback,
             Change!RollbackFails, Change!Discard, Change!Wrote
    <2> QED
      BY <1>0, <2>1 DEF ChangeTypes
  <1>3. \A p \in Change!Of(d) : cFile'[p] # cFile[p] => p \in foreign'[d]
    <2>1. CASE Change!Apply(c) \/ Change!Rollback(c)
      BY <1>1, <2>1
    <2>2. CASE ~(Change!Apply(c) \/ Change!Rollback(c))
      <3>1. cFile' = cFile
        BY <2>2 DEF Acts, Change!Plan, Change!Check, Change!Checked, Change!MakeDirectory,
             Change!Stage, Change!Abort, Change!Finish, Change!RollbackFails, Change!Discard
      <3> QED
        BY <3>1
    <2> QED
      BY <2>1, <2>2
  <1>4. cPc'[d] = cPc[d] /\ at'[d] = at[d]
    BY <1>0 DEF Acts, Change!Plan, Change!Check, Change!Checked, Change!MakeDirectory,
           Change!Stage, Change!Apply, Change!Abort, Change!Finish, Change!Rollback,
           Change!RollbackFails, Change!Discard, ChangeTypes
  <1>5. before'[d] = before[d] /\ after'[d] = after[d]
    BY <1>0 DEF Acts, Change!Plan, Change!Check, Change!Checked, Change!MakeDirectory,
           Change!Stage, Change!Apply, Change!Abort, Change!Finish, Change!Rollback,
           Change!RollbackFails, Change!Discard, ChangeTypes
  <1>6. unrestored'[d] = unrestored[d] /\ staged'[d] = staged[d]
    BY <1>0 DEF Acts, Change!Plan, Change!Check, Change!Checked, Change!MakeDirectory,
           Change!Stage, Change!Apply, Change!Abort, Change!Finish, Change!Rollback,
           Change!RollbackFails, Change!Discard, ChangeTypes
  <1>7. staged[d] \cap Nested # {} /\ directory => directory'
    BY <1>0 DEF Acts, Change!Plan, Change!Check, Change!Checked, Change!MakeDirectory,
           Change!Stage, Change!Apply, Change!Abort, Change!Finish, Change!Rollback,
           Change!RollbackFails, Change!Discard, ChangeTypes
  <1> QED
    BY <1>2, <1>3, <1>4, <1>5, <1>6, <1>7

LEMMA OthersHold ==
    ASSUME ChangeInv, NEW c \in Patches, NEW d \in Patches \ {c}, Acts(c)
    PROVE  Progress(d)' /\ StagedKeeps(d)' /\ StagedWaits(d)'
  <1>1. Progress(d) /\ StagedKeeps(d) /\ StagedWaits(d)
    BY DEF ChangeInv
  <1>2. Change!Of(d)' = Change!Of(d)
    BY OthersStay DEF Change!Of
  <1>3. Progress(d)'
    BY <1>1, <1>2, OthersStay DEF Progress, HoldsOld, HoldsNew
  <1>4. StagedKeeps(d)' /\ StagedWaits(d)'
    BY <1>1, <1>2, OthersStay DEF StagedKeeps, StagedWaits
  <1> QED
    BY <1>3, <1>4


\* What a step of a call makes of its own plan.
LEMMA OwnProgress ==
    ASSUME ChangeInv, NEW c \in Patches, Acts(c)
    PROVE  Progress(c)'
  <1> USE DEF Change!Goto, Change!plan
  <1>0. /\ ChangeTypes /\ Progress(c)
        /\ Change!Of(c) \subseteq Paths /\ Paths \subseteq Nat \ {0} /\ at[c] \in Nat
        /\ Change!Beyond(c) \subseteq Paths /\ Applied(c) \subseteq Paths
    BY PathsAreNumbers DEF ChangeInv
  <1>a. \A q \in Change!Of(c) : q \in Nat /\ q > 0 /\ ~(q <= 0)
    <2> SUFFICES ASSUME NEW q \in Change!Of(c) PROVE q \in Nat /\ q # 0
      OBVIOUS
    <2> QED
      BY <1>0
  <1>1. ASSUME Change!Plan(c) PROVE Progress(c)'
    <2>1. PICK ps \in (SUBSET Paths) \ {{}} :
            before' = [before EXCEPT ![c] = [p \in ps |-> cFile[p]]]
      BY <1>1 DEF Change!Plan
    <2>2. cPc' = [cPc EXCEPT ![c] = "check"] /\ UNCHANGED <<cFile, foreign>>
      BY <1>1 DEF Change!Plan
    <2>3. before'[c] = [p \in ps |-> cFile[p]] /\ cPc'[c] = "check"
      BY <1>0, <2>1, <2>2 DEF ChangeTypes
    <2> QED
      BY <2>2, <2>3 DEF Progress, HoldsOld, HoldsNew, Change!Of
  <1>2. ASSUME Change!Check(c) PROVE Progress(c)'
    <2>1. cPc'[c] \in {"check", "failed"}
      BY <1>0, <1>2 DEF Change!Check, ChangeTypes
    <2>2. cPc[c] = "check" /\ UNCHANGED <<cFile, before, foreign>>
      BY <1>2 DEF Change!Check
    <2> QED
      BY <1>0, <2>1, <2>2 DEF Progress, HoldsOld, HoldsNew, Change!Of
  <1>3. ASSUME Change!Checked(c) PROVE Progress(c)'
    <2>1. cPc'[c] \in {"stage", "failed", "makeDirectory"} /\ at'[c] = 0
      BY <1>0, <1>3 DEF Change!Checked, ChangeTypes
    <2>2. cPc[c] = "check" /\ UNCHANGED <<cFile, before, foreign>>
      BY <1>3 DEF Change!Checked
    <2> QED
      BY <1>0, <2>1, <2>2 DEF Progress, HoldsOld, HoldsNew, Change!Of
  <1>4. ASSUME Change!MakeDirectory(c) PROVE Progress(c)'
    <2>1. cPc'[c] \in {"stage", "failed"} /\ at'[c] = at[c]
      BY <1>0, <1>4 DEF Change!MakeDirectory, ChangeTypes
    <2>2. cPc[c] = "makeDirectory" /\ UNCHANGED <<cFile, before, foreign>>
      BY <1>4 DEF Change!MakeDirectory
    <2> QED
      BY <1>0, <2>1, <2>2 DEF Progress, HoldsOld, HoldsNew, Change!Of
  <1>5. ASSUME Change!Stage(c) PROVE Progress(c)'
    <2>1. cPc'[c] \in {"apply", "discard"} /\ at'[c] = 0
      BY <1>0, <1>5 DEF Change!Stage, ChangeTypes, Progress
    <2>2. cPc[c] = "stage" /\ UNCHANGED <<cFile, before, foreign>>
      BY <1>5 DEF Change!Stage
    <2> QED
      BY <1>0, <1>a, <2>1, <2>2 DEF Progress, HoldsOld, HoldsNew, Change!Of
  <1>6. ASSUME Change!Apply(c) PROVE Progress(c)'
    <2> DEFINE e == Change!Least(Change!Beyond(c))
    <2>1. e \in Change!Of(c) /\ e > at[c] /\ \A q \in Change!Of(c) : q > at[c] => e <= q
      BY <1>0, <1>6, LeastIs DEF Change!Apply, Change!Beyond
    <2>2. /\ cFile' = [cFile EXCEPT ![e] = after[c][e]]
          /\ at' = [at EXCEPT ![c] = e]
          /\ cPc[c] = "apply" /\ UNCHANGED <<cPc, before, after, unrestored>>
          /\ foreign'[c] = foreign[c]
      BY <1>6 DEF Change!Apply, Change!Wrote
    <2> HIDE DEF e
    <2>3. at'[c] = e /\ cFile'[e] = after[c][e] /\ \A q \in Paths \ {e} : cFile'[q] = cFile[q]
      BY <1>0, <2>1, <2>2 DEF ChangeTypes
    <2>4. ASSUME NEW q \in Change!Of(c) \ foreign[c]
          PROVE  (q <= e => cFile'[q] = after[c][q]) /\ (q > e => cFile'[q] = before[c][q])
      <3>1. CASE q = e
        BY <1>a, <2>1, <2>3, <3>1
      <3>2. CASE q # e
        <4>1. (q <= e => q <= at[c]) /\ (q > e => q > at[c])
          BY <1>0, <1>a, <2>1, <3>2
        <4> QED
          BY <1>0, <2>2, <2>3, <3>2, <4>1 DEF Progress, HoldsOld, HoldsNew
      <3> QED
        BY <3>1, <3>2
    <2>5. Change!Of(c)' = Change!Of(c)
      BY <2>2 DEF Change!Of
    <2> QED
      BY <2>2, <2>3, <2>4, <2>5 DEF Progress, HoldsOld, HoldsNew
  <1>7. ASSUME Change!Abort(c) PROVE Progress(c)'
    <2>1. cPc'[c] = "rollback"
      BY <1>0, <1>7 DEF Change!Abort, ChangeTypes
    <2>2. cPc[c] = "apply" /\ UNCHANGED <<cFile, before, after, foreign, at, unrestored>>
      BY <1>7 DEF Change!Abort
    <2> QED
      BY <1>0, <2>1, <2>2 DEF Progress, HoldsOld, HoldsNew, Change!Of
  <1>8. ASSUME Change!Finish(c) PROVE Progress(c)'
    <2>1. cPc'[c] = "ok"
      BY <1>0, <1>8 DEF Change!Finish, ChangeTypes
    <2>2. cPc[c] = "apply" /\ UNCHANGED <<cFile, before, after, foreign, at, unrestored>>
      BY <1>8 DEF Change!Finish
    <2>3. \A p \in Change!Of(c) : p <= at[c]
      BY <1>0, <1>a, <1>8 DEF Change!Finish, Change!Beyond
    <2> QED
      BY <1>0, <2>1, <2>2, <2>3 DEF Progress, HoldsOld, HoldsNew, Change!Of
  <1>9. ASSUME Change!Rollback(c), Applied(c) = {} PROVE Progress(c)'
    <2>1. cPc'[c] = "discard"
      BY <1>0, <1>9 DEF Change!Rollback, Applied, ChangeTypes
    <2>2. /\ cPc[c] = "rollback"
          /\ UNCHANGED <<cFile, before, after, foreign, at, unrestored>>
      BY <1>9 DEF Change!Rollback, Applied
    <2>3. \A p \in Change!Of(c) : p > at[c]
      BY <1>0, <1>a, <1>9 DEF Applied
    <2> QED
      BY <1>0, <2>1, <2>2, <2>3 DEF Progress, HoldsOld, HoldsNew, Change!Of
  <1>10. ASSUME Change!Rollback(c) \/ Change!RollbackFails(c), Applied(c) # {}
         PROVE  Progress(c)'
    <2> DEFINE e == Change!Greatest(Applied(c))
               rest == Applied(c) \ {e}
               low == IF rest = {} THEN 0 ELSE Change!Greatest(rest)
    <2>1. e \in Change!Of(c) /\ e <= at[c] /\ \A q \in Applied(c) : q <= e
      BY <1>0, <1>10, GreatestIs DEF Applied
    <2>2. \A q \in Change!Of(c) : (q <= low => q <= at[c] /\ q # e)
                                  /\ (q > low => q = e \/ q > at[c])
      <3>1. CASE rest = {}
        BY <1>0, <1>a, <3>1 DEF Applied
      <3>2. CASE rest # {}
        <4>1. low \in rest /\ \A q \in rest : q <= low
          BY <1>0, <3>2, GreatestIs
        <4>2. low \in Nat /\ e \in Nat /\ low < e
          <5>1. low \in Nat /\ e \in Nat /\ low # e
            BY <1>a, <2>1, <4>1 DEF Applied
          <5> QED
            BY <2>1, <4>1, <5>1
        <4>3. ASSUME NEW q \in Change!Of(c)
              PROVE  (q <= low => q <= at[c] /\ q # e) /\ (q > low => q = e \/ q > at[c])
          <5>1. q \in Nat
            BY <1>a
          <5> HIDE DEF low, e
          <5>2. q \in Applied(c) <=> q <= at[c]
            BY DEF Applied
          <5> QED
            BY <1>0, <2>1, <4>1, <4>2, <5>1, <5>2
        <4> QED
          BY <4>3
      <3> QED
        BY <3>1, <3>2
    <2>3. /\ cPc[c] = "rollback" /\ UNCHANGED <<cPc, before, after>>
          /\ foreign'[c] = foreign[c]
          /\ at' = [at EXCEPT ![c] = low]
          /\ \/ cFile' = [cFile EXCEPT ![e] = before[c][e]] /\ unrestored' = unrestored
             \/ cFile' = cFile /\ unrestored' = [unrestored EXCEPT ![c] = @ \cup {e}]
      BY <1>10 DEF Change!Rollback, Change!RollbackFails, Change!Wrote, Applied
    <2> HIDE DEF e, low
    <2>4. at'[c] = low /\ \A q \in Paths \ {e} : cFile'[q] = cFile[q]
      BY <1>0, <2>3 DEF ChangeTypes
    <2>5. e \in unrestored'[c] \/ cFile'[e] = before[c][e]
      BY <1>0, <2>1, <2>3 DEF ChangeTypes
    <2>6. unrestored[c] \subseteq unrestored'[c]
      BY <1>0, <2>3 DEF ChangeTypes
    <2>7. ASSUME NEW q \in Change!Of(c) \ foreign[c]
          PROVE  /\ q <= low => cFile'[q] = after[c][q]
                 /\ q > low => cFile'[q] = before[c][q] \/ q \in unrestored'[c]
      <3>1. CASE q = e
        BY <2>2, <2>5, <3>1
      <3>2. CASE q # e
        BY <1>0, <2>2, <2>3, <2>4, <2>6, <3>2 DEF Progress, HoldsOld, HoldsNew
      <3> QED
        BY <3>1, <3>2
    <2>8. Change!Of(c)' = Change!Of(c)
      BY <2>3 DEF Change!Of
    <2> QED
      BY <2>3, <2>4, <2>7, <2>8 DEF Progress, HoldsOld, HoldsNew
  <1>11. ASSUME Change!Discard(c) PROVE Progress(c)'
    <2>1. cPc'[c] = "failed"
      BY <1>0, <1>11 DEF Change!Discard, ChangeTypes
    <2>2. cPc[c] = "discard" /\ UNCHANGED <<cFile, before, after, foreign, at, unrestored>>
      BY <1>11 DEF Change!Discard
    <2> QED
      BY <1>0, <2>1, <2>2 DEF Progress, HoldsOld, HoldsNew, Change!Of
  <1>12. Change!RollbackFails(c) => Applied(c) # {}
    BY DEF Change!RollbackFails, Applied
  <1> QED
    BY <1>1, <1>2, <1>3, <1>4, <1>5, <1>6, <1>7, <1>8, <1>9, <1>10, <1>11, <1>12 DEF Acts


\* What is staged, and what the directory holds, after a step of a call.
LEMMA OwnStaged ==
    ASSUME ChangeInv, NEW c \in Patches, Acts(c)
    PROVE  StagedKeeps(c)' /\ StagedWaits(c)'
  <1> USE DEF Change!Goto, Change!plan
  <1>0. /\ ChangeTypes /\ Progress(c) /\ StagedKeeps(c) /\ StagedWaits(c)
        /\ Change!Of(c) \subseteq Paths /\ Paths \subseteq Nat \ {0} /\ at[c] \in Nat
        /\ Change!Beyond(c) \subseteq Paths
    BY PathsAreNumbers DEF ChangeInv
  <1>1. ASSUME \/ Change!Plan(c) \/ Change!Check(c) \/ Change!Checked(c)
               \/ Change!MakeDirectory(c) \/ Change!Abort(c) \/ Change!Finish(c)
               \/ Change!Rollback(c) \/ Change!RollbackFails(c)
        PROVE  StagedKeeps(c)' /\ StagedWaits(c)'
    <2>1. staged' = staged /\ (directory => directory') /\ cPc'[c] # "apply"
      BY <1>0, <1>1 DEF Change!Plan, Change!Check, Change!Checked, Change!MakeDirectory,
           Change!Abort, Change!Finish, Change!Rollback, Change!RollbackFails, ChangeTypes
    <2> QED
      BY <1>0, <2>1 DEF StagedKeeps, StagedWaits
  <1>2. ASSUME Change!Stage(c) PROVE StagedKeeps(c)' /\ StagedWaits(c)'
    <2>1. /\ before' = before /\ after' = after /\ directory' = directory
          /\ \/ /\ cPc'[c] = "apply"
                /\ staged'[c] = {p \in Change!Of(c) : after[c][p] # Absent}
             \/ cPc'[c] # "apply"
          /\ staged'[c] \cap Nested # {} => directory'
      BY <1>0, <1>2 DEF Change!Stage, ChangeTypes
    <2> QED
      BY <2>1 DEF StagedKeeps, StagedWaits, Change!Of
  <1>3. ASSUME Change!Apply(c) PROVE StagedKeeps(c)' /\ StagedWaits(c)'
    <2> DEFINE e == Change!Least(Change!Beyond(c))
    <2>1. e \in Change!Of(c) /\ e > at[c]
      BY <1>0, <1>3, LeastIs DEF Change!Apply, Change!Beyond
    <2>2. /\ staged' = [staged EXCEPT ![c] = @ \ {e}]
          /\ at' = [at EXCEPT ![c] = e]
          /\ cPc[c] = "apply" /\ UNCHANGED <<directory, cPc, before, after>>
      BY <1>3 DEF Change!Apply
    <2> HIDE DEF e
    <2>3. staged'[c] = staged[c] \ {e} /\ at'[c] = e
      BY <1>0, <2>2 DEF ChangeTypes
    <2>4. ASSUME NEW q \in Change!Of(c), q > e, after[c][q] # Absent
          PROVE  q \in staged'[c]
      <3>1. q \in Nat /\ e \in Nat
        BY <1>0, <2>1
      <3>2. q > at[c] /\ q # e
        BY <1>0, <2>1, <2>4, <3>1
      <3> QED
        BY <1>0, <2>2, <2>3, <2>4, <3>2 DEF StagedWaits
    <2>5. StagedKeeps(c)'
      BY <1>0, <2>2, <2>3 DEF StagedKeeps
    <2> QED
      BY <2>2, <2>3, <2>4, <2>5 DEF StagedWaits, Change!Of
  <1>4. ASSUME Change!Discard(c) PROVE StagedKeeps(c)' /\ StagedWaits(c)'
    BY <1>0, <1>4 DEF Change!Discard, StagedKeeps, StagedWaits, ChangeTypes
  <1> QED
    BY <1>1, <1>2, <1>3, <1>4 DEF Acts

LEMMA DirectoryStays ==
    ASSUME ChangeInv, NEW c \in Patches, Acts(c)
    PROVE  DirectoryIsKept'
  <1> USE DEF Change!Goto, Change!plan
  <1>0. /\ ChangeTypes /\ DirectoryIsKept /\ StagedKeeps(c) /\ StagedWaits(c)
        /\ Change!Of(c) \subseteq Paths /\ Paths \subseteq Nat \ {0} /\ at[c] \in Nat
        /\ Change!Beyond(c) \subseteq Paths /\ Applied(c) \subseteq Paths
    BY PathsAreNumbers DEF ChangeInv
  <1>1. ASSUME \/ Change!Plan(c) \/ Change!Check(c) \/ Change!Checked(c)
               \/ Change!MakeDirectory(c) \/ Change!Stage(c) \/ Change!Abort(c)
               \/ Change!Finish(c) \/ Change!RollbackFails(c)
        PROVE  DirectoryIsKept'
    <2>1. cFile' = cFile /\ (directory => directory')
      BY <1>1 DEF Change!Plan, Change!Check, Change!Checked, Change!MakeDirectory,
           Change!Stage, Change!Abort, Change!Finish, Change!RollbackFails
    <2> QED
      BY <1>0, <2>1 DEF DirectoryIsKept
  <1>2. ASSUME Change!Apply(c) PROVE DirectoryIsKept'
    <2> DEFINE e == Change!Least(Change!Beyond(c))
    <2>1. e \in Change!Of(c) /\ e > at[c]
      BY <1>0, <1>2, LeastIs DEF Change!Apply, Change!Beyond
    <2>2. /\ cFile' = [cFile EXCEPT ![e] = after[c][e]]
          /\ cPc[c] = "apply" /\ UNCHANGED directory
      BY <1>2 DEF Change!Apply
    <2> HIDE DEF e
    <2>3. e \in Nested /\ after[c][e] # Absent => directory
      BY <1>0, <2>1, <2>2 DEF StagedWaits, StagedKeeps
    <2> QED
      BY <1>0, <2>1, <2>2, <2>3 DEF DirectoryIsKept, ChangeTypes
  <1>3. ASSUME Change!Rollback(c) PROVE DirectoryIsKept'
    <2>1. CASE Applied(c) = {}
      BY <1>0, <1>3, <2>1 DEF Change!Rollback, Applied, DirectoryIsKept
    <2>2. CASE Applied(c) # {}
      <3> DEFINE e == Change!Greatest(Applied(c))
      <3>1. /\ cFile' = [cFile EXCEPT ![e] = before[c][e]] /\ UNCHANGED directory
            /\ before[c][e] # Absent /\ e \in Nested => directory
        BY <1>3, <2>2 DEF Change!Rollback, Applied
      <3> HIDE DEF e
      <3> QED
        BY <1>0, <3>1 DEF DirectoryIsKept, ChangeTypes
    <2> QED
      BY <2>1, <2>2
  <1>4. ASSUME Change!Discard(c) PROVE DirectoryIsKept'
    <2>1. cFile' = cFile /\ ((\E p \in Nested : cFile[p] # Absent) /\ directory => directory')
      BY <1>4 DEF Change!Discard
    <2> QED
      BY <1>0, <2>1 DEF DirectoryIsKept
  <1> QED
    BY <1>1, <1>2, <1>3, <1>4 DEF Acts

\* Every step of the services is one of a call of ChangeCommit, or none of its.
LEMMA ChangeSteps ==
    ASSUME AllNext \/ UNCHANGED <<which, vars, ownerVars, changeVars, patchVars, storeVars>>
    PROVE  (\E c \in Patches : Acts(c)) \/ UNCHANGED changeVars
  BY DEF AllNext, Change!Next, Acts

\* ChangeInv is an invariant of the services.
THEOREM ChangeInvariance == AllSpec => []ChangeInv
  <1>1. AllInit => ChangeInv
    BY ChangeStarts
  <1>2. ChangeInv /\ [AllNext]_<<which, vars, ownerVars, changeVars, patchVars, storeVars>>
           => ChangeInv'
    <2> SUFFICES ASSUME ChangeInv,
                        AllNext \/ UNCHANGED <<which, vars, ownerVars, changeVars, patchVars,
                                               storeVars>>
                 PROVE  ChangeInv'
      OBVIOUS
    <2>1. CASE UNCHANGED changeVars
      BY <2>1 DEF changeVars, ChangeInv, ChangeTypes, DirectoryIsKept, Progress, HoldsOld,
                  HoldsNew, StagedKeeps, StagedWaits, Change!Of, Change!Contents
    <2>2. ASSUME NEW c \in Patches, Acts(c) PROVE ChangeInv'
      <3>1. \A d \in Patches : Progress(d)' /\ StagedKeeps(d)' /\ StagedWaits(d)'
        <4>1. ASSUME NEW d \in Patches PROVE Progress(d)' /\ StagedKeeps(d)' /\ StagedWaits(d)'
          <5>1. CASE d = c
            BY <2>2, <5>1, OwnProgress, OwnStaged
          <5>2. CASE d # c
            BY <2>2, <5>2, OthersHold
          <5> QED
            BY <5>1, <5>2
        <4> QED
          BY <4>1
      <3>2. ChangeTypes' /\ DirectoryIsKept'
        BY <2>2, ChangeTypesStep, DirectoryStays
      <3> QED
        BY <3>1, <3>2 DEF ChangeInv
    <2> QED
      BY <2>1, <2>2, ChangeSteps
  <1> QED
    BY <1>1, <1>2, PTL DEF AllSpec

\* AllOrNothing of MCServices: once Service.Commit is over, its files hold the new
\* contents or the ones it found, but for those somebody else wrote or that the
\* rollback reported, and a directory with files in it stays.
THEOREM ChangesAreWhole == AllSpec => []AllOrNothing
  <1>1. ChangeInv => AllOrNothing
    BY DEF ChangeInv, DirectoryIsKept, Progress, HoldsOld, HoldsNew, AllOrNothing,
           Change!AllOrNothing
  <1> QED
    BY <1>1, ChangeInvariance, PTL


-----------------------------------------------------------------------------
(* Owners and names of sessions.                                           *)

\* Where a call holds the record it has read, and may put one over it.
Reading == {"inspect", "reclaim", "create", "list", "look", "reserve", "row",
            "publish", "claim"}

\* Where a call makes a session, and where it takes one away.
Making == {"list", "look", "reserve", "row", "publish", "claim", "remove", "release"}
Removing == {"unname", "delete"}

\* A call that has published a record and may give back the one below.
Unbound(p) ==
    /\ p \in alive /\ oPc[p] \in {"stamp", "bind", "restore"}
    /\ disp[p] \in {"created", "reclaimed"}

\* The records that are current or may become it again: the last one of the chain,
\* at None, and for a call that is not bound the one that it would restore.
Tops == {None} \cup {p \in Hosts : Unbound(p)}
Carried(y) == IF y = None THEN Owner!Current(owners) ELSE prev[y]

\* A process that holds a session, or is about to hold, make or remove it.
Engaged(p, s) ==
    /\ p \in alive
    /\ \/ s \in holds[p]
       \/ want[p] = s /\ oPc[p] \in Making \cup Removing \cup {"stamp"}
       \/ want[p] = s /\ oPc[p] = "restamp" /\ disp[p] = "created"
       \/ oPc[p] = "inspect" /\ cur[p].session = s /\ cur[p].pid = p

Known(r) ==
    r.session # None => r.session \in Sessions /\ r.pid \in Hosts /\ oPc[r.pid] # "off"

\* Who runs, and that records name processes that have run.
Lives ==
    /\ \A p \in Hosts : p \in alive <=> oPc[p] \notin {"off", "dead"}
    /\ \A p \in Hosts : oPc[p] = "off" => holds[p] = {} /\ seen[p] = 0
    /\ Known(Owner!Current(owners))
    /\ \A p \in Hosts : Known(cur[p]) /\ Known(prev[p])
    /\ \A n \in Names : Known(Owner!Current(names[n]))

\* What the place of a call says of its locals.
PlaceHolds(p) ==
    /\ oPc[p] \in Making \cup Removing \cup {"stamp", "bind", "restore"} => want[p] \in Sessions
    /\ oPc[p] \in {"inspect", "reclaim"} => cur[p].session \in Sessions
    /\ oPc[p] = "stamp" => disp[p] = "reclaimed"
    /\ oPc[p] = "bind" => disp[p] # "none"
    /\ oPc[p] = "restore" => disp[p] \in {"created", "reclaimed"}
    /\ oPc[p] \in {"stamp", "bind", "restore"} /\ disp[p] = "reclaimed" =>
           prev[p].session = want[p]
    /\ oPc[p] = "restamp" => prev[p].session \in Sessions
    /\ oPc[p] = "restamp" /\ disp[p] = "created" => want[p] \in Sessions
    /\ oPc[p] \in Making \cup Removing \cup {"restore", "restamp"} => want[p] \notin holds[p]
    /\ oPc[p] \in {"look", "reserve", "row", "publish"} => name[p] \in Names
PlacesHold == \A p \in alive : PlaceHolds(p)

\* What was read is current for as long as the chain has not grown.
ReadHolds(p) ==
    /\ seen[p] <= Len(owners)
    /\ oPc[p] \in Reading /\ seen[p] = Len(owners) => cur[p] = Owner!Current(owners)
    /\ oPc[p] = "restore" /\ seen[p] = Len(owners) =>
           Owner!Current(owners).session = want[p] /\ Owner!Current(owners).pid = p
    /\ oPc[p] = "reclaim" => cur[p].pid \notin alive
    /\ oPc[p] = "reclaim" /\ seen[p] = Len(owners) => disk[cur[p].session] = "row"
ReadsHold == \A p \in alive : ReadHolds(p)

\* Two records of one session are there only while a call that reclaims it is unbound.
RecordsAreUnique ==
    \A y, z \in Tops :
      y # z /\ Carried(y).session = Carried(z).session /\ Carried(y).session # None =>
          \/ z # None /\ disp[z] = "reclaimed" /\ Carried(y).pid = z
          \/ y # None /\ disp[y] = "reclaimed" /\ Carried(z).pid = y

\* Who is engaged with a session is alone, and its records name it.
EngagedOnce ==
    /\ \A p, q \in Hosts : \A s \in Sessions : Engaged(p, s) /\ Engaged(q, s) => p = q
    /\ \A p \in Hosts : \A s \in Sessions : Engaged(p, s) =>
         \A y \in Tops : Carried(y).session = s =>
             Carried(y).pid = p \/ (y = p /\ want[p] = s /\ disp[p] = "reclaimed")
    /\ \A p \in alive : oPc[p] \in Making => \A y \in Tops : Carried(y).session # want[p]

\* Only sessions that exist are recorded and engaged.
SessionsExist ==
    /\ \A y \in Tops : Carried(y).session # None => disk[Carried(y).session] # "none"
    /\ \A p \in Hosts : \A s \in Sessions : Engaged(p, s) => disk[s] # "none"
    /\ \A p \in alive : oPc[p] \in {"inspect", "reclaim"} => disk[cur[p].session] # "none"
    /\ \A p \in alive : \A s \in holds[p] : disk[s] = "row"
    /\ \A p \in alive : oPc[p] \in {"stamp", "publish", "claim"} => disk[want[p]] = "row"
    /\ \A n \in Names : Owner!Current(names[n]).session # None =>
           disk[Owner!Current(names[n]).session] # "none"
    /\ \A s \in Sessions : meta[s] # None => disk[s] = "row"

\* The reservations of names stand while a creator or an index entry relies on them.
NamesHold ==
    /\ \A p \in alive : oPc[p] \in {"row", "publish"} =>
           /\ Owner!Current(names[name[p]]).session = want[p]
           /\ Owner!Current(names[name[p]]).pid = p
    /\ \A s \in Sessions \ deleted : meta[s] # None =>
           Owner!Current(names[meta[s].name]).session = s
    /\ \A p \in alive : oPc[p] = "reserve" =>
           /\ nseen[p] <= Len(names[name[p]])
           /\ nseen[p] = Len(names[name[p]]) => ~Owner!Reserved(Owner!Current(names[name[p]]))
    /\ \A p \in alive : oPc[p] \in Making =>
         \A n \in Names : Owner!Current(names[n]).session = want[p] =>
             Owner!Current(names[n]).pid = p
    /\ \A p \in alive : oPc[p] = "release" => meta[want[p]] = None

\* The inductive invariant of SessionOwner.
OwnerInv ==
    /\ Owner!TypeOK /\ Lives /\ PlacesHold /\ ReadsHold /\ RecordsAreUnique /\ EngagedOnce
    /\ SessionsExist /\ NamesHold


LEMMA OwnerStarts == AllInit => OwnerInv
  <1> SUFFICES ASSUME Owner!Init PROVE OwnerInv
    BY DEF AllInit
  <1> USE DEF Owner!Init
  <1>0. /\ Owner!Current(owners) = Owner!Released
        /\ \A n \in Names : Owner!Current(names[n]) = Owner!Released
    BY DEF Owner!Current
  <1>1. Owner!TypeOK
    BY DEF Owner!TypeOK, Owner!Places, Owner!Record, Owner!Released
  <1>2. Lives /\ PlacesHold /\ ReadsHold
    BY <1>0 DEF Lives, PlacesHold, ReadsHold, Known, Owner!Released
  <1>3. Tops = {None} /\ \A p \in Hosts, s \in Sessions : ~Engaged(p, s)
    BY DEF Tops, Unbound, Engaged
  <1>4. RecordsAreUnique /\ EngagedOnce /\ SessionsExist /\ NamesHold
    BY <1>0, <1>3 DEF RecordsAreUnique, EngagedOnce, SessionsExist, NamesHold, Carried,
                      Owner!Released
  <1> QED
    BY <1>1, <1>2, <1>4 DEF OwnerInv

LEMMA CurrentOfAppend ==
    ASSUME NEW R, NEW chain \in Seq(R), NEW r \in R
    PROVE  /\ Append(chain, r) \in Seq(R) /\ Len(Append(chain, r)) = Len(chain) + 1
           /\ Len(chain) \in Nat /\ Owner!Current(Append(chain, r)) = r
  BY DEF Owner!Current, Owner!Last

LEMMA CurrentIsRecord ==
    ASSUME NEW R, Owner!Released \in R, NEW chain \in Seq(R)
    PROVE  Owner!Current(chain) \in R
  BY DEF Owner!Current, Owner!Last

LEMMA NextNameIsFree ==
    ASSUME NEW n, NEW ns, Owner!Free(n, ns) # {}
    PROVE  Owner!NextName(n, ns) \in Names
  <1>1. Owner!Free(n, ns) \subseteq Names /\ Owner!Free(n, ns) \subseteq Nat
    BY ServicesAssumption DEF Owner!Free
  <1>2. PICK k \in Owner!Free(n, ns) : \A m \in Owner!Free(n, ns) : k <= m
    BY <1>1, NumbersHaveLeast
  <1> QED
    BY <1>1, <1>2 DEF Owner!NextName

\* The steps of one process.
Claims(p) ==
    \/ Owner!Boot(p) \/ Owner!Load(p) \/ Owner!Inspect(p) \/ Owner!Reclaim(p)
    \/ Owner!Stamp(p) \/ Owner!CreateDirectory(p) \/ Owner!ClaimNew(p) \/ Owner!Bound(p)
    \/ Owner!BindFails(p) \/ Owner!Restore(p) \/ Owner!Restamp(p) \/ Owner!Crash(p)
Creates(p) ==
    \/ Owner!ListNames(p) \/ Owner!LookName(p) \/ Owner!ReserveName(p)
    \/ Owner!InsertRow(p) \/ Owner!Publish(p) \/ Owner!RemoveShell(p)
    \/ Owner!ReleaseShell(p) \/ Owner!Unname(p) \/ Owner!DeleteFiles(p) \/ Owner!Discard(p)
Takes(p) == Claims(p) \/ Creates(p)

\* What a step of one process leaves to another one.
Untouched(q) ==
    /\ oPc'[q] = oPc[q] /\ seen'[q] = seen[q] /\ cur'[q] = cur[q] /\ want'[q] = want[q]
    /\ prev'[q] = prev[q] /\ disp'[q] = disp[q] /\ name'[q] = name[q]
    /\ nseen'[q] = nseen[q] /\ oTaken'[q] = oTaken[q] /\ holds'[q] = holds[q]
    /\ q \in alive' <=> q \in alive

LEMMA OthersUntouched ==
    ASSUME Owner!TypeOK, NEW p \in Hosts, NEW q \in Hosts \ {p}, Takes(p)
    PROVE  Untouched(q)
  <1> USE DEF Owner!At, Owner!Goto, Owner!Forget, Owner!Return, Owner!chains, Owner!files,
              Owner!claim, Owner!naming, Owner!Conflict, Untouched
  <1>0. /\ oPc = [h \in Hosts |-> oPc[h]] /\ seen = [h \in Hosts |-> seen[h]]
        /\ cur = [h \in Hosts |-> cur[h]] /\ want = [h \in Hosts |-> want[h]]
        /\ prev = [h \in Hosts |-> prev[h]] /\ disp = [h \in Hosts |-> disp[h]]
        /\ name = [h \in Hosts |-> name[h]] /\ nseen = [h \in Hosts |-> nseen[h]]
        /\ oTaken = [h \in Hosts |-> oTaken[h]] /\ holds = [h \in Hosts |-> holds[h]]
    BY DEF Owner!TypeOK
  <1>1. ASSUME Owner!Boot(p) PROVE Untouched(q)
    BY <1>0, <1>1 DEF Owner!Boot
  <1>2. ASSUME Owner!Load(p) PROVE Untouched(q)
    BY <1>0, <1>2 DEF Owner!Load
  <1>3. ASSUME Owner!Inspect(p) PROVE Untouched(q)
    BY <1>0, <1>3 DEF Owner!Inspect
  <1>4. ASSUME Owner!Reclaim(p) PROVE Untouched(q)
    BY <1>0, <1>4 DEF Owner!Reclaim
  <1>5. ASSUME Owner!Stamp(p) PROVE Untouched(q)
    BY <1>0, <1>5 DEF Owner!Stamp
  <1>6. ASSUME Owner!CreateDirectory(p) PROVE Untouched(q)
    BY <1>0, <1>6 DEF Owner!CreateDirectory
  <1>7. ASSUME Owner!ClaimNew(p) PROVE Untouched(q)
    BY <1>0, <1>7 DEF Owner!ClaimNew
  <1>8. ASSUME Owner!Bound(p) PROVE Untouched(q)
    BY <1>0, <1>8 DEF Owner!Bound
  <1>9. ASSUME Owner!BindFails(p) PROVE Untouched(q)
    BY <1>0, <1>9 DEF Owner!BindFails
  <1>10. ASSUME Owner!Restore(p) PROVE Untouched(q)
    BY <1>0, <1>10 DEF Owner!Restore
  <1>11. ASSUME Owner!Restamp(p) PROVE Untouched(q)
    BY <1>0, <1>11 DEF Owner!Restamp
  <1>12. ASSUME Owner!Crash(p) PROVE Untouched(q)
    BY <1>0, <1>12 DEF Owner!Crash
  <1>13. ASSUME Owner!ListNames(p) PROVE Untouched(q)
    BY <1>0, <1>13 DEF Owner!ListNames
  <1>14. ASSUME Owner!LookName(p) PROVE Untouched(q)
    BY <1>0, <1>14 DEF Owner!LookName
  <1>15. ASSUME Owner!ReserveName(p) PROVE Untouched(q)
    BY <1>0, <1>15 DEF Owner!ReserveName
  <1>16. ASSUME Owner!InsertRow(p) PROVE Untouched(q)
    BY <1>0, <1>16 DEF Owner!InsertRow
  <1>17. ASSUME Owner!Publish(p) PROVE Untouched(q)
    BY <1>0, <1>17 DEF Owner!Publish
  <1>18. ASSUME Owner!RemoveShell(p) PROVE Untouched(q)
    BY <1>0, <1>18 DEF Owner!RemoveShell
  <1>19. ASSUME Owner!ReleaseShell(p) PROVE Untouched(q)
    BY <1>0, <1>19 DEF Owner!ReleaseShell
  <1>20. ASSUME Owner!Unname(p) PROVE Untouched(q)
    BY <1>0, <1>20 DEF Owner!Unname
  <1>21. ASSUME Owner!DeleteFiles(p) PROVE Untouched(q)
    BY <1>0, <1>21 DEF Owner!DeleteFiles
  <1>22. ASSUME Owner!Discard(p) PROVE Untouched(q)
    BY <1>0, <1>22 DEF Owner!Discard
  <1> QED
    BY <1>1, <1>2, <1>3, <1>4, <1>5, <1>6, <1>7, <1>8, <1>9, <1>10, <1>11, <1>12, <1>13, <1>14,
       <1>15, <1>16, <1>17, <1>18, <1>19, <1>20, <1>21, <1>22 DEF Takes, Claims, Creates


LEMMA OwnerTypesStep ==
    ASSUME OwnerInv, NEW p \in Hosts, Takes(p)
    PROVE  Owner!TypeOK'
  <1> USE DEF Owner!At, Owner!Return, Owner!chains, Owner!files,
              Owner!claim, Owner!naming, Owner!Conflict, Making, Removing
  <1>0. Owner!TypeOK /\ Owner!Released \in Owner!Record /\ (p \in alive => PlaceHolds(p))
    BY DEF OwnerInv, PlacesHold, Owner!Released, Owner!Record
  <1>a. Owner!Current(owners) \in Owner!Record
    BY <1>0, CurrentIsRecord DEF Owner!TypeOK
  <1>b. \A s \in Sessions : [session |-> s, pid |-> p] \in Owner!Record
    BY DEF Owner!Record
  <1>c. Len(owners) \in Nat /\ \A n \in Names : Len(names[n]) \in Nat
    BY <1>0 DEF Owner!TypeOK
  <1>d. \A r \in Owner!Record : Owner!LinkOwner(p, r) => owners' \in Seq(Owner!Record)
    BY <1>0, CurrentOfAppend DEF Owner!LinkOwner, Owner!TypeOK
  <1>e. \A s : Owner!ReleaseNames(s) => names' \in [Names -> Seq(Owner!Record)]
    <2>1. \A n \in Names : Append(names[n], Owner!Released) \in Seq(Owner!Record)
      BY <1>0, CurrentOfAppend DEF Owner!TypeOK
    <2> QED
      BY <1>0, <2>1 DEF Owner!ReleaseNames, Owner!TypeOK
  <1>f. \A s : Owner!RemoveFiles(s) =>
           /\ disk' \in [Sessions -> {"none", "dir", "row", "gone"}]
           /\ meta' \in [Sessions -> [name : Names, pid : Hosts] \cup {None}]
    BY <1>0 DEF Owner!RemoveFiles, Owner!TypeOK
  <1>g. Owner!Forget(p) =>
           /\ seen' \in [Hosts -> Nat] /\ nseen' \in [Hosts -> Nat]
           /\ cur' \in [Hosts -> Owner!Record] /\ prev' \in [Hosts -> Owner!Record]
           /\ want' \in [Hosts -> Sessions \cup {None}]
           /\ disp' \in [Hosts -> {"none", "existing", "created", "reclaimed"}]
           /\ name' \in [Hosts -> Names \cup {0}] /\ oTaken' \in [Hosts -> SUBSET Names]
    BY <1>0 DEF Owner!Forget, Owner!TypeOK
  <1>h. \A s \in Sessions : meta[s] # None =>
           /\ meta[s].name \in Names
           /\ \A h \in Hosts : [meta[s] EXCEPT !.pid = h] \in [name : Names, pid : Hosts]
    <2> SUFFICES ASSUME NEW s \in Sessions, meta[s] # None
                 PROVE  /\ meta[s].name \in Names
                        /\ \A h \in Hosts :
                               [meta[s] EXCEPT !.pid = h] \in [name : Names, pid : Hosts]
      OBVIOUS
    <2>1. meta[s] \in [name : Names, pid : Hosts]
      BY <1>0 DEF Owner!TypeOK
    <2> QED
      BY <2>1
  <1>i. /\ "idle" \in Owner!Places /\ "load" \in Owner!Places /\ "inspect" \in Owner!Places
        /\ "reclaim" \in Owner!Places /\ "stamp" \in Owner!Places /\ "create" \in Owner!Places
        /\ "list" \in Owner!Places /\ "look" \in Owner!Places /\ "reserve" \in Owner!Places
        /\ "row" \in Owner!Places /\ "publish" \in Owner!Places /\ "remove" \in Owner!Places
        /\ "release" \in Owner!Places /\ "claim" \in Owner!Places /\ "bind" \in Owner!Places
        /\ "restore" \in Owner!Places /\ "restamp" \in Owner!Places /\ "unname" \in Owner!Places
        /\ "delete" \in Owner!Places /\ "dead" \in Owner!Places
    BY DEF Owner!Places
  <1>j. oPc' \in [Hosts -> Owner!Places]
    <2>1. oPc' = oPc \/ \E place0 \in Owner!Places : oPc' = [oPc EXCEPT ![p] = place0]
      <3> USE <1>i DEF Owner!Goto
      <3>1. CASE Owner!Boot(p) \/ Owner!Load(p) \/ Owner!Inspect(p) \/ Owner!Reclaim(p)
        BY <3>1 DEF Owner!Boot, Owner!Load, Owner!Inspect, Owner!Reclaim
      <3>2. CASE Owner!Stamp(p) \/ Owner!CreateDirectory(p) \/ Owner!ClaimNew(p) \/ Owner!Bound(p)
        BY <3>2 DEF Owner!Stamp, Owner!CreateDirectory, Owner!ClaimNew, Owner!Bound
      <3>3. CASE Owner!BindFails(p) \/ Owner!Restore(p) \/ Owner!Restamp(p) \/ Owner!Crash(p)
        BY <3>3 DEF Owner!BindFails, Owner!Restore, Owner!Restamp, Owner!Crash
      <3>4. CASE Owner!ListNames(p) \/ Owner!LookName(p) \/ Owner!ReserveName(p)
        BY <3>4 DEF Owner!ListNames, Owner!LookName, Owner!ReserveName
      <3>5. CASE Owner!InsertRow(p) \/ Owner!Publish(p) \/ Owner!RemoveShell(p)
        BY <3>5 DEF Owner!InsertRow, Owner!Publish, Owner!RemoveShell
      <3>6. CASE \/ Owner!ReleaseShell(p) \/ Owner!Unname(p) \/ Owner!DeleteFiles(p)
                 \/ Owner!Discard(p)
        BY <3>6 DEF Owner!ReleaseShell, Owner!Unname, Owner!DeleteFiles, Owner!Discard
      <3> QED
        BY <3>1, <3>2, <3>3, <3>4, <3>5, <3>6 DEF Takes, Claims, Creates
    <2> QED
      BY <1>0, <2>1 DEF Owner!TypeOK
  <1>1. ASSUME Owner!Boot(p) PROVE Owner!TypeOK'
    BY <1>0, <1>j, <1>1 DEF Owner!Boot, Owner!TypeOK
  <1>2. ASSUME Owner!Load(p) PROVE Owner!TypeOK'
    BY <1>0, <1>j, <1>a, <1>c, <1>2 DEF Owner!Load, Owner!TypeOK
  <1>3. ASSUME Owner!Inspect(p) PROVE Owner!TypeOK'
    <2>1. cur[p].session \in Sessions
      BY <1>0, <1>3 DEF Owner!Inspect, PlaceHolds
    <2>2. /\ want' \in [Hosts -> Sessions \cup {None}]
          /\ disp' \in [Hosts -> {"none", "existing", "created", "reclaimed"}]
          /\ holds' \in [Hosts -> SUBSET Sessions]
      <3>1. CASE /\ want' = [want EXCEPT ![p] = cur[p].session]
                 /\ disp' = [disp EXCEPT ![p] = "existing"]
                 /\ holds' = [holds EXCEPT ![p] = @ \cup {cur[p].session}]
        BY <1>0, <2>1, <3>1 DEF Owner!TypeOK
      <3>2. CASE UNCHANGED <<want, disp, holds>>
        BY <1>0, <3>2 DEF Owner!TypeOK
      <3> QED
        BY <1>3, <3>1, <3>2 DEF Owner!Inspect
    <2> QED
      BY <1>0, <1>j, <1>3, <2>2 DEF Owner!Inspect, Owner!TypeOK
  <1>4. ASSUME Owner!Reclaim(p) PROVE Owner!TypeOK'
    <2>1. cur[p].session \in Sessions /\ cur[p] \in Owner!Record
      BY <1>0, <1>j, <1>g, <1>4 DEF Owner!Reclaim, PlaceHolds, Owner!TypeOK
    <2>2. owners' \in Seq(Owner!Record)
      BY <1>0, <1>j, <1>b, <1>d, <1>4, <2>1 DEF Owner!Reclaim, Owner!TypeOK
    <2> QED
      BY <1>0, <1>j, <1>g, <1>4, <2>1, <2>2 DEF Owner!Reclaim, Owner!TypeOK, Owner!LinkOwner
  <1>5. ASSUME Owner!Stamp(p) PROVE Owner!TypeOK'
    <2>1. want[p] \in Sessions
      BY <1>0, <1>g, <1>5 DEF Owner!Stamp, PlaceHolds
    <2>2. meta' \in [Sessions -> [name : Names, pid : Hosts] \cup {None}]
      <3>1. CASE meta' = meta
        BY <1>0, <3>1 DEF Owner!TypeOK
      <3>2. CASE meta[want[p]] # None /\ meta' = [meta EXCEPT ![want[p]].pid = p]
        BY <1>0, <1>h, <2>1, <3>2 DEF Owner!TypeOK
      <3> QED
        BY <1>5, <3>1, <3>2 DEF Owner!Stamp
    <2> QED
      <3>1. holds' \in [Hosts -> SUBSET Sessions]
        <4>1. \/ holds' = [holds EXCEPT ![p] = @ \cup {want[p]}] \/ holds' = holds
          BY <1>5 DEF Owner!Stamp
        <4>2. holds \in [Hosts -> SUBSET Sessions]
          BY <1>0 DEF Owner!TypeOK
        <4>3. holds[p] \cup {want[p]} \in SUBSET Sessions
          BY <2>1, <4>2
        <4> QED
          BY <4>1, <4>2, <4>3
      <3>2. Owner!Forget(p) \/ UNCHANGED <<seen, cur, want, prev, disp, name, nseen, oTaken>>
        BY <1>5 DEF Owner!Stamp
      <3>3. UNCHANGED <<owners, names, disk, alive, deleted>>
        BY <1>5 DEF Owner!Stamp
      <3> QED
        BY <1>0, <1>g, <1>j, <2>2, <3>1, <3>2, <3>3 DEF Owner!TypeOK
  <1>6. ASSUME Owner!CreateDirectory(p) PROVE Owner!TypeOK'
    <2>1. PICK s \in Sessions : disk' = [disk EXCEPT ![s] = "dir"] /\ want' = [want EXCEPT ![p] = s]
      BY <1>6 DEF Owner!CreateDirectory
    <2> QED
      BY <1>0, <1>j, <1>6, <2>1 DEF Owner!CreateDirectory, Owner!TypeOK
  <1>7. ASSUME Owner!ClaimNew(p) PROVE Owner!TypeOK'
    <2>1. want[p] \in Sessions
      BY <1>0, <1>7 DEF Owner!ClaimNew, PlaceHolds
    <2>2. owners' \in Seq(Owner!Record)
      BY <1>0, <1>j, <1>b, <1>d, <1>7, <2>1 DEF Owner!ClaimNew, Owner!TypeOK
    <2> QED
      <3>1. holds' \in [Hosts -> SUBSET Sessions]
        <4>1. \/ holds' = [holds EXCEPT ![p] = @ \cup {want[p]}] \/ holds' = holds
          BY <1>7 DEF Owner!ClaimNew
        <4>2. holds \in [Hosts -> SUBSET Sessions]
          BY <1>0 DEF Owner!TypeOK
        <4>3. holds[p] \cup {want[p]} \in SUBSET Sessions
          BY <2>1, <4>2
        <4> QED
          BY <4>1, <4>2, <4>3
      <3>2. \/ UNCHANGED <<prev, disp>>
            \/ /\ prev' = [prev EXCEPT ![p] = cur[p]]
               /\ disp' = [disp EXCEPT ![p] = "created"]
        BY <1>7 DEF Owner!ClaimNew
      <3>3. UNCHANGED <<names, disk, meta, alive, seen, cur, want, name, nseen, oTaken, deleted>>
        BY <1>7 DEF Owner!ClaimNew
      <3>4. /\ prev' \in [Hosts -> Owner!Record]
            /\ disp' \in [Hosts -> {"none", "existing", "created", "reclaimed"}]
        <4>1. /\ prev \in [Hosts -> Owner!Record] /\ cur[p] \in Owner!Record
              /\ disp \in [Hosts -> {"none", "existing", "created", "reclaimed"}]
          BY <1>0 DEF Owner!TypeOK
        <4> QED
          BY <3>2, <4>1
      <3> QED
        BY <1>0, <1>j, <2>2, <3>1, <3>3, <3>4 DEF Owner!TypeOK
  <1>8. ASSUME Owner!Bound(p) PROVE Owner!TypeOK'
    BY <1>0, <1>j, <1>g, <1>8 DEF Owner!Bound, Owner!TypeOK
  <1>9. ASSUME Owner!BindFails(p) PROVE Owner!TypeOK'
    BY <1>0, <1>j, <1>c, <1>g, <1>9 DEF Owner!BindFails, Owner!TypeOK
  <1>10. ASSUME Owner!Restore(p) PROVE Owner!TypeOK'
    <2>1. owners' \in Seq(Owner!Record)
      BY <1>0, <1>j, <1>d, <1>10 DEF Owner!Restore, Owner!TypeOK
    <2> QED
      BY <1>0, <1>j, <1>g, <1>10, <2>1 DEF Owner!Restore, Owner!TypeOK
  <1>11. ASSUME Owner!Restamp(p) PROVE Owner!TypeOK'
    <2>1. prev[p].session \in Sessions
      BY <1>0, <1>g, <1>11 DEF Owner!Restamp, PlaceHolds
    <2>2. prev[p].pid \in Hosts
      BY <2>1, ServicesAssumption DEF OwnerInv, Lives, Known
    <2>3. meta' \in [Sessions -> [name : Names, pid : Hosts] \cup {None}]
      <3>1. CASE meta' = meta
        BY <1>0, <3>1 DEF Owner!TypeOK
      <3>2. CASE /\ meta[prev[p].session] # None
                 /\ meta' = [meta EXCEPT ![prev[p].session].pid = prev[p].pid]
        BY <1>0, <1>h, <2>1, <2>2, <3>2 DEF Owner!TypeOK
      <3> QED
        BY <1>11, <3>1, <3>2 DEF Owner!Restamp
    <2> QED
      BY <1>0, <1>j, <1>g, <1>11, <2>3 DEF Owner!Restamp, Owner!TypeOK
  <1>12. ASSUME Owner!Crash(p) PROVE Owner!TypeOK'
    BY <1>0, <1>j, <1>g, <1>12 DEF Owner!Crash, Owner!TypeOK
  <1>13. ASSUME Owner!ListNames(p) PROVE Owner!TypeOK'
    <2>1. name'[p] \in Names /\ oTaken'[p] \subseteq Names
      <3> DEFINE published == {meta[s].name : s \in {x \in Sessions : meta[x] # None}}
      <3>1. published \subseteq Names
        BY <1>h
      <3>2. Owner!NextName(0, published) \in Names
        BY <1>13, NextNameIsFree DEF Owner!ListNames
      <3>3. name' = [name EXCEPT ![p] = Owner!NextName(0, published)]
            /\ oTaken' = [oTaken EXCEPT ![p] = published]
        BY <1>13 DEF Owner!ListNames
      <3> HIDE DEF published
      <3> QED
        BY <1>0, <3>1, <3>2, <3>3 DEF Owner!TypeOK
    <2> QED
      BY <1>0, <1>j, <1>13, <2>1 DEF Owner!ListNames, Owner!TypeOK
  <1>14. ASSUME Owner!LookName(p) PROVE Owner!TypeOK'
    <2>1. name'[p] \in Names /\ name[p] \in Names
      BY <1>0, <1>j, <1>14, NextNameIsFree DEF Owner!LookName, PlaceHolds, Owner!TypeOK
    <2> QED
      BY <1>0, <1>j, <1>c, <1>14, <2>1 DEF Owner!LookName, Owner!TypeOK
  <1>15. ASSUME Owner!ReserveName(p) PROVE Owner!TypeOK'
    <2>1. want[p] \in Sessions /\ name[p] \in Names
      BY <1>0, <1>15 DEF Owner!ReserveName, PlaceHolds
    <2>2. Append(names[name[p]], [session |-> want[p], pid |-> p]) \in Seq(Owner!Record)
      BY <1>0, <1>b, <2>1, CurrentOfAppend DEF Owner!TypeOK
    <2> QED
      BY <1>0, <1>j, <1>15, <2>2 DEF Owner!ReserveName, Owner!TypeOK
  <1>16. ASSUME Owner!InsertRow(p) PROVE Owner!TypeOK'
    <2>1. disk' \in [Sessions -> {"none", "dir", "row", "gone"}]
      BY <1>0, <1>j, <1>16 DEF Owner!InsertRow, Owner!TypeOK
    <2> QED
      BY <1>0, <1>j, <1>16, <2>1 DEF Owner!InsertRow, Owner!TypeOK
  <1>17. ASSUME Owner!Publish(p) PROVE Owner!TypeOK'
    <2>1. name[p] \in Names
      BY <1>0, <1>17 DEF Owner!Publish, PlaceHolds
    <2> QED
      <3>1. [name |-> name[p], pid |-> p] \in [name : Names, pid : Hosts]
        BY <2>1
      <3>2. meta' \in [Sessions -> [name : Names, pid : Hosts] \cup {None}]
        BY <1>0, <1>j, <1>17, <3>1 DEF Owner!Publish, Owner!TypeOK
      <3> QED
        BY <1>0, <1>j, <1>17, <3>2 DEF Owner!Publish, Owner!TypeOK
  <1>18. ASSUME Owner!RemoveShell(p) PROVE Owner!TypeOK'
    BY <1>0, <1>j, <1>f, <1>18 DEF Owner!RemoveShell, Owner!TypeOK
  <1>19. ASSUME Owner!ReleaseShell(p) PROVE Owner!TypeOK'
    BY <1>0, <1>j, <1>e, <1>g, <1>19 DEF Owner!ReleaseShell, Owner!TypeOK
  <1>20. ASSUME Owner!Unname(p) PROVE Owner!TypeOK'
    <2>1. want[p] \in Sessions
      BY <1>0, <1>20 DEF Owner!Unname, PlaceHolds
    <2> QED
      BY <1>0, <1>j, <1>e, <1>20, <2>1 DEF Owner!Unname, Owner!TypeOK
  <1>21. ASSUME Owner!DeleteFiles(p) PROVE Owner!TypeOK'
    BY <1>0, <1>j, <1>f, <1>g, <1>21 DEF Owner!DeleteFiles, Owner!TypeOK
  <1>22. ASSUME Owner!Discard(p) PROVE Owner!TypeOK'
    BY <1>0, <1>j, <1>22 DEF Owner!Discard, Owner!TypeOK
  <1> QED
    BY <1>1, <1>2, <1>3, <1>4, <1>5, <1>6, <1>7, <1>8, <1>9, <1>10, <1>11, <1>12, <1>13, <1>14,
       <1>15, <1>16, <1>17, <1>18, <1>19, <1>20, <1>21, <1>22 DEF Takes, Claims, Creates


LEMMA OwnPlaceHolds ==
    ASSUME OwnerInv, NEW p \in Hosts, Takes(p)
    PROVE  p \in alive' => PlaceHolds(p)'
  <1> USE DEF Owner!At, Owner!Goto, Owner!Return, Owner!chains, Owner!files,
              Owner!claim, Owner!naming, Owner!Conflict, Making, Removing
  <1>0. /\ Owner!TypeOK /\ (p \in alive => PlaceHolds(p)) /\ None \notin Sessions
        /\ p \in alive => ReadHolds(p)
    BY ServicesAssumption DEF OwnerInv, PlacesHold, ReadsHold
  <1>a. ASSUME NEW x, oPc'[p] = x, x \in {"idle", "load", "create", "dead", "off"}
        PROVE  PlaceHolds(p)'
    BY <1>a DEF PlaceHolds
  <1>1. ASSUME Owner!Boot(p) PROVE PlaceHolds(p)'
    BY <1>0, <1>a, <1>1 DEF Owner!Boot, Owner!TypeOK
  <1>2. ASSUME Owner!Load(p) PROVE PlaceHolds(p)'
    <2>1. CASE oPc'[p] = "create"
      BY <1>a, <2>1
    <2>2. CASE oPc'[p] = "inspect"
      <3>1. cur'[p] = Owner!Current(owners) /\ Owner!Current(owners).session # None
        BY <1>0, <1>2, <2>2 DEF Owner!Load, Owner!TypeOK
      <3> QED
        BY <2>2, <3>1 DEF PlaceHolds, OwnerInv, Lives, Known
    <2> QED
      BY <1>0, <1>2, <2>1, <2>2 DEF Owner!Load, Owner!TypeOK
  <1>3. ASSUME Owner!Inspect(p) PROVE PlaceHolds(p)'
    <2>1. cur' = cur /\ cur[p].session \in Sessions
      BY <1>0, <1>3 DEF Owner!Inspect, PlaceHolds
    <2>2. \/ oPc'[p] = "create" \/ oPc'[p] = "reclaim"
          \/ oPc'[p] = "bind" /\ want'[p] = cur[p].session /\ disp'[p] = "existing"
      BY <1>0, <1>3 DEF Owner!Inspect, Owner!TypeOK
    <2> QED
      BY <2>1, <2>2 DEF PlaceHolds
  <1>4. ASSUME Owner!Reclaim(p) PROVE PlaceHolds(p)'
    <2>1. cur[p].session \in Sessions
      BY <1>0, <1>4 DEF Owner!Reclaim, PlaceHolds
    <2>2. \/ oPc'[p] = "load"
          \/ oPc'[p] = "stamp" /\ want'[p] = cur[p].session /\ prev'[p] = cur[p]
             /\ disp'[p] = "reclaimed"
      BY <1>0, <1>4 DEF Owner!Reclaim, Owner!TypeOK
    <2> QED
      BY <2>1, <2>2 DEF PlaceHolds
  <1>5. ASSUME Owner!Stamp(p) PROVE PlaceHolds(p)'
    <2>1. \/ oPc'[p] = "idle"
          \/ oPc'[p] = "bind" /\ UNCHANGED <<want, prev, disp>>
      BY <1>0, <1>5 DEF Owner!Stamp, Owner!TypeOK
    <2> QED
      BY <1>0, <1>5, <2>1 DEF Owner!Stamp, PlaceHolds
  <1>6. ASSUME Owner!CreateDirectory(p) PROVE PlaceHolds(p)'
    <2>1. PICK s \in Sessions : disk[s] = "none" /\ want' = [want EXCEPT ![p] = s]
      BY <1>6 DEF Owner!CreateDirectory
    <2>2. oPc'[p] = "list" /\ want'[p] = s /\ holds' = holds
      BY <1>0, <1>6, <2>1 DEF Owner!CreateDirectory, Owner!TypeOK
    <2>3. s \notin holds[p]
      BY <1>6, <2>1 DEF Owner!CreateDirectory, OwnerInv, SessionsExist
    <2> QED
      BY <2>2, <2>3 DEF PlaceHolds
  <1>7. ASSUME Owner!ClaimNew(p) PROVE PlaceHolds(p)'
    <2>1. /\ want' = want
          /\ \/ oPc'[p] = "bind" /\ disp'[p] = "created"
             \/ oPc'[p] = "unname" /\ holds' = holds
      BY <1>0, <1>7 DEF Owner!ClaimNew, Owner!TypeOK
    <2> QED
      BY <1>0, <1>7, <2>1 DEF Owner!ClaimNew, PlaceHolds
  <1>8. ASSUME \/ Owner!Bound(p) \/ Owner!ReleaseShell(p) \/ Owner!DeleteFiles(p)
               \/ Owner!Crash(p)
        PROVE  PlaceHolds(p)'
    <2>1. oPc'[p] \in {"idle", "load", "dead"}
      BY <1>0, <1>8 DEF Owner!Bound, Owner!ReleaseShell, Owner!DeleteFiles, Owner!Crash,
                        Owner!TypeOK
    <2> QED
      BY <1>a, <2>1
  <1>9. ASSUME Owner!BindFails(p) PROVE PlaceHolds(p)'
    <2>1. \/ oPc'[p] = "idle"
          \/ /\ oPc'[p] = "restore" /\ UNCHANGED <<want, prev, disp>> /\ disp[p] # "existing"
             /\ holds'[p] = holds[p] \ {want[p]}
             /\ Owner!Current(owners) = [session |-> want[p], pid |-> p]
      BY <1>0, <1>9 DEF Owner!BindFails, Owner!TypeOK
    <2>2. p \in alive /\ oPc[p] = "bind" /\ disp[p] \in {"none", "existing", "created", "reclaimed"}
      BY <1>0, <1>9 DEF Owner!BindFails, Owner!TypeOK
    <2>3. want[p] \in Sessions /\ (disp[p] = "reclaimed" => prev[p].session = want[p])
      BY <1>0, <2>2 DEF PlaceHolds
    <2>4. oPc'[p] = "restore" => disp[p] \in {"created", "reclaimed"}
      BY <1>0, <2>1, <2>2 DEF PlaceHolds
    <2> QED
      BY <2>1, <2>3, <2>4 DEF PlaceHolds
  <1>10. ASSUME Owner!Restore(p) PROVE PlaceHolds(p)'
    <2>1. \/ oPc'[p] = "idle"
          \/ /\ UNCHANGED <<want, prev, disp, holds>>
             /\ \/ oPc'[p] = "restamp" /\ prev[p].session # None
                \/ oPc'[p] = "unname" /\ prev[p].session = None
      BY <1>0, <1>10 DEF Owner!Restore, Owner!TypeOK
    <2>2. prev[p].session # None => prev[p].session \in Sessions
      BY DEF OwnerInv, Lives, Known
    <2>3. p \in alive /\ oPc[p] = "restore"
      BY <1>10 DEF Owner!Restore
    <2> QED
      BY <1>0, <2>1, <2>2, <2>3 DEF PlaceHolds
  <1>11. ASSUME Owner!Restamp(p) PROVE PlaceHolds(p)'
    <2>1. \/ oPc'[p] = "idle"
          \/ oPc'[p] = "unname" /\ UNCHANGED <<want, disp, holds>> /\ disp[p] = "created"
      BY <1>0, <1>11 DEF Owner!Restamp, Owner!TypeOK
    <2> QED
      BY <1>0, <1>11, <2>1 DEF Owner!Restamp, PlaceHolds
  <1>12. ASSUME Owner!ListNames(p) PROVE PlaceHolds(p)'
    <2>1. oPc'[p] = "look" /\ name'[p] \in Names /\ UNCHANGED <<want, holds>>
      BY <1>0, <1>12, NextNameIsFree DEF Owner!ListNames, Owner!TypeOK
    <2> QED
      BY <1>0, <1>12, <2>1 DEF Owner!ListNames, PlaceHolds
  <1>13. ASSUME Owner!LookName(p) PROVE PlaceHolds(p)'
    <2>1. oPc'[p] \in {"look", "reserve"} /\ name'[p] \in Names /\ UNCHANGED <<want, holds>>
      BY <1>0, <1>13, NextNameIsFree DEF Owner!LookName, Owner!TypeOK, PlaceHolds
    <2> QED
      BY <1>0, <1>13, <2>1 DEF Owner!LookName, PlaceHolds
  <1>14. ASSUME Owner!ReserveName(p) PROVE PlaceHolds(p)'
    <2>1. oPc'[p] \in {"look", "row"} /\ UNCHANGED <<want, holds, name>>
      BY <1>0, <1>14 DEF Owner!ReserveName, Owner!TypeOK
    <2> QED
      BY <1>0, <1>14, <2>1 DEF Owner!ReserveName, PlaceHolds
  <1>15. ASSUME Owner!InsertRow(p) PROVE PlaceHolds(p)'
    <2>1. oPc'[p] \in {"publish", "remove"} /\ UNCHANGED <<want, holds, name>>
      BY <1>0, <1>15 DEF Owner!InsertRow, Owner!TypeOK
    <2> QED
      BY <1>0, <1>15, <2>1 DEF Owner!InsertRow, PlaceHolds
  <1>16. ASSUME Owner!Publish(p) PROVE PlaceHolds(p)'
    <2>1. oPc'[p] \in {"claim", "remove"} /\ UNCHANGED <<want, holds>>
      BY <1>0, <1>16 DEF Owner!Publish, Owner!TypeOK
    <2> QED
      BY <1>0, <1>16, <2>1 DEF Owner!Publish, PlaceHolds
  <1>17. ASSUME Owner!RemoveShell(p) PROVE PlaceHolds(p)'
    <2>1. oPc'[p] = "release" /\ UNCHANGED <<want, holds>>
      BY <1>0, <1>17 DEF Owner!RemoveShell, Owner!TypeOK
    <2> QED
      BY <1>0, <1>17, <2>1 DEF Owner!RemoveShell, PlaceHolds
  <1>18. ASSUME Owner!Unname(p) PROVE PlaceHolds(p)'
    <2>1. oPc'[p] = "delete" /\ UNCHANGED <<want, holds>>
      BY <1>0, <1>18 DEF Owner!Unname, Owner!TypeOK
    <2> QED
      BY <1>0, <1>18, <2>1 DEF Owner!Unname, PlaceHolds
  <1>19. ASSUME Owner!Discard(p) PROVE PlaceHolds(p)'
    <2>1. PICK s \in holds[p] : /\ want' = [want EXCEPT ![p] = s]
                                /\ holds' = [holds EXCEPT ![p] = @ \ {s}]
      BY <1>19 DEF Owner!Discard
    <2>2. oPc'[p] = "unname" /\ want'[p] = s /\ s \in Sessions /\ s \notin holds'[p]
      BY <1>0, <1>19, <2>1 DEF Owner!Discard, Owner!TypeOK
    <2> QED
      BY <2>2 DEF PlaceHolds
  <1> QED
    BY <1>1, <1>2, <1>3, <1>4, <1>5, <1>6, <1>7, <1>8, <1>9, <1>10, <1>11, <1>12, <1>13, <1>14,
       <1>15, <1>16, <1>17, <1>18, <1>19 DEF Takes, Claims, Creates

LEMMA PlacesHoldStep ==
    ASSUME OwnerInv, NEW p \in Hosts, Takes(p)
    PROVE  PlacesHold'
  <1>1. ASSUME NEW q \in Hosts \ {p}, q \in alive' PROVE PlaceHolds(q)'
    <2>1. Untouched(q) /\ PlaceHolds(q)
      BY <1>1, OthersUntouched DEF OwnerInv, PlacesHold, Untouched
    <2> QED
      BY <2>1 DEF PlaceHolds, Untouched
  <1>2. alive' \subseteq Hosts
    BY OwnerTypesStep DEF Owner!TypeOK
  <1> QED
    BY <1>1, <1>2, OwnPlaceHolds DEF PlacesHold


\* What a step makes of the registers and of its own reading of them.
LEMMA OwnerEffects ==
    ASSUME OwnerInv, NEW p \in Hosts, Takes(p)
    PROVE  /\ oPc'[p] # "off" /\ (p \in alive' <=> oPc'[p] # "dead")
           /\ cur'[p] \in {cur[p], Owner!Current(owners), Owner!Released}
           /\ prev'[p] \in {prev[p], cur[p], Owner!Released}
           /\ \/ owners' = owners
              \/ /\ p \in alive /\ seen[p] = Len(owners)
                 /\ \E r \in {[session |-> cur[p].session, pid |-> p],
                              [session |-> want[p], pid |-> p], prev[p]} :
                        owners' = Append(owners, r)
           /\ \A n \in Names :
                 \/ names'[n] = names[n]
                 \/ names'[n] = Append(names[n], [session |-> want[p], pid |-> p])
                 \/ names'[n] = Append(names[n], Owner!Released)
  <1> USE DEF Owner!At, Owner!Goto, Owner!Forget, Owner!Return, Owner!chains, Owner!files,
              Owner!claim, Owner!naming, Owner!Conflict, Owner!LinkOwner
  <1>0. /\ oPc \in [Hosts -> Owner!Places] /\ cur \in [Hosts -> Owner!Record]
        /\ prev \in [Hosts -> Owner!Record] /\ names = [n \in Names |-> names[n]]
    BY DEF OwnerInv, Owner!TypeOK
  <1>a. p \in alive => oPc[p] # "off" /\ oPc[p] # "dead"
    BY DEF OwnerInv, Lives
  <1>1. oPc'[p] # "off" /\ (p \in alive' <=> oPc'[p] # "dead")
    <2>1. CASE Owner!Boot(p) \/ Owner!Load(p) \/ Owner!Inspect(p) \/ Owner!Reclaim(p)
      BY <1>0, <1>a, <2>1 DEF Owner!Boot, Owner!Load, Owner!Inspect, Owner!Reclaim
    <2>2. CASE \/ Owner!Stamp(p) \/ Owner!CreateDirectory(p)
              \/ Owner!ClaimNew(p) \/ Owner!Bound(p)
      BY <1>0, <1>a, <2>2 DEF Owner!Stamp, Owner!CreateDirectory, Owner!ClaimNew, Owner!Bound
    <2>3. CASE Owner!BindFails(p) \/ Owner!Restore(p) \/ Owner!Restamp(p) \/ Owner!Crash(p)
      BY <1>0, <1>a, <2>3 DEF Owner!BindFails, Owner!Restore, Owner!Restamp, Owner!Crash
    <2>4. CASE Owner!ListNames(p) \/ Owner!LookName(p) \/ Owner!ReserveName(p)
      BY <1>0, <1>a, <2>4 DEF Owner!ListNames, Owner!LookName, Owner!ReserveName
    <2>5. CASE Owner!InsertRow(p) \/ Owner!Publish(p) \/ Owner!RemoveShell(p)
      BY <1>0, <1>a, <2>5 DEF Owner!InsertRow, Owner!Publish, Owner!RemoveShell
    <2>6. CASE \/ Owner!ReleaseShell(p) \/ Owner!Unname(p)
              \/ Owner!DeleteFiles(p) \/ Owner!Discard(p)
      BY <1>0, <1>a, <2>6 DEF Owner!ReleaseShell, Owner!Unname, Owner!DeleteFiles, Owner!Discard
    <2> QED
      BY <2>1, <2>2, <2>3, <2>4, <2>5, <2>6 DEF Takes, Claims, Creates
  <1>2. cur'[p] \in {cur[p], Owner!Current(owners), Owner!Released}
    <2>1. CASE Owner!Boot(p) \/ Owner!Load(p) \/ Owner!Inspect(p) \/ Owner!Reclaim(p)
      BY <1>0, <2>1 DEF Owner!Boot, Owner!Load, Owner!Inspect, Owner!Reclaim
    <2>2. CASE \/ Owner!Stamp(p) \/ Owner!CreateDirectory(p)
              \/ Owner!ClaimNew(p) \/ Owner!Bound(p)
      BY <1>0, <2>2 DEF Owner!Stamp, Owner!CreateDirectory, Owner!ClaimNew, Owner!Bound
    <2>3. CASE Owner!BindFails(p) \/ Owner!Restore(p) \/ Owner!Restamp(p) \/ Owner!Crash(p)
      BY <1>0, <2>3 DEF Owner!BindFails, Owner!Restore, Owner!Restamp, Owner!Crash
    <2>4. CASE Owner!ListNames(p) \/ Owner!LookName(p) \/ Owner!ReserveName(p)
      BY <1>0, <2>4 DEF Owner!ListNames, Owner!LookName, Owner!ReserveName
    <2>5. CASE Owner!InsertRow(p) \/ Owner!Publish(p) \/ Owner!RemoveShell(p)
      BY <1>0, <2>5 DEF Owner!InsertRow, Owner!Publish, Owner!RemoveShell
    <2>6. CASE \/ Owner!ReleaseShell(p) \/ Owner!Unname(p)
              \/ Owner!DeleteFiles(p) \/ Owner!Discard(p)
      BY <1>0, <2>6 DEF Owner!ReleaseShell, Owner!Unname, Owner!DeleteFiles, Owner!Discard
    <2> QED
      BY <2>1, <2>2, <2>3, <2>4, <2>5, <2>6 DEF Takes, Claims, Creates
  <1>3. prev'[p] \in {prev[p], cur[p], Owner!Released}
    <2>1. CASE Owner!Boot(p) \/ Owner!Load(p) \/ Owner!Inspect(p) \/ Owner!Reclaim(p)
      BY <1>0, <2>1 DEF Owner!Boot, Owner!Load, Owner!Inspect, Owner!Reclaim
    <2>2. CASE \/ Owner!Stamp(p) \/ Owner!CreateDirectory(p)
              \/ Owner!ClaimNew(p) \/ Owner!Bound(p)
      BY <1>0, <2>2 DEF Owner!Stamp, Owner!CreateDirectory, Owner!ClaimNew, Owner!Bound
    <2>3. CASE Owner!BindFails(p) \/ Owner!Restore(p) \/ Owner!Restamp(p) \/ Owner!Crash(p)
      BY <1>0, <2>3 DEF Owner!BindFails, Owner!Restore, Owner!Restamp, Owner!Crash
    <2>4. CASE Owner!ListNames(p) \/ Owner!LookName(p) \/ Owner!ReserveName(p)
      BY <1>0, <2>4 DEF Owner!ListNames, Owner!LookName, Owner!ReserveName
    <2>5. CASE Owner!InsertRow(p) \/ Owner!Publish(p) \/ Owner!RemoveShell(p)
      BY <1>0, <2>5 DEF Owner!InsertRow, Owner!Publish, Owner!RemoveShell
    <2>6. CASE \/ Owner!ReleaseShell(p) \/ Owner!Unname(p)
              \/ Owner!DeleteFiles(p) \/ Owner!Discard(p)
      BY <1>0, <2>6 DEF Owner!ReleaseShell, Owner!Unname, Owner!DeleteFiles, Owner!Discard
    <2> QED
      BY <2>1, <2>2, <2>3, <2>4, <2>5, <2>6 DEF Takes, Claims, Creates
  <1>4. \/ owners' = owners
        \/ /\ p \in alive /\ seen[p] = Len(owners)
           /\ \E r \in {[session |-> cur[p].session, pid |-> p],
                        [session |-> want[p], pid |-> p], prev[p]} :
                  owners' = Append(owners, r)
    <2>1. CASE Owner!Boot(p) \/ Owner!Load(p) \/ Owner!Inspect(p) \/ Owner!Reclaim(p)
      BY <2>1 DEF Owner!Boot, Owner!Load, Owner!Inspect, Owner!Reclaim
    <2>2. CASE \/ Owner!Stamp(p) \/ Owner!CreateDirectory(p)
              \/ Owner!ClaimNew(p) \/ Owner!Bound(p)
      BY <2>2 DEF Owner!Stamp, Owner!CreateDirectory, Owner!ClaimNew, Owner!Bound
    <2>3. CASE Owner!BindFails(p) \/ Owner!Restore(p) \/ Owner!Restamp(p) \/ Owner!Crash(p)
      BY <2>3 DEF Owner!BindFails, Owner!Restore, Owner!Restamp, Owner!Crash
    <2>4. CASE Owner!ListNames(p) \/ Owner!LookName(p) \/ Owner!ReserveName(p)
      BY <2>4 DEF Owner!ListNames, Owner!LookName, Owner!ReserveName
    <2>5. CASE Owner!InsertRow(p) \/ Owner!Publish(p) \/ Owner!RemoveShell(p)
      BY <2>5 DEF Owner!InsertRow, Owner!Publish, Owner!RemoveShell
    <2>6. CASE \/ Owner!ReleaseShell(p) \/ Owner!Unname(p)
              \/ Owner!DeleteFiles(p) \/ Owner!Discard(p)
      BY <2>6 DEF Owner!ReleaseShell, Owner!Unname, Owner!DeleteFiles, Owner!Discard
    <2> QED
      BY <2>1, <2>2, <2>3, <2>4, <2>5, <2>6 DEF Takes, Claims, Creates
  <1>5. \A n \in Names :
           \/ names'[n] = names[n]
           \/ names'[n] = Append(names[n], [session |-> want[p], pid |-> p])
           \/ names'[n] = Append(names[n], Owner!Released)
    <2>1. CASE Owner!Boot(p) \/ Owner!Load(p) \/ Owner!Inspect(p) \/ Owner!Reclaim(p)
      BY <1>0, <2>1 DEF Owner!Boot, Owner!Load, Owner!Inspect, Owner!Reclaim, Owner!ReleaseNames
    <2>2. CASE \/ Owner!Stamp(p) \/ Owner!CreateDirectory(p)
              \/ Owner!ClaimNew(p) \/ Owner!Bound(p)
      BY <1>0, <2>2 DEF Owner!Stamp, Owner!CreateDirectory, Owner!ClaimNew, Owner!Bound,
         Owner!ReleaseNames
    <2>3. CASE Owner!BindFails(p) \/ Owner!Restore(p) \/ Owner!Restamp(p) \/ Owner!Crash(p)
      BY <1>0, <2>3 DEF Owner!BindFails, Owner!Restore, Owner!Restamp, Owner!Crash,
         Owner!ReleaseNames
    <2>4. CASE Owner!ListNames(p) \/ Owner!LookName(p) \/ Owner!ReserveName(p)
      BY <1>0, <2>4 DEF Owner!ListNames, Owner!LookName, Owner!ReserveName, Owner!ReleaseNames
    <2>5. CASE Owner!InsertRow(p) \/ Owner!Publish(p) \/ Owner!RemoveShell(p)
      BY <1>0, <2>5 DEF Owner!InsertRow, Owner!Publish, Owner!RemoveShell, Owner!ReleaseNames
    <2>6. CASE \/ Owner!ReleaseShell(p) \/ Owner!Unname(p)
              \/ Owner!DeleteFiles(p) \/ Owner!Discard(p)
      BY <1>0, <2>6 DEF Owner!ReleaseShell, Owner!Unname, Owner!DeleteFiles, Owner!Discard,
         Owner!ReleaseNames
    <2> QED
      BY <2>1, <2>2, <2>3, <2>4, <2>5, <2>6 DEF Takes, Claims, Creates
  <1> QED
    BY ONLY <1>1, <1>2, <1>3, <1>4, <1>5

LEMMA ChainsGrow ==
    ASSUME OwnerInv, NEW p \in Hosts, Takes(p)
    PROVE  /\ Len(owners) \in Nat
           /\ \/ owners' = owners
              \/ /\ p \in alive /\ seen[p] = Len(owners) /\ Len(owners') = Len(owners) + 1
           /\ \A n \in Names : /\ Len(names[n]) \in Nat
                               /\ \/ names'[n] = names[n]
                                  \/ Len(names'[n]) = Len(names[n]) + 1
  <1>1. owners \in Seq(Owner!Record) /\ \A n \in Names : names[n] \in Seq(Owner!Record)
    BY DEF OwnerInv, Owner!TypeOK
  <1>2. \A chain \in Seq(Owner!Record) : Len(chain) \in Nat
    OBVIOUS
  <1>3. \A chain \in Seq(Owner!Record) : \A r : Len(Append(chain, r)) = Len(chain) + 1
    OBVIOUS
  <1>4. \/ owners' = owners
        \/ p \in alive /\ seen[p] = Len(owners) /\ \E r : owners' = Append(owners, r)
    BY OwnerEffects
  <1>5. \A n \in Names : names'[n] = names[n] \/ \E r : names'[n] = Append(names[n], r)
    BY OwnerEffects
  <1> QED
    BY ONLY <1>1, <1>2, <1>3, <1>4, <1>5

LEMMA LivesStep ==
    ASSUME OwnerInv, NEW p \in Hosts, Takes(p)
    PROVE  Lives'
  <1>0. /\ Owner!TypeOK /\ Lives /\ None \notin Sessions
        /\ owners \in Seq(Owner!Record) /\ \A n \in Names : names[n] \in Seq(Owner!Record)
        /\ Owner!Released \in Owner!Record
        /\ Owner!Released = [session |-> None, pid |-> None]
    BY ServicesAssumption DEF OwnerInv, Owner!TypeOK, Owner!Released, Owner!Record
  <1>1. \A h \in Hosts : oPc[h] # "off" => oPc'[h] # "off"
    BY <1>0, OthersUntouched, OwnerEffects DEF Untouched
  <1>2. ASSUME NEW r, Known(r)
        PROVE  r.session # None =>
                  r.session \in Sessions /\ r.pid \in Hosts /\ oPc'[r.pid] # "off"
    BY <1>1, <1>2 DEF Known
  <1>3. ASSUME NEW s \in Sessions \cup {None}, NEW r, r = [session |-> s, pid |-> p]
        PROVE  /\ r \in Owner!Record
               /\ r.session # None =>
                     r.session \in Sessions /\ r.pid \in Hosts /\ oPc'[r.pid] # "off"
    BY <1>3, OwnerEffects DEF Owner!Record
  <1>4. cur[p].session \in Sessions \cup {None} /\ want[p] \in Sessions \cup {None}
    BY <1>0 DEF Owner!TypeOK, Owner!Record
  <1>5. /\ Known(Owner!Current(owners)) /\ Known(Owner!Released)
        /\ \A h \in Hosts : Known(cur[h]) /\ Known(prev[h])
        /\ \A n \in Names : Known(Owner!Current(names[n]))
    BY <1>0 DEF Lives, Known
  <1>6. Known(Owner!Current(owners))'
    <2>1. CASE owners' = owners
      BY <1>2, <1>5, <2>1 DEF Known, Owner!Current
    <2>2. CASE owners' # owners
      <3>1. PICK r \in {[session |-> cur[p].session, pid |-> p],
                       [session |-> want[p], pid |-> p], prev[p]} : owners' = Append(owners, r)
        BY <2>2, OwnerEffects
      <3>2. /\ r \in Owner!Record
            /\ r.session # None =>
                  r.session \in Sessions /\ r.pid \in Hosts /\ oPc'[r.pid] # "off"
        <4>1. CASE r = prev[p]
          BY <1>0, <1>2, <1>5, <4>1 DEF Owner!TypeOK
        <4>2. CASE r # prev[p]
          BY <1>3, <1>4, <3>1, <4>2
        <4> QED
          BY <4>1, <4>2
      <3>3. Owner!Current(Append(owners, r)) = r
        BY <1>0, <3>2, CurrentOfAppend
      <3>4. Owner!Current(owners)' = r
        BY <3>1, <3>3 DEF Owner!Current
      <3> QED
        BY <3>2, <3>4 DEF Known
    <2> QED
      BY <2>1, <2>2
  <1>7. ASSUME NEW h \in Hosts PROVE Known(cur[h])' /\ Known(prev[h])'
    <2>1. CASE h = p
      <3>1. PICK c \in {cur[p], Owner!Current(owners), Owner!Released} : cur'[p] = c
        BY OwnerEffects
      <3>2. PICK d \in {prev[p], cur[p], Owner!Released} : prev'[p] = d
        BY OwnerEffects
      <3>3. Known(c) /\ Known(d)
        BY <1>5
      <3> QED
        BY <1>2, <2>1, <3>1, <3>2, <3>3 DEF Known
    <2>2. CASE h # p
      BY <1>2, <1>5, <2>2, OthersUntouched, <1>0 DEF Known, Untouched
    <2> QED
      BY <2>1, <2>2
  <1>8. ASSUME NEW n \in Names PROVE Known(Owner!Current(names[n]))'
    <2>1. CASE names'[n] = names[n]
      BY <1>2, <1>5, <2>1 DEF Known, Owner!Current
    <2>2. CASE names'[n] # names[n]
      <3>1. PICK r \in {[session |-> want[p], pid |-> p], Owner!Released} :
                names'[n] = Append(names[n], r)
        BY <2>2, OwnerEffects
      <3>2. /\ r \in Owner!Record
            /\ r.session # None =>
                  r.session \in Sessions /\ r.pid \in Hosts /\ oPc'[r.pid] # "off"
        BY <1>0, <1>3, <1>4
      <3>3. Owner!Current(Append(names[n], r)) = r
        BY <1>0, <3>2, CurrentOfAppend
      <3>4. Owner!Current(names[n])' = r
        BY <3>1, <3>3 DEF Owner!Current
      <3> QED
        BY <3>2, <3>4 DEF Known
    <2> QED
      BY <2>1, <2>2
  <1>9. ASSUME NEW h \in Hosts
        PROVE  /\ h \in alive' <=> oPc'[h] \notin {"off", "dead"}
               /\ oPc'[h] = "off" => holds'[h] = {} /\ seen'[h] = 0
    <2>1. CASE h = p
      BY <2>1, OwnerEffects
    <2>2. CASE h # p
      BY <1>0, <2>2, OthersUntouched DEF Lives, Untouched
    <2> QED
      BY <2>1, <2>2
  <1> QED
    BY <1>6, <1>7, <1>8, <1>9 DEF Lives


LEMMA OwnReadHolds ==
    ASSUME OwnerInv, NEW p \in Hosts, Takes(p), p \in alive'
    PROVE  ReadHolds(p)'
  <1> USE DEF Owner!At, Owner!Goto, Owner!Return, Owner!Conflict, Owner!chains, Owner!files,
              Owner!claim, Owner!naming, Reading
  <1>0. /\ Owner!TypeOK /\ (p \in alive => ReadHolds(p) /\ PlaceHolds(p)) /\ Len(owners) \in Nat
        /\ owners \in Seq(Owner!Record)
    BY ChainsGrow DEF OwnerInv, ReadsHold, PlacesHold, Owner!TypeOK
  <1>a. /\ Len(owners') \in Nat /\ Len(owners) <= Len(owners')
        /\ owners' # owners => p \in alive /\ seen[p] = Len(owners) /\ seen[p] < Len(owners')
    BY <1>0, ChainsGrow
  <1>b. ASSUME seen'[p] \in {0, Len(owners)},
               oPc'[p] \in {"idle", "load", "off", "dead"}
        PROVE  ReadHolds(p)'
    BY <1>0, <1>a, <1>b DEF ReadHolds
  <1>c. ASSUME seen'[p] = seen[p], p \in alive,
               oPc'[p] \notin Reading \cup {"restore"}
        PROVE  ReadHolds(p)'
    BY <1>0, <1>a, <1>c DEF ReadHolds, Owner!TypeOK
  <1>d. ASSUME seen'[p] = seen[p], cur'[p] = cur[p], p \in alive, owners' = owners,
               oPc[p] \in Reading, oPc'[p] \notin {"reclaim", "restore"}
        PROVE  ReadHolds(p)'
    BY <1>0, <1>d DEF ReadHolds, Owner!Current
  <1>1. ASSUME Owner!Boot(p) PROVE ReadHolds(p)'
    <2>1. oPc'[p] = "idle" /\ seen' = seen /\ owners' = owners
      BY <1>0, <1>1 DEF Owner!Boot, Owner!TypeOK
    <2> QED
      BY <1>0, <1>1, <2>1 DEF ReadHolds, OwnerInv, Lives, Owner!Boot
  <1>2. ASSUME Owner!Load(p) PROVE ReadHolds(p)'
    <2>1. /\ seen'[p] = Len(owners) /\ cur'[p] = Owner!Current(owners) /\ owners' = owners
          /\ oPc'[p] \in {"inspect", "create"}
      BY <1>0, <1>2 DEF Owner!Load, Owner!TypeOK
    <2> QED
      BY <1>0, <2>1 DEF ReadHolds, Owner!Current
  <1>3. ASSUME Owner!Inspect(p) PROVE ReadHolds(p)'
    <2>1. /\ UNCHANGED <<owners, disk, seen, cur, alive>> /\ p \in alive /\ oPc[p] = "inspect"
          /\ \/ oPc'[p] \in {"create", "bind"}
             \/ /\ oPc'[p] = "reclaim" /\ cur[p].pid \notin alive
                /\ disk[cur[p].session] = "row"
      BY <1>0, <1>3 DEF Owner!Inspect, Owner!TypeOK
    <2> QED
      BY <1>0, <2>1 DEF ReadHolds, Owner!Current
  <1>4. ASSUME Owner!Reclaim(p) PROVE ReadHolds(p)'
    <2>1. \/ oPc'[p] = "stamp" /\ seen' = seen
          \/ oPc'[p] = "load" /\ Owner!Forget(p)
      BY <1>0, <1>4 DEF Owner!Reclaim, Owner!TypeOK
    <2>2. p \in alive
      BY <1>4 DEF Owner!Reclaim
    <2> QED
      BY <1>0, <1>b, <1>c, <2>1, <2>2 DEF Owner!Forget, Owner!TypeOK
  <1>5. ASSUME Owner!Stamp(p) PROVE ReadHolds(p)'
    <2>1. \/ oPc'[p] = "bind" /\ seen' = seen
          \/ oPc'[p] = "idle" /\ Owner!Forget(p)
      BY <1>0, <1>5 DEF Owner!Stamp, Owner!TypeOK
    <2>2. p \in alive
      BY <1>5 DEF Owner!Stamp
    <2> QED
      BY <1>0, <1>b, <1>c, <2>1, <2>2 DEF Owner!Forget, Owner!TypeOK
  <1>6. ASSUME Owner!ClaimNew(p) PROVE ReadHolds(p)'
    <2>1. oPc'[p] \in {"bind", "unname"} /\ seen' = seen /\ p \in alive
      BY <1>0, <1>6 DEF Owner!ClaimNew, Owner!TypeOK
    <2> QED
      BY <1>c, <2>1
  <1>7. ASSUME \/ Owner!Bound(p) \/ Owner!ReleaseShell(p) \/ Owner!DeleteFiles(p)
               \/ Owner!Crash(p)
        PROVE  ReadHolds(p)'
    <2>1. oPc'[p] \in {"idle", "load", "dead"} /\ Owner!Forget(p)
      BY <1>0, <1>7 DEF Owner!Bound, Owner!ReleaseShell, Owner!DeleteFiles, Owner!Crash,
                        Owner!TypeOK
    <2> QED
      BY <1>0, <1>b, <2>1 DEF Owner!Forget, Owner!TypeOK
  <1>8. ASSUME Owner!BindFails(p) PROVE ReadHolds(p)'
    <2>1. \/ oPc'[p] = "idle" /\ Owner!Forget(p)
          \/ /\ oPc'[p] = "restore" /\ seen'[p] = Len(owners) /\ want' = want
             /\ Owner!Current(owners) = [session |-> want[p], pid |-> p]
      BY <1>0, <1>8 DEF Owner!BindFails, Owner!TypeOK
    <2>2. owners' = owners
      BY <1>8 DEF Owner!BindFails
    <2>3. CASE Owner!Forget(p) /\ oPc'[p] = "idle"
      BY <1>0, <1>b, <2>3 DEF Owner!Forget, Owner!TypeOK
    <2>4. CASE oPc'[p] = "restore"
      BY <1>0, <2>1, <2>2, <2>4 DEF ReadHolds, Owner!Current
    <2> QED
      BY <2>1, <2>3, <2>4
  <1>9. ASSUME Owner!Restore(p) PROVE ReadHolds(p)'
    <2>1. \/ oPc'[p] \in {"restamp", "unname"} /\ seen' = seen
          \/ oPc'[p] = "idle" /\ Owner!Forget(p)
      BY <1>0, <1>9 DEF Owner!Restore, Owner!TypeOK
    <2>2. p \in alive
      BY <1>9 DEF Owner!Restore
    <2> QED
      BY <1>0, <1>b, <1>c, <2>1, <2>2 DEF Owner!Forget, Owner!TypeOK
  <1>10. ASSUME Owner!Restamp(p) PROVE ReadHolds(p)'
    <2>1. \/ oPc'[p] = "unname" /\ seen' = seen
          \/ oPc'[p] = "idle" /\ Owner!Forget(p)
      BY <1>0, <1>10 DEF Owner!Restamp, Owner!TypeOK
    <2>2. p \in alive
      BY <1>10 DEF Owner!Restamp
    <2> QED
      BY <1>0, <1>b, <1>c, <2>1, <2>2 DEF Owner!Forget, Owner!TypeOK
  <1>11. ASSUME \/ Owner!CreateDirectory(p) \/ Owner!ListNames(p) \/ Owner!LookName(p)
                \/ Owner!ReserveName(p) \/ Owner!InsertRow(p) \/ Owner!Publish(p)
         PROVE  ReadHolds(p)'
    <2>1. UNCHANGED <<owners, seen, cur>> /\ p \in alive /\ oPc[p] \in Reading
      BY <1>11 DEF Owner!CreateDirectory, Owner!ListNames, Owner!LookName, Owner!ReserveName,
                   Owner!InsertRow, Owner!Publish
    <2>2. oPc'[p] \in {"list", "look", "reserve", "row", "publish", "remove", "claim"}
      BY <1>0, <1>11 DEF Owner!CreateDirectory, Owner!ListNames, Owner!LookName,
                   Owner!ReserveName, Owner!InsertRow, Owner!Publish, Owner!TypeOK
    <2> QED
      BY <1>d, <2>1, <2>2
  <1>12. ASSUME Owner!RemoveShell(p) \/ Owner!Unname(p) \/ Owner!Discard(p) PROVE ReadHolds(p)'
    <2>1. oPc'[p] \in {"release", "delete", "unname"} /\ seen' = seen /\ p \in alive
      BY <1>0, <1>12 DEF Owner!RemoveShell, Owner!Unname, Owner!Discard, Owner!TypeOK
    <2> QED
      BY <1>c, <2>1
  <1> QED
    BY <1>1, <1>2, <1>3, <1>4, <1>5, <1>6, <1>7, <1>8, <1>9, <1>10, <1>11, <1>12
       DEF Takes, Claims, Creates

\* Who removes the files of a session is engaged with it, and nobody reclaims it.
LEMMA RemoverIsEngaged ==
    ASSUME OwnerInv, NEW p \in Hosts, Takes(p), NEW s \in Sessions,
           disk[s] = "row", disk'[s] # "row"
    PROVE  Engaged(p, s) /\ want[p] = s /\ oPc[p] \in Making \cup Removing
  <1>1. disk = [t \in Sessions |-> disk[t]]
    BY DEF OwnerInv, Owner!TypeOK
  <1>2. ASSUME Owner!InsertRow(p) \/ Owner!CreateDirectory(p) PROVE FALSE
    <2>1. CASE Owner!InsertRow(p)
      BY <1>1, <2>1 DEF Owner!InsertRow
    <2>2. CASE Owner!CreateDirectory(p)
      <3>1. PICK t \in Sessions : disk[t] = "none" /\ disk' = [disk EXCEPT ![t] = "dir"]
        BY <2>2 DEF Owner!CreateDirectory
      <3> QED
        BY <1>1, <3>1
    <2> QED
      BY <1>2, <2>1, <2>2
  <1>3. Owner!RemoveShell(p) \/ Owner!DeleteFiles(p)
    <2> USE DEF Owner!files
    <2>1. CASE Owner!Boot(p) \/ Owner!Load(p) \/ Owner!Inspect(p) \/ Owner!Reclaim(p)
      BY <1>2, <2>1 DEF Owner!Boot, Owner!Load, Owner!Inspect, Owner!Reclaim
    <2>2. CASE \/ Owner!Stamp(p) \/ Owner!CreateDirectory(p)
              \/ Owner!ClaimNew(p) \/ Owner!Bound(p)
      BY <1>2, <2>2 DEF Owner!Stamp, Owner!CreateDirectory, Owner!ClaimNew, Owner!Bound
    <2>3. CASE Owner!BindFails(p) \/ Owner!Restore(p) \/ Owner!Restamp(p) \/ Owner!Crash(p)
      BY <1>2, <2>3 DEF Owner!BindFails, Owner!Restore, Owner!Restamp, Owner!Crash
    <2>4. CASE Owner!ListNames(p) \/ Owner!LookName(p) \/ Owner!ReserveName(p)
      BY <1>2, <2>4 DEF Owner!ListNames, Owner!LookName, Owner!ReserveName
    <2>5. CASE Owner!InsertRow(p) \/ Owner!Publish(p) \/ Owner!RemoveShell(p)
      BY <1>2, <2>5 DEF Owner!InsertRow, Owner!Publish, Owner!RemoveShell
    <2>6. CASE \/ Owner!ReleaseShell(p) \/ Owner!Unname(p)
              \/ Owner!DeleteFiles(p) \/ Owner!Discard(p)
      BY <1>2, <2>6 DEF Owner!ReleaseShell, Owner!Unname, Owner!DeleteFiles, Owner!Discard
    <2> QED
      BY <2>1, <2>2, <2>3, <2>4, <2>5, <2>6 DEF Takes, Claims, Creates
  <1>4. /\ p \in alive /\ want[p] = s /\ oPc[p] \in Making \cup Removing
    BY <1>1, <1>3 DEF Owner!RemoveShell, Owner!DeleteFiles, Owner!RemoveFiles, Owner!At,
                      Making, Removing
  <1> QED
    BY <1>4 DEF Engaged

LEMMA ReadsHoldStep ==
    ASSUME OwnerInv, NEW p \in Hosts, Takes(p)
    PROVE  ReadsHold'
  <1>1. ASSUME NEW q \in Hosts \ {p}, q \in alive' PROVE ReadHolds(q)'
    <2>1. Untouched(q) /\ q \in alive /\ ReadHolds(q) /\ PlaceHolds(q)
      BY <1>1, OthersUntouched DEF OwnerInv, ReadsHold, PlacesHold, Untouched
    <2>2. /\ seen[q] \in Nat /\ Len(owners) \in Nat
          /\ owners' = owners \/ Len(owners') = Len(owners) + 1
      BY ChainsGrow DEF OwnerInv, Owner!TypeOK
    <2>3. oPc[q] = "reclaim" => cur[q].pid \notin alive'
      <3>1. ASSUME oPc[q] = "reclaim" PROVE cur[q].pid # p
        <4>1. CASE p \in alive
          BY <2>1, <3>1, <4>1 DEF ReadHolds
        <4>2. CASE p \notin alive
          <5>1. oPc[p] = "off"
            <6> USE DEF Owner!At
            <6>1. CASE \/ Owner!Boot(p) \/ Owner!Load(p)
                      \/ Owner!Inspect(p) \/ Owner!Reclaim(p)
              BY <4>2, <6>1 DEF Owner!Boot, Owner!Load, Owner!Inspect, Owner!Reclaim
            <6>2. CASE \/ Owner!Stamp(p) \/ Owner!CreateDirectory(p)
                      \/ Owner!ClaimNew(p) \/ Owner!Bound(p)
              BY <4>2, <6>2 DEF Owner!Stamp, Owner!CreateDirectory, Owner!ClaimNew, Owner!Bound
            <6>3. CASE \/ Owner!BindFails(p) \/ Owner!Restore(p)
                      \/ Owner!Restamp(p) \/ Owner!Crash(p)
              BY <4>2, <6>3 DEF Owner!BindFails, Owner!Restore, Owner!Restamp, Owner!Crash
            <6>4. CASE Owner!ListNames(p) \/ Owner!LookName(p) \/ Owner!ReserveName(p)
              BY <4>2, <6>4 DEF Owner!ListNames, Owner!LookName, Owner!ReserveName
            <6>5. CASE Owner!InsertRow(p) \/ Owner!Publish(p) \/ Owner!RemoveShell(p)
              BY <4>2, <6>5 DEF Owner!InsertRow, Owner!Publish, Owner!RemoveShell
            <6>6. CASE \/ Owner!ReleaseShell(p) \/ Owner!Unname(p)
                      \/ Owner!DeleteFiles(p) \/ Owner!Discard(p)
              BY <4>2, <6>6 DEF Owner!ReleaseShell, Owner!Unname, Owner!DeleteFiles, Owner!Discard
            <6> QED
              BY <6>1, <6>2, <6>3, <6>4, <6>5, <6>6 DEF Takes, Claims, Creates
          <5>2. cur[q].session \in Sessions /\ Known(cur[q])
            BY <2>1, <3>1 DEF PlaceHolds, OwnerInv, Lives
          <5> QED
            BY <5>1, <5>2, ServicesAssumption DEF Known
        <4> QED
          BY <4>1, <4>2
      <3>2. \A h \in Hosts \ {p} : h \in alive' => h \in alive
        BY OthersUntouched DEF Untouched, OwnerInv
      <3>3. alive' \subseteq Hosts
        BY OwnerTypesStep DEF Owner!TypeOK
      <3> QED
        BY <2>1, <3>1, <3>2, <3>3 DEF ReadHolds
    <2>4. ASSUME oPc[q] = "reclaim", seen[q] = Len(owners), owners' = owners
          PROVE  disk'[cur[q].session] = "row"
      <3> DEFINE s == cur[q].session
      <3>1. /\ s \in Sessions /\ disk[s] = "row" /\ cur[q] = Owner!Current(owners)
            /\ cur[q].pid \notin alive
        BY <2>1, <2>4 DEF PlaceHolds, ReadHolds, Reading
      <3>2. None \in Tops /\ Carried(None) = cur[q] /\ ~ (None \in Hosts)
        BY <3>1, ServicesAssumption DEF Tops, Carried
      <3>3. ~Engaged(p, s)
        BY <3>1, <3>2 DEF OwnerInv, EngagedOnce, Engaged
      <3> QED
        BY <3>1, <3>3, RemoverIsEngaged
    <2> QED
      BY <2>1, <2>2, <2>3, <2>4 DEF ReadHolds, Untouched, Owner!Current, Reading
  <1>2. alive' \subseteq Hosts
    BY OwnerTypesStep DEF Owner!TypeOK
  <1> QED
    BY <1>1, <1>2, OwnReadHolds DEF ReadsHold


\* What a step leaves of the records and the engagements of the others.
LEMMA OthersRecords ==
    ASSUME OwnerInv, NEW p \in Hosts, NEW q \in Hosts \ {p}, Takes(p)
    PROVE  /\ Unbound(q)' <=> Unbound(q)
           /\ prev'[q] = prev[q] /\ disp'[q] = disp[q] /\ want'[q] = want[q]
           /\ \A s \in Sessions : Engaged(q, s)' <=> Engaged(q, s)
           /\ q \in alive' /\ oPc'[q] \in Making <=> q \in alive /\ oPc[q] \in Making
  <1>1. Untouched(q)
    BY OthersUntouched DEF OwnerInv
  <1> QED
    BY <1>1 DEF Untouched, Unbound, Engaged

\* A step that publishes no record and engages its process with no other session.
Calm(p) ==
    /\ Owner!Current(owners)' = Owner!Current(owners)
    /\ Unbound(p)' =>
          /\ Unbound(p) /\ prev'[p] = prev[p] /\ disp'[p] = disp[p] /\ want'[p] = want[p]
    /\ \A s \in Sessions : Engaged(p, s)' => Engaged(p, s)
    /\ p \in alive' /\ oPc'[p] \in Making =>
          p \in alive /\ oPc[p] \in Making /\ want'[p] = want[p]

LEMMA CalmKeeps ==
    ASSUME OwnerInv, NEW p \in Hosts, Takes(p), Calm(p)
    PROVE  RecordsAreUnique' /\ EngagedOnce'
  <1>0. None \notin Hosts /\ alive' \subseteq Hosts /\ RecordsAreUnique /\ EngagedOnce
    BY ServicesAssumption, OwnerTypesStep DEF Owner!TypeOK, OwnerInv
  <1>1. ASSUME NEW y \in Hosts, Unbound(y)'
        PROVE  Unbound(y) /\ prev'[y] = prev[y] /\ disp'[y] = disp[y] /\ want'[y] = want[y]
    BY <1>1, OthersRecords DEF Calm
  <1>2. ASSUME NEW y \in Tops'
        PROVE  /\ y \in Tops /\ Carried(y)' = Carried(y)
               /\ y # None => disp'[y] = disp[y] /\ want'[y] = want[y]
    <2>1. CASE y = None
      BY <2>1 DEF Calm, Tops, Carried
    <2>2. CASE y # None
      <3>1. y \in Hosts /\ Unbound(y)'
        BY <2>2 DEF Tops
      <3> QED
        BY <1>1, <2>2, <3>1 DEF Tops, Carried
    <2> QED
      BY <2>1, <2>2
  <1>3. ASSUME NEW q \in Hosts, NEW s \in Sessions, Engaged(q, s)' PROVE Engaged(q, s)
    BY <1>3, OthersRecords DEF Calm
  <1>4. ASSUME NEW q \in alive', oPc'[q] \in Making
        PROVE  q \in alive /\ oPc[q] \in Making /\ want'[q] = want[q]
    BY <1>0, <1>4, OthersRecords DEF Calm
  <1>5. RecordsAreUnique'
    BY <1>0, <1>2 DEF RecordsAreUnique
  <1>6. EngagedOnce'
    <2>1. ASSUME NEW q \in Hosts, NEW s \in Sessions, Engaged(q, s)', NEW y \in Tops',
                 Carried(y)'.session = s
          PROVE  Carried(y)'.pid = q \/ (y = q /\ want'[q] = s /\ disp'[q] = "reclaimed")
      <3>1. Engaged(q, s) /\ y \in Tops /\ Carried(y)' = Carried(y)
        BY <1>2, <1>3, <2>1
      <3>2. Carried(y).pid = q \/ (y = q /\ want[q] = s /\ disp[q] = "reclaimed")
        BY <1>0, <2>1, <3>1 DEF EngagedOnce
      <3> QED
        BY <1>0, <1>2, <3>1, <3>2
    <2>2. \A q, r \in Hosts : \A s \in Sessions : Engaged(q, s)' /\ Engaged(r, s)' => q = r
      BY <1>0, <1>3 DEF EngagedOnce
    <2>3. \A q \in alive' : oPc'[q] \in Making => \A y \in Tops' : Carried(y)'.session # want'[q]
      BY <1>0, <1>2, <1>4 DEF EngagedOnce
    <2> QED
      BY <2>1, <2>2, <2>3 DEF EngagedOnce
  <1> QED
    BY <1>5, <1>6


\* The records and engagements of the processes other than p, as RecordsAreUnique and
\* EngagedOnce see them.
LEMMA OthersTops ==
    ASSUME OwnerInv, NEW p \in Hosts, Takes(p)
    PROVE  /\ None \notin Hosts /\ None \notin Sessions /\ alive' \subseteq Hosts
           /\ RecordsAreUnique /\ EngagedOnce
           /\ None \in Tops /\ None \in Tops' /\ Tops \subseteq Hosts \cup {None}
           /\ Tops' \subseteq Hosts \cup {None}
           /\ (p \in Tops <=> Unbound(p)) /\ (p \in Tops' <=> Unbound(p)')
           /\ \A y \in Hosts \ {p} :
                 /\ y \in Tops' <=> y \in Tops
                 /\ Carried(y)' = Carried(y) /\ disp'[y] = disp[y] /\ want'[y] = want[y]
                 /\ \A s \in Sessions : Engaged(y, s)' <=> Engaged(y, s)
                 /\ y \in alive' /\ oPc'[y] \in Making <=> y \in alive /\ oPc[y] \in Making
           /\ Carried(None) = Owner!Current(owners) /\ Carried(None)' = Owner!Current(owners)'
           /\ Carried(p) = prev[p] /\ Carried(p)' = prev'[p]
  <1>1. None \notin Hosts /\ None \notin Sessions /\ alive' \subseteq Hosts
    BY ServicesAssumption, OwnerTypesStep DEF Owner!TypeOK
  <1>2. ASSUME NEW y \in Hosts \ {p}
        PROVE  /\ y \in Tops' <=> y \in Tops
               /\ Carried(y)' = Carried(y) /\ disp'[y] = disp[y] /\ want'[y] = want[y]
               /\ \A s \in Sessions : Engaged(y, s)' <=> Engaged(y, s)
               /\ y \in alive' /\ oPc'[y] \in Making <=> y \in alive /\ oPc[y] \in Making
    BY <1>1, OthersRecords DEF Tops, Carried
  <1> QED
    BY <1>1, <1>2 DEF Tops, Carried, OwnerInv

LEMMA LoadKeeps ==
    ASSUME OwnerInv, NEW p \in Hosts, Takes(p), Owner!Load(p)
    PROVE  RecordsAreUnique' /\ EngagedOnce'
  <1> DEFINE top == Owner!Current(owners)
  <1>0. /\ UNCHANGED <<owners, alive, want, prev, disp, holds>>
        /\ p \in alive /\ oPc[p] \in {"idle", "load"}
        /\ \/ oPc'[p] = "inspect" /\ cur'[p] = top /\ top.session \in Sessions
           \/ oPc'[p] = "create"
    <2>1. top.session # None => top.session \in Sessions
      BY DEF OwnerInv, Lives, Known
    <2> QED
      BY <2>1 DEF Owner!Load, Owner!At, Owner!Goto, Owner!chains, OwnerInv, Owner!TypeOK
  <1>1. ~Unbound(p) /\ ~Unbound(p)' /\ oPc'[p] \notin Making /\ Owner!Current(owners)' = top
    BY <1>0 DEF Unbound, Making, Owner!Current
  <1>2. ASSUME NEW s \in Sessions, Engaged(p, s)', ~Engaged(p, s)
        PROVE  top.session = s /\ top.pid = p
    BY <1>0, <1>2 DEF Engaged, Making, Removing
  <1> HIDE DEF top
  <1>3. CASE \A s \in Sessions : Engaged(p, s)' => Engaged(p, s)
    <2>1. Calm(p)
      BY <1>1, <1>3 DEF Calm, top
    <2> QED
      BY <2>1, CalmKeeps
  <1>4. CASE ~ \A s \in Sessions : Engaged(p, s)' => Engaged(p, s)
    <2>1. PICK s \in Sessions : Engaged(p, s)' /\ ~Engaged(p, s)
      BY <1>4
    <2>2. top.session = s /\ top.pid = p
      BY <1>2, <2>1
    <2>3. \A t \in Sessions : Engaged(p, t)' => Engaged(p, t) \/ t = s
      BY <1>2, <2>2
    <2>4. /\ Tops' = Tops /\ \A y \in Tops : Carried(y)' = Carried(y)
          /\ Carried(None) = top
      BY <1>0, <1>1, OthersTops DEF top
    <2>5. RecordsAreUnique'
      BY <1>0, <2>4, OthersTops DEF RecordsAreUnique
    <2>6. ASSUME NEW q \in Hosts, Engaged(q, s) PROVE FALSE
      BY <2>1, <2>2, <2>4, <2>6, OthersTops DEF EngagedOnce
    <2>7. ASSUME NEW y \in Tops, Carried(y).session = s PROVE y = None
      BY <1>1, <2>2, <2>4, <2>7, OthersTops DEF RecordsAreUnique
    <2>8. \A q, r \in Hosts : \A t \in Sessions : Engaged(q, t)' /\ Engaged(r, t)' => q = r
      BY <2>3, <2>6, OthersTops DEF EngagedOnce
    <2>9. ASSUME NEW q \in Hosts, NEW t \in Sessions, Engaged(q, t)', NEW y \in Tops',
                 Carried(y)'.session = t
          PROVE  Carried(y)'.pid = q \/ (y = q /\ want'[q] = t /\ disp'[q] = "reclaimed")
      <3>1. CASE Engaged(q, t)
        BY <1>0, <2>4, <2>9, <3>1, OthersTops DEF EngagedOnce
      <3>2. CASE ~Engaged(q, t)
        BY <2>2, <2>3, <2>4, <2>7, <2>9, <3>2, OthersTops
      <3> QED
        BY <3>1, <3>2
    <2>10. \A q \in alive' : oPc'[q] \in Making => \A y \in Tops' : Carried(y)'.session # want'[q]
      BY <1>0, <1>1, <2>4, OthersTops DEF EngagedOnce
    <2> QED
      BY <2>5, <2>8, <2>9, <2>10 DEF EngagedOnce
  <1> QED
    BY <1>3, <1>4

LEMMA CreateKeeps ==
    ASSUME OwnerInv, NEW p \in Hosts, Takes(p), Owner!CreateDirectory(p)
    PROVE  RecordsAreUnique' /\ EngagedOnce'
  <1>1. PICK s \in Sessions : disk[s] = "none" /\ want' = [want EXCEPT ![p] = s]
    BY DEF Owner!CreateDirectory
  <1>2. /\ UNCHANGED <<owners, alive, cur, prev, disp, holds>>
        /\ p \in alive /\ oPc[p] = "create" /\ oPc'[p] = "list" /\ want'[p] = s
    BY <1>1 DEF Owner!CreateDirectory, Owner!At, Owner!Goto, Owner!chains, OwnerInv,
                Owner!TypeOK
  <1>3. ~Unbound(p) /\ ~Unbound(p)' /\ Owner!Current(owners)' = Owner!Current(owners)
    BY <1>2 DEF Unbound, Owner!Current
  <1>4. \A t \in Sessions : Engaged(p, t)' => Engaged(p, t) \/ t = s
    BY <1>2 DEF Engaged, Making, Removing
  <1>5. Tops' = Tops /\ \A y \in Tops : Carried(y)' = Carried(y)
    BY <1>2, <1>3, OthersTops
  <1>6. /\ \A q \in Hosts : ~Engaged(q, s)
        /\ \A y \in Tops : Carried(y).session # s
    BY <1>1, OthersTops DEF OwnerInv, SessionsExist
  <1>7. RecordsAreUnique'
    BY <1>2, <1>5, OthersTops DEF RecordsAreUnique
  <1>8. \A q, r \in Hosts : \A t \in Sessions : Engaged(q, t)' /\ Engaged(r, t)' => q = r
    BY <1>4, <1>6, OthersTops DEF EngagedOnce
  <1>9. ASSUME NEW q \in Hosts, NEW t \in Sessions, Engaged(q, t)', NEW y \in Tops',
               Carried(y)'.session = t
        PROVE  Carried(y)'.pid = q \/ (y = q /\ want'[q] = t /\ disp'[q] = "reclaimed")
    <2>1. Engaged(q, t) /\ y \in Tops /\ Carried(y).session = t /\ Carried(y)' = Carried(y)
      BY <1>4, <1>5, <1>6, <1>9, OthersTops
    <2>2. Carried(y).pid = q \/ (y = q /\ want[q] = t /\ disp[q] = "reclaimed")
      BY <1>9, <2>1, OthersTops DEF EngagedOnce
    <2>3. y # p
      BY <1>3, <2>1, OthersTops
    <2> QED
      BY <2>1, <2>2, <2>3, OthersTops
  <1>10. \A q \in alive' : oPc'[q] \in Making => \A y \in Tops' : Carried(y)'.session # want'[q]
    BY <1>2, <1>5, <1>6, OthersTops DEF EngagedOnce
  <1> QED
    BY <1>7, <1>8, <1>9, <1>10 DEF EngagedOnce

\* A step that puts a record of its process over the current one.
Replaces(p, s) ==
    /\ p \in alive /\ s \in Sessions /\ ~Unbound(p) /\ Unbound(p)'
    /\ Owner!Current(owners)'.session = s /\ Owner!Current(owners)'.pid = p
    /\ prev'[p] = Owner!Current(owners) /\ oPc'[p] \notin Making
    /\ \A t \in Sessions : Engaged(p, t)' => Engaged(p, t) \/ t = s

LEMMA ReclaimKeeps ==
    ASSUME OwnerInv, NEW p \in Hosts, Takes(p), NEW s \in Sessions, Replaces(p, s),
           disp'[p] = "reclaimed", want'[p] = s,
           Owner!Current(owners).session = s, Owner!Current(owners).pid \notin alive
    PROVE  RecordsAreUnique' /\ EngagedOnce'
  <1>0. \A y \in Hosts : Unbound(y) => y \in alive
    BY DEF Unbound
  <1>1. ASSUME NEW q \in Hosts, Engaged(q, s) PROVE FALSE
    BY <1>1, OthersTops DEF EngagedOnce, Engaged
  <1>2. ASSUME NEW y \in Tops, Carried(y).session = s PROVE y = None
    <2>1. CASE y # None
      <3>1. Carried(None).pid = y
        BY <1>2, <2>1, OthersTops DEF RecordsAreUnique
      <3>2. y \in alive
        BY <1>0, <2>1 DEF Tops
      <3> QED
        BY <3>1, <3>2, OthersTops
    <2> QED
      BY <2>1
  <1>3. /\ Carried(None)'.session = s /\ Carried(None)'.pid = p /\ Carried(p)' = Carried(None)
        /\ Tops' = Tops \cup {p} /\ p \notin Tops
    BY OthersTops DEF Replaces
  <1>4. \A y \in Tops \ {None} : y # p /\ Carried(y)' = Carried(y) /\ Carried(y).session # s
                                 /\ disp'[y] = disp[y] /\ want'[y] = want[y]
    BY <1>2, <1>3, OthersTops
  <1>5. RecordsAreUnique'
    <2>1. ASSUME NEW y \in Tops', NEW z \in Tops', y # z,
                 Carried(y)'.session = Carried(z)'.session, Carried(y)'.session # None
          PROVE  \/ z # None /\ disp'[z] = "reclaimed" /\ Carried(y)'.pid = z
                 \/ y # None /\ disp'[y] = "reclaimed" /\ Carried(z)'.pid = y
      <3>1. CASE {y, z} = {None, p}
        BY <1>3, <2>1, <3>1, OthersTops
      <3>2. CASE y \notin {None, p} /\ z \notin {None, p}
        BY <1>3, <1>4, <2>1, <3>2, OthersTops DEF RecordsAreUnique
      <3>3. CASE y \in {None, p} /\ z \notin {None, p}
        BY <1>3, <1>4, <2>1, <3>3, OthersTops
      <3>4. CASE y \notin {None, p} /\ z \in {None, p}
        BY <1>3, <1>4, <2>1, <3>4, OthersTops
      <3> QED
        BY <2>1, <3>1, <3>2, <3>3, <3>4
    <2> QED
      BY <2>1 DEF RecordsAreUnique
  <1>6. \A q \in Hosts, t \in Sessions : Engaged(q, t)' => Engaged(q, t) \/ (q = p /\ t = s)
    BY OthersTops DEF Replaces
  <1>7. \A q, r \in Hosts : \A t \in Sessions : Engaged(q, t)' /\ Engaged(r, t)' => q = r
    BY <1>1, <1>6, OthersTops DEF EngagedOnce
  <1>8. ASSUME NEW q \in Hosts, NEW t \in Sessions, Engaged(q, t)', NEW y \in Tops',
               Carried(y)'.session = t
        PROVE  Carried(y)'.pid = q \/ (y = q /\ want'[q] = t /\ disp'[q] = "reclaimed")
    <2>1. CASE t = s
      BY <1>1, <1>3, <1>4, <1>6, <1>8, <2>1, OthersTops
    <2>2. CASE t # s
      <3>1. y \in Tops \ {None} /\ Engaged(q, t)
        BY <1>3, <1>6, <1>8, <2>2, OthersTops
      <3>2. Carried(y).pid = q \/ (y = q /\ want[q] = t /\ disp[q] = "reclaimed")
        BY <1>4, <1>8, <3>1, OthersTops DEF EngagedOnce
      <3> QED
        BY <1>4, <3>1, <3>2
    <2> QED
      BY <2>1, <2>2
  <1>9. \A q \in alive' : oPc'[q] \in Making => \A y \in Tops' : Carried(y)'.session # want'[q]
    <2>1. ASSUME NEW q \in alive', oPc'[q] \in Making, NEW y \in Tops'
          PROVE  Carried(y)'.session # want'[q]
      <3>1. q # p /\ q \in alive /\ oPc[q] \in Making /\ want'[q] = want[q]
        BY <2>1, OthersTops DEF Replaces
      <3>2. \A z \in Tops : Carried(z).session # want[q]
        BY <3>1, OthersTops DEF EngagedOnce
      <3> QED
        BY <1>3, <1>4, <3>1, <3>2, OthersTops
    <2> QED
      BY <2>1
  <1> QED
    BY <1>5, <1>7, <1>8, <1>9 DEF EngagedOnce

LEMMA ClaimKeeps ==
    ASSUME OwnerInv, NEW p \in Hosts, Takes(p), NEW s \in Sessions, Replaces(p, s),
           oPc[p] \in Making, want[p] = s
    PROVE  RecordsAreUnique' /\ EngagedOnce'
  <1>1. Engaged(p, s) /\ \A y \in Tops : Carried(y).session # s
    BY OthersTops DEF EngagedOnce, Engaged, Replaces
  <1>3. /\ Carried(None)'.session = s /\ Carried(None)'.pid = p /\ Carried(p)' = Carried(None)
        /\ Tops' = Tops \cup {p} /\ p \notin Tops
    BY OthersTops DEF Replaces
  <1>4. \A y \in Tops \ {None} : y # p /\ Carried(y)' = Carried(y)
                                 /\ disp'[y] = disp[y] /\ want'[y] = want[y]
    BY <1>3, OthersTops
  <1>5. RecordsAreUnique'
    <2>1. ASSUME NEW y \in Tops', NEW z \in Tops', y # z,
                 Carried(y)'.session = Carried(z)'.session, Carried(y)'.session # None
          PROVE  \/ z # None /\ disp'[z] = "reclaimed" /\ Carried(y)'.pid = z
                 \/ y # None /\ disp'[y] = "reclaimed" /\ Carried(z)'.pid = y
      <3>1. y # None /\ z # None
        BY <1>1, <1>3, <1>4, <2>1, OthersTops
      <3>2. CASE y # p /\ z # p
        BY <1>3, <1>4, <2>1, <3>1, <3>2, OthersTops DEF RecordsAreUnique
      <3>3. CASE y = p /\ z # p
        BY <1>3, <1>4, <2>1, <3>1, <3>3, OthersTops DEF RecordsAreUnique
      <3>4. CASE y # p /\ z = p
        BY <1>3, <1>4, <2>1, <3>1, <3>4, OthersTops DEF RecordsAreUnique
      <3> QED
        BY <2>1, <3>2, <3>3, <3>4
    <2> QED
      BY <2>1 DEF RecordsAreUnique
  <1>6. \A q \in Hosts, t \in Sessions : Engaged(q, t)' => Engaged(q, t)
    BY <1>1, OthersTops DEF Replaces
  <1>7. \A q, r \in Hosts : \A t \in Sessions : Engaged(q, t)' /\ Engaged(r, t)' => q = r
    BY <1>6, OthersTops DEF EngagedOnce
  <1>8. ASSUME NEW q \in Hosts, NEW t \in Sessions, Engaged(q, t)', NEW y \in Tops',
               Carried(y)'.session = t
        PROVE  Carried(y)'.pid = q \/ (y = q /\ want'[q] = t /\ disp'[q] = "reclaimed")
    <2>1. Engaged(q, t)
      BY <1>6, <1>8
    <2>2. CASE y = None
      BY <1>1, <1>3, <1>8, <2>1, <2>2, OthersTops DEF EngagedOnce
    <2>3. CASE y = p
      BY <1>3, <1>8, <2>1, <2>3, OthersTops DEF EngagedOnce
    <2>4. CASE y \notin {None, p}
      <3>1. Carried(y).pid = q \/ (y = q /\ want[q] = t /\ disp[q] = "reclaimed")
        BY <1>3, <1>4, <1>8, <2>1, <2>4, OthersTops DEF EngagedOnce
      <3> QED
        BY <1>3, <1>4, <1>8, <2>4, <3>1
    <2> QED
      BY <2>2, <2>3, <2>4
  <1>9. \A q \in alive' : oPc'[q] \in Making => \A y \in Tops' : Carried(y)'.session # want'[q]
    <2>1. ASSUME NEW q \in alive', oPc'[q] \in Making, NEW y \in Tops'
          PROVE  Carried(y)'.session # want'[q]
      <3>1. q # p /\ q \in Hosts /\ q \in alive /\ oPc[q] \in Making /\ want'[q] = want[q]
        BY <2>1, OthersTops DEF Replaces
      <3>2. \A z \in Tops : Carried(z).session # want[q]
        BY <3>1, OthersTops DEF EngagedOnce
      <3>3. want[q] # s
        <4>1. want[q] = s => Engaged(q, s)
          BY <3>1 DEF Engaged
        <4> QED
          BY <1>1, <3>1, <4>1, OthersTops DEF EngagedOnce
      <3> QED
        BY <1>3, <1>4, <3>1, <3>2, <3>3, OthersTops
    <2> QED
      BY <2>1
  <1> QED
    BY <1>5, <1>7, <1>8, <1>9 DEF EngagedOnce


LEMMA RestoreKeeps ==
    ASSUME OwnerInv, NEW p \in Hosts, Takes(p), Owner!Restore(p), owners' # owners
    PROVE  RecordsAreUnique' /\ EngagedOnce'
  <1> DEFINE w == want[p]
  <1>0. /\ Owner!TypeOK /\ p \in alive /\ PlaceHolds(p) /\ ReadHolds(p)
        /\ oPc[p] = "restore" /\ seen[p] = Len(owners) /\ owners' = Append(owners, prev[p])
        /\ UNCHANGED <<alive, want, prev, disp, holds>>
    BY DEF Owner!Restore, Owner!At, Owner!LinkOwner, Owner!claim, OwnerInv, PlacesHold, ReadsHold
  <1>1. /\ w \in Sessions /\ w \notin holds[p] /\ disp[p] \in {"created", "reclaimed"}
        /\ disp[p] = "reclaimed" => prev[p].session = w
        /\ Owner!Current(owners).session = w /\ Owner!Current(owners).pid = p
    BY <1>0 DEF PlaceHolds, ReadHolds
  <1>2. Owner!Current(owners)' = prev[p]
    <2>1. owners \in Seq(Owner!Record) /\ prev[p] \in Owner!Record
      BY <1>0 DEF Owner!TypeOK
    <2>2. Owner!Current(Append(owners, prev[p])) = prev[p]
      BY <2>1, CurrentOfAppend
    <2> QED
      BY <1>0, <2>2 DEF Owner!Current
  <1>3. /\ oPc'[p] \in {"restamp", "unname"}
        /\ disp[p] = "reclaimed" => oPc'[p] = "restamp"
    BY <1>0, <1>1, ServicesAssumption
       DEF Owner!Restore, Owner!Goto, Owner!TypeOK
  <1>4. Unbound(p) /\ ~Unbound(p)' /\ oPc'[p] \notin Making
    BY <1>0, <1>1, <1>3 DEF Unbound, Making
  <1>5. \A t \in Sessions : Engaged(p, t)' => Engaged(p, t) \/ (t = w /\ disp[p] = "created")
    BY <1>0, <1>1, <1>3 DEF Engaged, Making, Removing
  <1>6. ~Engaged(p, w)
    BY <1>0, <1>1 DEF Engaged, Making, Removing
  <1> HIDE DEF w
  <1>7. /\ Tops = Tops' \cup {p} /\ p \notin Tops' /\ Carried(None)' = Carried(p)
        /\ Carried(None).session = w /\ Carried(None).pid = p
    BY <1>1, <1>2, <1>4, OthersTops
  <1>8. \A y \in Tops' \ {None} : y # p /\ y \in Tops /\ Carried(y)' = Carried(y)
                                  /\ disp'[y] = disp[y] /\ want'[y] = want[y]
    BY <1>7, OthersTops
  <1>9. ASSUME NEW q \in Hosts PROVE ~Engaged(q, w)
    BY <1>1, <1>6, <1>7, OthersTops DEF EngagedOnce
  <1>10. ASSUME NEW y \in Tops' \ {None} PROVE Carried(y).session # w
    <2>1. ASSUME Carried(y).session = w PROVE Carried(None).pid = y
      BY <1>1, <1>7, <1>8, <2>1, OthersTops DEF RecordsAreUnique
    <2> QED
      BY <1>7, <1>8, <2>1
  <1>11. disp[p] = "created" => Carried(p).session # w
    BY <1>1, <1>7, OthersTops DEF RecordsAreUnique
  <1>12. disp[p] = "reclaimed" => Carried(p).session = w
    BY <1>1, OthersTops
  <1>13. RecordsAreUnique'
    <2>1. ASSUME NEW y \in Tops', NEW z \in Tops', y # z,
                 Carried(y)'.session = Carried(z)'.session, Carried(y)'.session # None
          PROVE  \/ z # None /\ disp'[z] = "reclaimed" /\ Carried(y)'.pid = z
                 \/ y # None /\ disp'[y] = "reclaimed" /\ Carried(z)'.pid = y
      <3>1. disp[p] = "reclaimed" => y # None /\ z # None
        BY <1>7, <1>8, <1>10, <1>12, <2>1
      <3>2. CASE y # None /\ z # None
        BY <1>8, <2>1, <3>2, OthersTops DEF RecordsAreUnique
      <3>3. CASE y = None /\ z # None
        <4>1. Carried(p).session = Carried(z).session /\ Carried(p).session # None /\ z # p
          BY <1>7, <1>8, <2>1, <3>3
        <4>2. disp[z] = "reclaimed" /\ Carried(p).pid = z
          BY <1>1, <1>7, <1>8, <3>1, <3>3, <4>1, OthersTops DEF RecordsAreUnique
        <4> QED
          BY <1>7, <1>8, <3>3, <4>2
      <3>4. CASE y # None /\ z = None
        <4>1. Carried(p).session = Carried(y).session /\ Carried(p).session # None /\ y # p
          BY <1>7, <1>8, <2>1, <3>4
        <4>2. disp[y] = "reclaimed" /\ Carried(p).pid = y
          BY <1>1, <1>7, <1>8, <3>1, <3>4, <4>1, OthersTops DEF RecordsAreUnique
        <4> QED
          BY <1>7, <1>8, <3>4, <4>2
      <3> QED
        BY <2>1, <3>2, <3>3, <3>4
    <2> QED
      BY <2>1 DEF RecordsAreUnique
  <1>14. \A q \in Hosts, t \in Sessions :
             Engaged(q, t)' => Engaged(q, t) \/ (q = p /\ t = w /\ disp[p] = "created")
    BY <1>5, OthersTops
  <1>15. \A q, r \in Hosts : \A t \in Sessions : Engaged(q, t)' /\ Engaged(r, t)' => q = r
    BY <1>9, <1>14, OthersTops DEF EngagedOnce
  <1>16. ASSUME NEW q \in Hosts, NEW t \in Sessions, Engaged(q, t)', NEW y \in Tops',
                Carried(y)'.session = t
         PROVE  Carried(y)'.pid = q \/ (y = q /\ want'[q] = t /\ disp'[q] = "reclaimed")
    <2>1. CASE t = w
      BY <1>7, <1>8, <1>9, <1>10, <1>11, <1>14, <1>16, <2>1
    <2>2. CASE t # w /\ y = None
      <3>1. Engaged(q, t) /\ Carried(p).session = t /\ disp[p] # "reclaimed"
        BY <1>7, <1>12, <1>14, <1>16, <2>2
      <3>2. Carried(p).pid = q
        BY <1>7, <3>1, OthersTops DEF EngagedOnce
      <3> QED
        BY <1>7, <2>2, <3>2
    <2>3. CASE t # w /\ y # None
      <3>1. Engaged(q, t)
        BY <1>14, <1>16, <2>3
      <3>2. Carried(y).pid = q \/ (y = q /\ want[q] = t /\ disp[q] = "reclaimed")
        BY <1>8, <1>16, <2>3, <3>1, OthersTops DEF EngagedOnce
      <3> QED
        BY <1>8, <1>16, <2>3, <3>2
    <2> QED
      BY <2>1, <2>2, <2>3
  <1>17. \A q \in alive' : oPc'[q] \in Making => \A y \in Tops' : Carried(y)'.session # want'[q]
    <2>1. ASSUME NEW q \in alive', oPc'[q] \in Making, NEW y \in Tops'
          PROVE  Carried(y)'.session # want'[q]
      <3>1. q # p /\ q \in alive /\ oPc[q] \in Making /\ want'[q] = want[q]
        BY <1>4, <2>1, OthersTops
      <3>2. \A z \in Tops : Carried(z).session # want[q]
        BY <3>1, OthersTops DEF EngagedOnce
      <3> QED
        BY <1>7, <1>8, <3>1, <3>2, OthersTops
    <2> QED
      BY <2>1
  <1> QED
    BY <1>13, <1>15, <1>16, <1>17 DEF EngagedOnce

\* The other steps publish nothing and engage their process no further.
LEMMA CalmSteps ==
    ASSUME OwnerInv, NEW p \in Hosts, Takes(p), owners' = owners, ~Owner!Load(p),
           ~Owner!CreateDirectory(p)
    PROVE  Calm(p)
  <1> USE DEF Owner!At, Owner!Goto, Owner!Return, Owner!Conflict, Owner!Forget, Owner!chains,
              Owner!files, Owner!claim, Owner!naming, Making, Removing
  <1>0. /\ Owner!TypeOK /\ None \notin Sessions /\ (oPc[p] = "off" => holds[p] = {})
        /\ p \in alive => PlaceHolds(p)
    BY ServicesAssumption DEF OwnerInv, PlacesHold, Lives
  <1>1. Owner!Current(owners)' = Owner!Current(owners)
    BY DEF Owner!Current
  <1> DEFINE Apart ==
        /\ Unbound(p)' =>
              /\ Unbound(p) /\ prev'[p] = prev[p] /\ disp'[p] = disp[p] /\ want'[p] = want[p]
        /\ \A s \in Sessions : Engaged(p, s)' => Engaged(p, s)
        /\ p \in alive' /\ oPc'[p] \in Making =>
              p \in alive /\ oPc[p] \in Making /\ want'[p] = want[p]
  <1>a. ASSUME p \in alive, oPc'[p] \in {"idle", "load", "create", "reclaim", "dead"},
               holds' = holds \/ p \notin alive' \/ holds'[p] \subseteq holds[p]
        PROVE  Apart
    BY <1>0, <1>a DEF Unbound, Engaged
  <1>b. ASSUME p \in alive, UNCHANGED <<alive, want, holds, prev, disp>>,
               oPc[p] \in Making, oPc'[p] \in Making
        PROVE  Apart
    BY <1>0, <1>b DEF Unbound, Engaged
  <1>2. ASSUME Owner!Boot(p) PROVE Apart
    BY <1>0, <1>2 DEF Owner!Boot, Owner!TypeOK, Unbound, Engaged
  <1>3. ASSUME Owner!Inspect(p) PROVE Apart
    <2>1. CASE oPc'[p] \in {"create", "reclaim"}
      <3>1. p \in alive /\ holds' = holds
        BY <1>0, <1>3, <2>1 DEF Owner!Inspect, Owner!TypeOK
      <3> QED
        BY <1>a, <2>1, <3>1
    <2>2. CASE oPc'[p] = "bind"
      <3>1. /\ cur[p].pid = p /\ disp'[p] = "existing"
            /\ holds'[p] = holds[p] \cup {cur[p].session}
        BY <1>0, <1>3, <2>2 DEF Owner!Inspect, Owner!TypeOK
      <3> QED
        BY <1>0, <1>3, <2>2, <3>1 DEF Owner!Inspect, Unbound, Engaged
    <2> QED
      BY <1>0, <1>3, <2>1, <2>2 DEF Owner!Inspect, Owner!TypeOK
  <1>4. ASSUME \/ Owner!Bound(p) \/ Owner!ReleaseShell(p) \/ Owner!DeleteFiles(p)
               \/ Owner!Crash(p)
        PROVE  Apart
    <2>1. /\ oPc'[p] \in {"idle", "load", "dead"} /\ p \in alive
          /\ holds' = holds \/ p \notin alive'
      BY <1>0, <1>4 DEF Owner!Bound, Owner!ReleaseShell, Owner!DeleteFiles, Owner!Crash,
                        Owner!TypeOK
    <2> QED
      BY <1>a, <2>1
  <1>5. ASSUME Owner!Reclaim(p) \/ Owner!Restore(p) PROVE Apart
    <2>1. \A r \in Owner!Record : ~Owner!LinkOwner(p, r)
      <3>1. \A r \in Owner!Record : Len(Append(owners, r)) = Len(owners) + 1 /\ Len(owners) \in Nat
        BY <1>0, CurrentOfAppend DEF Owner!TypeOK
      <3> QED
        BY <3>1 DEF Owner!LinkOwner
    <2>2. [session |-> cur[p].session, pid |-> p] \in Owner!Record /\ prev[p] \in Owner!Record
      BY <1>0 DEF Owner!TypeOK, Owner!Record
    <2>3. oPc'[p] \in {"load", "idle"} /\ p \in alive /\ holds' = holds
      BY <1>0, <1>5, <2>1, <2>2 DEF Owner!Reclaim, Owner!Restore, Owner!TypeOK
    <2> QED
      BY <1>a, <2>3
  <1>6. ASSUME Owner!Stamp(p) PROVE Apart
    <2>1. CASE oPc'[p] = "idle"
      BY <1>0, <1>6, <1>a, <2>1 DEF Owner!Stamp, Owner!TypeOK
    <2>2. CASE oPc'[p] = "bind"
      <3>1. UNCHANGED <<alive, want, prev, disp>> /\ holds'[p] = holds[p] \cup {want[p]}
        BY <1>0, <1>6, <2>2 DEF Owner!Stamp, Owner!TypeOK
      <3> QED
        BY <1>0, <1>6, <2>2, <3>1 DEF Owner!Stamp, Unbound, Engaged
    <2> QED
      BY <1>0, <1>6, <2>1, <2>2 DEF Owner!Stamp, Owner!TypeOK
  <1>7. ASSUME Owner!ClaimNew(p) PROVE Apart
    <2>1. ~Owner!LinkOwner(p, [session |-> want[p], pid |-> p])
      <3>1. [session |-> want[p], pid |-> p] \in Owner!Record
        BY <1>0 DEF Owner!TypeOK, Owner!Record
      <3>2. \A r \in Owner!Record : Len(Append(owners, r)) = Len(owners) + 1 /\ Len(owners) \in Nat
        BY <1>0, CurrentOfAppend DEF Owner!TypeOK
      <3> QED
        BY <3>1, <3>2 DEF Owner!LinkOwner
    <2>2. oPc'[p] = "unname" /\ UNCHANGED <<alive, want, prev, disp, holds>>
      BY <1>0, <1>7, <2>1 DEF Owner!ClaimNew, Owner!TypeOK
    <2> QED
      BY <1>0, <1>7, <2>2 DEF Owner!ClaimNew, Unbound, Engaged
  <1>8. ASSUME Owner!BindFails(p) PROVE Apart
    <2>1. /\ holds'[p] \subseteq holds[p] /\ p \in alive /\ oPc[p] = "bind" /\ alive' = alive
          /\ \/ oPc'[p] = "idle"
             \/ oPc'[p] = "restore" /\ UNCHANGED <<want, prev, disp>>
      BY <1>0, <1>8 DEF Owner!BindFails, Owner!TypeOK
    <2> QED
      BY <1>a, <2>1 DEF Unbound, Engaged
  <1>9. ASSUME Owner!Restamp(p) PROVE Apart
    <2>1. /\ p \in alive /\ oPc[p] = "restamp" /\ holds' = holds /\ alive' = alive
          /\ \/ oPc'[p] = "idle"
             \/ oPc'[p] = "unname" /\ disp[p] = "created" /\ UNCHANGED <<want, disp>>
      BY <1>0, <1>9 DEF Owner!Restamp, Owner!TypeOK
    <2> QED
      BY <1>a, <2>1 DEF Unbound, Engaged
  <1>10. ASSUME \/ Owner!ListNames(p) \/ Owner!LookName(p) \/ Owner!ReserveName(p)
                \/ Owner!InsertRow(p) \/ Owner!Publish(p) \/ Owner!RemoveShell(p)
         PROVE  Apart
    <2>1. p \in alive /\ UNCHANGED <<alive, want, holds, prev, disp>> /\ oPc[p] \in Making
      BY <1>10 DEF Owner!ListNames, Owner!LookName, Owner!ReserveName, Owner!InsertRow,
                   Owner!Publish, Owner!RemoveShell
    <2>2. oPc'[p] \in Making
      BY <1>0, <1>10 DEF Owner!ListNames, Owner!LookName, Owner!ReserveName, Owner!InsertRow,
                   Owner!Publish, Owner!RemoveShell, Owner!TypeOK
    <2> HIDE DEF Apart
    <2> QED
      BY <1>b, <2>1, <2>2
  <1>11. ASSUME Owner!Unname(p) PROVE Apart
    <2>1. /\ p \in alive /\ oPc[p] = "unname" /\ oPc'[p] = "delete"
          /\ UNCHANGED <<alive, want, holds>>
      BY <1>0, <1>11 DEF Owner!Unname, Owner!TypeOK
    <2> QED
      BY <2>1 DEF Unbound, Engaged
  <1>12. ASSUME Owner!Discard(p) PROVE Apart
    <2>1. PICK s \in holds[p] : /\ want' = [want EXCEPT ![p] = s]
                                /\ holds' = [holds EXCEPT ![p] = @ \ {s}]
      BY <1>12 DEF Owner!Discard
    <2>2. /\ p \in alive /\ alive' = alive /\ oPc'[p] = "unname" /\ want'[p] = s
          /\ holds'[p] \subseteq holds[p]
      BY <1>0, <1>12, <2>1 DEF Owner!Discard, Owner!TypeOK
    <2> QED
      BY <2>1, <2>2 DEF Unbound, Engaged
  <1>13. Apart
    <2> HIDE DEF Apart
    <2> QED
      BY <1>2, <1>3, <1>4, <1>5, <1>6, <1>7, <1>8, <1>9, <1>10, <1>11, <1>12
         DEF Takes, Claims, Creates
  <1> QED
    BY <1>1, <1>13 DEF Calm

LEMMA RecordsStep ==
    ASSUME OwnerInv, NEW p \in Hosts, Takes(p)
    PROVE  RecordsAreUnique' /\ EngagedOnce'
  <1> USE DEF Owner!At, Owner!Goto, Owner!Return, Owner!Conflict, Owner!chains,
              Owner!files, Owner!claim, Owner!naming, Making, Removing
  <1>0. /\ Owner!TypeOK /\ owners \in Seq(Owner!Record)
        /\ p \in alive => PlaceHolds(p) /\ ReadHolds(p)
        /\ \A s \in Sessions : [session |-> s, pid |-> p] \in Owner!Record
    BY DEF OwnerInv, Owner!TypeOK, PlacesHold, ReadsHold, Owner!Record
  <1>1. CASE owners' = owners
    BY <1>1, CalmSteps, CalmKeeps, LoadKeeps, CreateKeeps
  <1>2. CASE owners' # owners /\ Owner!Reclaim(p)
    <2> DEFINE s == cur[p].session
    <2>1. /\ p \in alive /\ oPc[p] = "reclaim" /\ seen[p] = Len(owners)
          /\ owners' = Append(owners, [session |-> s, pid |-> p])
          /\ want'[p] = s /\ prev'[p] = cur[p] /\ disp'[p] = "reclaimed" /\ oPc'[p] = "stamp"
          /\ alive' = alive /\ holds' = holds
      BY <1>0, <1>2 DEF Owner!Reclaim, Owner!LinkOwner, Owner!TypeOK
    <2>2. s \in Sessions /\ cur[p] = Owner!Current(owners) /\ cur[p].pid \notin alive
      BY <1>0, <2>1 DEF PlaceHolds, ReadHolds, Reading
    <2>3. Owner!Current(owners)' = [session |-> s, pid |-> p]
      <3>1. Owner!Current(Append(owners, [session |-> s, pid |-> p])) = [session |-> s, pid |-> p]
        BY <1>0, <2>2, CurrentOfAppend
      <3> QED
        BY <2>1, <3>1 DEF Owner!Current
    <2>4. Replaces(p, s)
      BY <2>1, <2>2, <2>3 DEF Replaces, Unbound, Engaged
    <2> QED
      BY <2>1, <2>2, <2>4, ReclaimKeeps
  <1>3. CASE owners' # owners /\ Owner!ClaimNew(p)
    <2> DEFINE s == want[p]
    <2>1. /\ p \in alive /\ oPc[p] = "claim" /\ seen[p] = Len(owners)
          /\ owners' = Append(owners, [session |-> s, pid |-> p])
          /\ want' = want /\ prev'[p] = cur[p] /\ disp'[p] = "created" /\ oPc'[p] = "bind"
          /\ alive' = alive /\ holds'[p] = holds[p] \cup {s}
      BY <1>0, <1>3 DEF Owner!ClaimNew, Owner!LinkOwner, Owner!TypeOK
    <2>2. s \in Sessions /\ cur[p] = Owner!Current(owners)
      BY <1>0, <2>1 DEF PlaceHolds, ReadHolds, Reading
    <2>3. Owner!Current(owners)' = [session |-> s, pid |-> p]
      <3>1. Owner!Current(Append(owners, [session |-> s, pid |-> p])) = [session |-> s, pid |-> p]
        BY <1>0, <2>2, CurrentOfAppend
      <3> QED
        BY <2>1, <3>1 DEF Owner!Current
    <2>4. Replaces(p, s)
      BY <2>1, <2>2, <2>3 DEF Replaces, Unbound, Engaged
    <2> QED
      BY <2>1, <2>2, <2>4, ClaimKeeps
  <1>4. owners' # owners => Owner!Reclaim(p) \/ Owner!ClaimNew(p) \/ Owner!Restore(p)
    BY DEF Takes, Claims, Creates, Owner!Boot, Owner!Load, Owner!Inspect, Owner!Stamp,
           Owner!CreateDirectory, Owner!Bound, Owner!BindFails, Owner!Restamp, Owner!Crash,
           Owner!ListNames, Owner!LookName, Owner!ReserveName, Owner!InsertRow,
           Owner!Publish, Owner!RemoveShell, Owner!ReleaseShell, Owner!Unname,
           Owner!DeleteFiles, Owner!Discard
  <1> QED
    BY <1>1, <1>2, <1>3, <1>4, RestoreKeeps


\* What the steps make of the sessions' files.
LEMMA FilesStep ==
    ASSUME OwnerInv, NEW p \in Hosts, Takes(p), NEW s \in Sessions
    PROVE  /\ disk[s] # "none" => disk'[s] # "none"
           /\ disk[s] = "row" /\ disk'[s] # "row" =>
                 Engaged(p, s) /\ want[p] = s /\ oPc[p] \in Making \cup Removing
           /\ meta'[s] # None =>
                 /\ disk'[s] = "row"
                 /\ \/ meta[s] # None /\ meta'[s].name = meta[s].name
                    \/ /\ oPc[p] = "publish" /\ p \in alive /\ want[p] = s
                       /\ meta'[s] = [name |-> name[p], pid |-> p]
                       /\ deleted' = deleted /\ names' = names /\ oPc'[p] = "claim"
  <1> USE DEF Owner!At, Owner!Goto, Owner!Return, Owner!Conflict, Owner!chains,
              Owner!files, Owner!claim, Owner!naming
  <1>0. /\ Owner!TypeOK /\ disk = [t \in Sessions |-> disk[t]] /\ SessionsExist
        /\ \A t \in Sessions : meta[t] # None => disk[t] = "row"
        /\ p \in alive => PlaceHolds(p)
    BY DEF OwnerInv, Owner!TypeOK, SessionsExist, PlacesHold
  <1>1. disk[s] # "none" => disk'[s] # "none"
    <2>1. CASE \E t \in Sessions : disk' = [disk EXCEPT ![t] = "dir"] /\ disk[t] = "none"
      BY <1>0, <2>1
    <2>2. CASE \E t, d : disk' = [disk EXCEPT ![t] = d] /\ d \in {"row", "gone"}
      BY <1>0, <2>2
    <2>3. CASE disk' = disk
      BY <2>3
    <2>4. Owner!CreateDirectory(p) =>
            \E t \in Sessions : disk' = [disk EXCEPT ![t] = "dir"] /\ disk[t] = "none"
      BY DEF Owner!CreateDirectory
    <2>5. \/ Owner!CreateDirectory(p)
          \/ \E t, d : disk' = [disk EXCEPT ![t] = d] /\ d \in {"row", "gone"}
          \/ disk' = disk
      BY DEF Takes, Claims, Creates, Owner!Boot, Owner!Load, Owner!Inspect, Owner!Reclaim,
           Owner!Stamp, Owner!ClaimNew, Owner!Bound, Owner!BindFails, Owner!Restore,
           Owner!Restamp, Owner!Crash, Owner!ListNames, Owner!LookName, Owner!ReserveName,
           Owner!InsertRow, Owner!Publish, Owner!RemoveShell, Owner!ReleaseShell,
           Owner!Unname, Owner!DeleteFiles, Owner!Discard, Owner!RemoveFiles
    <2> QED
      BY <2>1, <2>2, <2>3, <2>4, <2>5
  <1>2. ASSUME meta'[s] # None
        PROVE  \/ meta[s] # None /\ meta'[s].name = meta[s].name
               \/ /\ oPc[p] = "publish" /\ p \in alive /\ want[p] = s
                  /\ meta'[s] = [name |-> name[p], pid |-> p]
                  /\ deleted' = deleted /\ names' = names /\ oPc'[p] = "claim"
    <2>0. meta[s] # None => meta[s] \in [name : Names, pid : Hosts]
      BY <1>0 DEF Owner!TypeOK
    <2>1. CASE meta' = meta
      BY <1>2, <2>1
    <2>2. CASE \E t, h : meta' = [meta EXCEPT ![t].pid = h] /\ meta[t] # None
      <3>1. PICK t, h : meta' = [meta EXCEPT ![t].pid = h] /\ meta[t] # None
        BY <2>2
      <3>2. CASE t = s
        <4>1. meta'[s] = [meta[s] EXCEPT !.pid = h] /\ meta[s] \in [name : Names, pid : Hosts]
          BY <1>0, <2>0, <3>1, <3>2 DEF Owner!TypeOK
        <4> QED
          BY <3>1, <3>2, <4>1
      <3>3. CASE t # s
        BY <1>0, <1>2, <3>1, <3>3 DEF Owner!TypeOK
      <3> QED
        BY <3>2, <3>3
    <2>3. CASE \E t : meta' = [meta EXCEPT ![t] = None]
      BY <1>0, <1>2, <2>3 DEF Owner!TypeOK
    <2>4. CASE Owner!Publish(p) /\ meta' # meta
      BY <1>0, <1>2, <2>4 DEF Owner!Publish, Owner!TypeOK
    <2>5. CASE Owner!Stamp(p) \/ Owner!Restamp(p)
      <3>1. meta' = meta \/ \E t, h : meta' = [meta EXCEPT ![t].pid = h] /\ meta[t] # None
        BY <2>5 DEF Owner!Stamp, Owner!Restamp
      <3> QED
        BY <2>1, <2>2, <3>1
    <2>6. \/ meta' = meta \/ (\E t : meta' = [meta EXCEPT ![t] = None])
          \/ Owner!Publish(p) \/ Owner!Stamp(p) \/ Owner!Restamp(p)
      BY DEF Takes, Claims, Creates, Owner!Boot, Owner!Load, Owner!Inspect, Owner!Reclaim,
           Owner!CreateDirectory, Owner!ClaimNew, Owner!Bound, Owner!BindFails, Owner!Restore,
           Owner!Crash, Owner!ListNames, Owner!LookName, Owner!ReserveName,
           Owner!InsertRow, Owner!RemoveShell, Owner!ReleaseShell,
           Owner!Unname, Owner!DeleteFiles, Owner!Discard, Owner!RemoveFiles
    <2> QED
      BY <2>1, <2>3, <2>4, <2>5, <2>6
  <1>3. meta'[s] # None => disk'[s] = "row"
    <2>1. ASSUME meta'[s] # None, disk[s] # "row" PROVE FALSE
      <3>1. oPc[p] = "publish" /\ p \in alive /\ want[p] = s
        BY <1>0, <1>2, <2>1
      <3> QED
        BY <1>0, <2>1, <3>1 DEF SessionsExist
    <2>2. ASSUME meta'[s] # None, disk[s] = "row", disk'[s] # "row" PROVE FALSE
      <3>1. Owner!RemoveShell(p) \/ Owner!DeleteFiles(p)
        <4>1. CASE Owner!CreateDirectory(p)
          <5>1. PICK t \in Sessions : disk' = [disk EXCEPT ![t] = "dir"] /\ disk[t] = "none"
            BY <4>1 DEF Owner!CreateDirectory
          <5> QED
            BY <1>0, <2>2, <5>1
        <4>2. CASE Owner!InsertRow(p)
          BY <1>0, <2>2, <4>2 DEF Owner!InsertRow
        <4>3. \/ disk' = disk \/ Owner!CreateDirectory(p) \/ Owner!InsertRow(p)
              \/ Owner!RemoveShell(p) \/ Owner!DeleteFiles(p)
          BY DEF Takes, Claims, Creates, Owner!Boot, Owner!Load, Owner!Inspect, Owner!Reclaim,
           Owner!Stamp, Owner!ClaimNew, Owner!Bound, Owner!BindFails, Owner!Restore,
           Owner!Restamp, Owner!Crash, Owner!ListNames, Owner!LookName, Owner!ReserveName,
           Owner!Publish, Owner!ReleaseShell, Owner!Unname, Owner!Discard
        <4> QED
          BY <2>2, <4>1, <4>2, <4>3
      <3>2. Owner!RemoveFiles(want[p])
        BY <3>1 DEF Owner!RemoveShell, Owner!DeleteFiles
      <3>3. disk' = [disk EXCEPT ![want[p]] = "gone"] /\ meta' = [meta EXCEPT ![want[p]] = None]
        BY <3>2 DEF Owner!RemoveFiles
      <3> QED
        BY <1>0, <2>2, <3>3 DEF Owner!TypeOK
    <2> QED
      BY <2>1, <2>2
  <1> QED
    BY <1>1, <1>2, <1>3, RemoverIsEngaged


\* Where the records and engagements of a step come from.
LEMMA WhatIsNew ==
    ASSUME OwnerInv, NEW p \in Hosts, Takes(p)
    PROVE  /\ \A y \in Tops' : \/ \E z \in Tops : Carried(y)' = Carried(z)
                               \/ Carried(y)'.session \in Sessions
                                     /\ disk[Carried(y)'.session] # "none"
           /\ \A s \in Sessions : Engaged(p, s)' =>
                 \/ Engaged(p, s) \/ disk[s] # "none" \/ disk'[s] # "none"
  <1> USE DEF Owner!At, Owner!Goto, Owner!Return, Owner!Conflict, Owner!chains,
              Owner!files, Owner!claim, Owner!naming, Making, Removing
  <1>0. /\ Owner!TypeOK /\ owners \in Seq(Owner!Record) /\ SessionsExist
        /\ p \in alive => PlaceHolds(p) /\ ReadHolds(p)
        /\ \A s \in Sessions : [session |-> s, pid |-> p] \in Owner!Record
        /\ None \in Tops /\ Carried(None) = Owner!Current(owners)
    BY OthersTops DEF OwnerInv, Owner!TypeOK, PlacesHold, ReadsHold, Owner!Record
  <1>a. ASSUME Calm(p)
        PROVE  /\ \A y \in Tops' : \E z \in Tops : Carried(y)' = Carried(z)
               /\ \A s \in Sessions : Engaged(p, s)' => Engaged(p, s)
    <2>1. ASSUME NEW y \in Tops' PROVE \E z \in Tops : Carried(y)' = Carried(z)
      <3>1. CASE y = None
        BY <1>0, <1>a, <3>1, OthersTops DEF Calm
      <3>2. CASE y = p
        BY <1>a, <2>1, <3>2, OthersTops DEF Calm
      <3>3. CASE y \notin {None, p}
        BY <2>1, <3>3, OthersTops
      <3> QED
        BY <3>1, <3>2, <3>3
    <2> QED
      BY <1>a, <2>1 DEF Calm
  <1>1. CASE Owner!Load(p) \/ Owner!CreateDirectory(p)
    <2>1. UNCHANGED <<owners, alive, prev, disp, holds>> /\ p \in alive
      BY <1>1 DEF Owner!Load, Owner!CreateDirectory
    <2>2. /\ oPc'[p] \in {"inspect", "create", "list"} /\ oPc[p] \in {"idle", "load", "create"}
          /\ oPc'[p] = "inspect" => cur'[p] = Owner!Current(owners)
          /\ oPc'[p] = "list" => \A s \in Sessions : want'[p] = s => disk'[s] # "none"
      <3>1. CASE Owner!Load(p)
        BY <1>0, <3>1 DEF Owner!Load, Owner!TypeOK
      <3>2. CASE Owner!CreateDirectory(p)
        <4>1. PICK s \in Sessions : /\ want' = [want EXCEPT ![p] = s]
                                    /\ disk' = [disk EXCEPT ![s] = "dir"]
          BY <3>2 DEF Owner!CreateDirectory
        <4>2. want'[p] = s /\ disk'[s] = "dir" /\ oPc'[p] = "list" /\ oPc[p] = "create"
          BY <1>0, <3>2, <4>1 DEF Owner!CreateDirectory, Owner!TypeOK
        <4> QED
          BY <4>2
      <3> QED
        BY <1>1, <3>1, <3>2
    <2>3. ~Unbound(p)' /\ Owner!Current(owners)' = Owner!Current(owners)
      BY <2>1, <2>2 DEF Unbound, Owner!Current
    <2>4. \A y \in Tops' : \E z \in Tops : Carried(y)' = Carried(z)
      BY <1>0, <2>3, OthersTops
    <2>5. ASSUME NEW s \in Sessions, Engaged(p, s)'
          PROVE  Engaged(p, s) \/ disk[s] # "none" \/ disk'[s] # "none"
      <3>1. \/ s \in holds[p]
            \/ oPc'[p] = "list" /\ want'[p] = s
            \/ oPc'[p] = "inspect" /\ cur'[p].session = s
        BY <2>1, <2>2, <2>5 DEF Engaged
      <3>2. CASE s \in holds[p]
        BY <2>1, <3>2 DEF Engaged
      <3>3. CASE oPc'[p] = "inspect" /\ cur'[p].session = s
        BY <1>0, <2>2, <3>3, ServicesAssumption DEF SessionsExist
      <3> QED
        BY <2>2, <3>1, <3>2, <3>3
    <2> QED
      BY <2>4, <2>5
  <1>2. CASE owners' = owners /\ ~Owner!Load(p) /\ ~Owner!CreateDirectory(p)
    BY <1>2, <1>a, CalmSteps
  <1>3. CASE owners' # owners
    <2>1. Owner!Reclaim(p) \/ Owner!ClaimNew(p) \/ Owner!Restore(p)
      BY <1>3 DEF Takes, Claims, Creates, Owner!Boot, Owner!Load, Owner!Inspect, Owner!Stamp,
           Owner!CreateDirectory, Owner!Bound, Owner!BindFails, Owner!Restamp, Owner!Crash,
           Owner!ListNames, Owner!LookName, Owner!ReserveName, Owner!InsertRow,
           Owner!Publish, Owner!RemoveShell, Owner!ReleaseShell, Owner!Unname,
           Owner!DeleteFiles, Owner!Discard
    <2>2. PICK r \in {[session |-> cur[p].session, pid |-> p],
                     [session |-> want[p], pid |-> p], prev[p]} : owners' = Append(owners, r)
      BY <1>3, OwnerEffects
    <2>3. p \in alive /\ disk' = disk
      BY <2>1 DEF Owner!Reclaim, Owner!ClaimNew, Owner!Restore
    <2>4. /\ r \in Owner!Record
          /\ \/ r.session \in Sessions /\ disk[r.session] # "none"
             \/ r = Carried(p) /\ p \in Tops
          /\ prev'[p] = Owner!Current(owners) \/ ~Unbound(p)'
          /\ \A s \in Sessions : Engaged(p, s)' => Engaged(p, s) \/ disk[s] # "none"
      <3>1. CASE Owner!Reclaim(p)
        <4>1. /\ oPc[p] = "reclaim" /\ seen[p] = Len(owners) /\ cur[p].session \in Sessions
              /\ cur[p] = Owner!Current(owners) /\ disk[cur[p].session] # "none"
          BY <1>0, <1>3, <2>3, <3>1 DEF Owner!Reclaim, Owner!LinkOwner, PlaceHolds, ReadHolds,
             Reading, SessionsExist
        <4>2. /\ oPc'[p] = "stamp" /\ want'[p] = cur[p].session /\ prev'[p] = cur[p]
              /\ owners' = Append(owners, [session |-> cur[p].session, pid |-> p])
              /\ holds' = holds
          BY <1>0, <1>3, <3>1 DEF Owner!Reclaim, Owner!LinkOwner, Owner!TypeOK
        <4>3. r = [session |-> cur[p].session, pid |-> p]
          <5>1. r \in Owner!Record /\ [session |-> cur[p].session, pid |-> p] \in Owner!Record
            BY <1>0, <4>1 DEF Owner!TypeOK, Owner!Record
          <5>2. Owner!Current(Append(owners, r)) = r
            BY <1>0, <5>1, CurrentOfAppend
          <5>3. Owner!Current(Append(owners, [session |-> cur[p].session, pid |-> p])) =
                    [session |-> cur[p].session, pid |-> p]
            BY <1>0, <5>1, CurrentOfAppend
          <5> QED
            BY <2>2, <4>2, <5>2, <5>3
        <4> QED
          BY <1>0, <2>3, <4>1, <4>2, <4>3 DEF Engaged
      <3>2. CASE Owner!ClaimNew(p)
        <4>1. /\ oPc[p] = "claim" /\ seen[p] = Len(owners) /\ want[p] \in Sessions
              /\ cur[p] = Owner!Current(owners) /\ disk[want[p]] # "none"
          BY <1>0, <1>3, <2>3, <3>2 DEF Owner!ClaimNew, Owner!LinkOwner, PlaceHolds, ReadHolds,
             Reading, SessionsExist
        <4>2. /\ oPc'[p] = "bind" /\ prev'[p] = cur[p] /\ want' = want
              /\ owners' = Append(owners, [session |-> want[p], pid |-> p])
              /\ holds'[p] = holds[p] \cup {want[p]}
          BY <1>0, <1>3, <3>2 DEF Owner!ClaimNew, Owner!LinkOwner, Owner!TypeOK
        <4>3. r = [session |-> want[p], pid |-> p]
          <5>1. r \in Owner!Record /\ [session |-> want[p], pid |-> p] \in Owner!Record
            BY <1>0, <4>1 DEF Owner!TypeOK, Owner!Record
          <5>2. Owner!Current(Append(owners, r)) = r
            BY <1>0, <5>1, CurrentOfAppend
          <5>3. Owner!Current(Append(owners, [session |-> want[p], pid |-> p])) =
                    [session |-> want[p], pid |-> p]
            BY <1>0, <5>1, CurrentOfAppend
          <5> QED
            BY <2>2, <4>2, <5>2, <5>3
        <4> QED
          BY <1>0, <2>3, <4>1, <4>2, <4>3 DEF Engaged
      <3>3. CASE Owner!Restore(p)
        <4>1. /\ oPc[p] = "restore" /\ seen[p] = Len(owners) /\ want[p] \in Sessions
              /\ Owner!Current(owners).session = want[p] /\ Unbound(p)
          BY <1>0, <1>3, <2>3, <3>3 DEF Owner!Restore, Owner!LinkOwner, PlaceHolds, ReadHolds,
             Unbound
        <4>2. /\ oPc'[p] \in {"restamp", "unname"} /\ want' = want /\ holds' = holds
              /\ owners' = Append(owners, prev[p])
          BY <1>0, <1>3, <3>3 DEF Owner!Restore, Owner!LinkOwner, Owner!TypeOK
        <4>3. r = prev[p] /\ r \in Owner!Record
          <5>1. r \in Owner!Record /\ prev[p] \in Owner!Record
            BY <1>0, <4>1, <2>2 DEF Owner!TypeOK, Owner!Record
          <5>2. Owner!Current(Append(owners, r)) = r
            BY <1>0, <5>1, CurrentOfAppend
          <5>3. Owner!Current(Append(owners, prev[p])) =
                    prev[p]
            BY <1>0, <5>1, CurrentOfAppend
          <5> QED
            BY <2>2, <4>2, <5>1, <5>2, <5>3
        <4>4. disk[want[p]] # "none"
          BY <1>0, <4>1, ServicesAssumption DEF SessionsExist
        <4> QED
          BY <2>3, <4>1, <4>2, <4>3, <4>4, OthersTops DEF Engaged, Unbound
      <3> QED
        BY <2>1, <3>1, <3>2, <3>3
    <2>5. Owner!Current(owners)' = r
      <3>1. Owner!Current(Append(owners, r)) = r
        BY <1>0, <2>4, CurrentOfAppend
      <3> QED
        BY <2>2, <3>1 DEF Owner!Current
    <2>6. ASSUME NEW y \in Tops'
          PROVE  \/ \E z \in Tops : Carried(y)' = Carried(z)
                 \/ Carried(y)'.session \in Sessions /\ disk[Carried(y)'.session] # "none"
      <3>1. CASE y = None
        BY <2>4, <2>5, <3>1, OthersTops
      <3>2. CASE y = p
        BY <1>0, <2>4, <2>6, <3>2, OthersTops
      <3>3. CASE y \notin {None, p}
        BY <2>6, <3>3, OthersTops
      <3> QED
        BY <3>1, <3>2, <3>3
    <2> QED
      BY <2>4, <2>6
  <1> QED
    BY <1>1, <1>2, <1>3

\* What the steps make of the chains of names.
LEMMA NamesStep ==
    ASSUME OwnerInv, NEW p \in Hosts, Takes(p), NEW n \in Names
    PROVE  \/ names'[n] = names[n]
           \/ /\ p \in alive /\ oPc[p] = "reserve" /\ n = name[p] /\ want[p] \in Sessions
              /\ nseen[p] = Len(names[n]) /\ meta' = meta /\ deleted' = deleted
              /\ Owner!Current(names'[n]) = [session |-> want[p], pid |-> p]
           \/ /\ p \in alive /\ oPc[p] \in {"release", "unname"} /\ want[p] \in Sessions
              /\ Owner!Current(names[n]).session = want[p]
              /\ oPc[p] = "unname" => want[p] \in deleted'
              /\ Owner!Current(names'[n]) = Owner!Released
  <1>0. /\ names = [k \in Names |-> names[k]] /\ names[n] \in Seq(Owner!Record)
        /\ Owner!Released \in Owner!Record /\ (p \in alive => PlaceHolds(p))
    BY DEF OwnerInv, PlacesHold, Owner!TypeOK, Owner!Released, Owner!Record
  <1>1. CASE Owner!ReserveName(p) /\ names'[n] # names[n]
    <2>1. /\ p \in alive /\ oPc[p] = "reserve" /\ n = name[p]
          /\ nseen[p] = Len(names[n]) /\ meta' = meta /\ deleted' = deleted
          /\ names'[n] = Append(names[n], [session |-> want[p], pid |-> p])
      BY <1>0, <1>1 DEF Owner!ReserveName, Owner!At, Owner!files
    <2>2. want[p] \in Sessions
      BY <1>0, <2>1 DEF PlaceHolds, Making
    <2>3. [session |-> want[p], pid |-> p] \in Owner!Record
      BY <2>2 DEF Owner!Record
    <2> QED
      BY <1>0, <2>1, <2>2, <2>3, CurrentOfAppend
  <1>2. CASE (Owner!ReleaseShell(p) \/ Owner!Unname(p)) /\ names'[n] # names[n]
    <2>1. /\ p \in alive /\ oPc[p] \in {"release", "unname"}
          /\ oPc[p] = "unname" => want[p] \in deleted' /\ Owner!Unname(p)
          /\ Owner!ReleaseNames(want[p])
      BY <1>2 DEF Owner!ReleaseShell, Owner!Unname, Owner!At
    <2>2. want[p] \in Sessions
      BY <1>0, <2>1 DEF PlaceHolds, Making, Removing
    <2>3. /\ Owner!Current(names[n]).session = want[p]
          /\ names'[n] = Append(names[n], Owner!Released)
      BY <1>2, <2>1 DEF Owner!ReleaseNames
    <2> QED
      BY <1>0, <2>1, <2>2, <2>3, CurrentOfAppend
  <1>3. names' = names \/ Owner!ReserveName(p) \/ Owner!ReleaseShell(p) \/ Owner!Unname(p)
    BY DEF Takes, Claims, Creates, Owner!chains, Owner!Boot, Owner!Load, Owner!Inspect,
           Owner!Reclaim, Owner!Stamp, Owner!CreateDirectory, Owner!ClaimNew, Owner!Bound,
           Owner!BindFails, Owner!Restore, Owner!Restamp, Owner!Crash, Owner!ListNames,
           Owner!LookName, Owner!InsertRow, Owner!Publish, Owner!RemoveShell,
           Owner!DeleteFiles, Owner!Discard
  <1> QED
    BY <1>1, <1>2, <1>3


LEMMA SessionsExistStep ==
    ASSUME OwnerInv, NEW p \in Hosts, Takes(p)
    PROVE  SessionsExist'
  <1> USE DEF Owner!At, Owner!Goto, Owner!Return, Owner!Conflict, Owner!Forget, Owner!chains,
              Owner!files, Owner!claim, Owner!naming
  <1>0. /\ Owner!TypeOK /\ SessionsExist /\ EngagedOnce /\ None \notin Sessions
        /\ p \in alive => PlaceHolds(p) /\ ReadHolds(p)
        /\ Known(Owner!Current(owners)) /\ \A q \in Hosts : Known(cur[q]) /\ Known(prev[q])
        /\ \A n \in Names : Known(Owner!Current(names[n]))
    BY OthersTops DEF OwnerInv, PlacesHold, ReadsHold, Lives
  <1>1. \A s \in Sessions : disk[s] # "none" => disk'[s] # "none"
    BY FilesStep
  <1>2. ASSUME NEW y \in Tops', Carried(y)'.session # None
        PROVE  disk'[Carried(y)'.session] # "none"
    <2>1. CASE \E z \in Tops : Carried(y)' = Carried(z)
      <3>1. PICK z \in Tops : Carried(y)' = Carried(z)
        BY <2>1
      <3>2. Carried(z).session \in Sessions
        BY <1>0, <1>2, <3>1, OthersTops DEF Known, Carried
      <3> QED
        BY <1>0, <1>1, <1>2, <3>1, <3>2 DEF SessionsExist
    <2>2. CASE ~ \E z \in Tops : Carried(y)' = Carried(z)
      BY <1>1, <2>2, WhatIsNew
    <2> QED
      BY <2>1, <2>2
  <1>3. ASSUME NEW q \in Hosts, NEW s \in Sessions, Engaged(q, s)' PROVE disk'[s] # "none"
    <2>1. CASE q = p
      BY <1>0, <1>1, <1>3, <2>1, WhatIsNew DEF SessionsExist
    <2>2. CASE q # p
      BY <1>0, <1>1, <1>3, <2>2, OthersRecords DEF SessionsExist
    <2> QED
      BY <2>1, <2>2
  <1>4. ASSUME NEW q \in alive', oPc'[q] \in {"inspect", "reclaim"}
        PROVE  disk'[cur'[q].session] # "none"
    <2>0. q \in Hosts
      BY OthersTops
    <2>1. CASE q # p
      <3>1. Untouched(q) /\ q \in alive /\ PlaceHolds(q)
        BY <1>4, <2>0, <2>1, OthersUntouched DEF Untouched, OwnerInv, PlacesHold
      <3>2. cur[q].session \in Sessions /\ disk[cur[q].session] # "none"
        BY <1>0, <1>4, <3>1 DEF Untouched, PlaceHolds, SessionsExist
      <3> QED
        BY <1>1, <3>1, <3>2 DEF Untouched
    <2>2. CASE q = p
      <3>1. Owner!Load(p) \/ Owner!Inspect(p)
        BY <1>0, <1>4, <2>2 DEF Takes, Claims, Creates, Owner!TypeOK, Owner!Boot,
           Owner!Reclaim, Owner!Stamp, Owner!CreateDirectory, Owner!ClaimNew, Owner!Bound,
           Owner!BindFails, Owner!Restore, Owner!Restamp, Owner!Crash, Owner!ListNames,
           Owner!LookName, Owner!ReserveName, Owner!InsertRow, Owner!Publish,
           Owner!RemoveShell, Owner!ReleaseShell, Owner!Unname, Owner!DeleteFiles,
           Owner!Discard
      <3>2. CASE Owner!Load(p)
        <4>1. cur'[p] = Owner!Current(owners) /\ Owner!Current(owners).session # None
          BY <1>0, <1>4, <2>2, <3>2 DEF Owner!Load, Owner!TypeOK
        <4>2. disk[Owner!Current(owners).session] # "none"
          BY <1>0, <4>1, OthersTops DEF SessionsExist
        <4> QED
          BY <1>0, <1>1, <2>2, <4>1, <4>2 DEF Known
      <3>3. CASE Owner!Inspect(p)
        <4>1. p \in alive /\ oPc[p] = "inspect" /\ cur' = cur /\ disk' = disk
          BY <3>3 DEF Owner!Inspect
        <4> QED
          BY <1>0, <2>2, <4>1 DEF SessionsExist
      <3> QED
        BY <3>1, <3>2, <3>3
    <2> QED
      BY <2>1, <2>2
  <1>5. ASSUME NEW q \in Hosts, NEW s \in Sessions, Engaged(q, s), disk[s] = "row",
               disk'[s] # "row"
        PROVE  q = p /\ s \notin holds[p] /\ want[p] = s /\ oPc[p] \in Making \cup Removing
    <2>1. Engaged(p, s) /\ want[p] = s /\ oPc[p] \in Making \cup Removing
      BY <1>5, FilesStep
    <2>2. p \in alive
      BY <2>1 DEF Engaged
    <2> QED
      BY <1>0, <1>5, <2>1, <2>2 DEF EngagedOnce, PlaceHolds
  <1>6. ASSUME NEW q \in alive', NEW s \in holds'[q] PROVE disk'[s] = "row"
    <2>0. q \in Hosts /\ s \in Sessions
      BY OthersTops, OwnerTypesStep, <1>6 DEF Owner!TypeOK
    <2>1. ASSUME q \in alive, s \in holds[q] PROVE disk'[s] = "row"
      <3>1. Engaged(q, s) /\ disk[s] = "row"
        BY <1>0, <2>1 DEF Engaged, SessionsExist
      <3> QED
        BY <1>5, <2>0, <2>1, <3>1
    <2>2. CASE q # p
      BY <1>6, <2>0, <2>1, <2>2, OthersUntouched DEF Untouched, OwnerInv
    <2>3. CASE q = p /\ ~(p \in alive /\ s \in holds[p])
      <3>1. \/ /\ Owner!Inspect(p) /\ oPc[p] = "inspect" /\ s = cur[p].session
               /\ disk[s] = "row"
            \/ Owner!Stamp(p) /\ s = want[p]
            \/ Owner!ClaimNew(p) /\ s = want[p]
        <4>1. CASE Owner!Inspect(p)
          BY <1>0, <1>6, <2>3, <4>1 DEF Owner!Inspect, Owner!TypeOK
        <4>2. CASE Owner!Stamp(p) \/ Owner!ClaimNew(p)
          BY <1>0, <1>6, <2>3, <4>2 DEF Owner!Stamp, Owner!ClaimNew, Owner!TypeOK
        <4>3. CASE Owner!Boot(p)
          BY <1>0, <1>6, <2>3, <4>3 DEF Owner!Boot, OwnerInv, Lives
        <4>4. CASE Owner!Crash(p)
          BY <1>6, <2>3, <4>4 DEF Owner!Crash
        <4>5. CASE Owner!BindFails(p) \/ Owner!Discard(p)
          BY <1>0, <1>6, <2>3, <4>5 DEF Owner!BindFails, Owner!Discard, Owner!TypeOK
        <4>6. \/ Owner!Inspect(p) \/ Owner!Stamp(p) \/ Owner!ClaimNew(p) \/ Owner!Boot(p)
              \/ Owner!Crash(p) \/ Owner!BindFails(p) \/ Owner!Discard(p)
              \/ p \in alive /\ holds' = holds
          BY DEF Takes, Claims, Creates, Owner!Load, Owner!Reclaim, Owner!CreateDirectory,
             Owner!Bound, Owner!Restore, Owner!Restamp, Owner!ListNames,
             Owner!LookName, Owner!ReserveName, Owner!InsertRow, Owner!Publish,
             Owner!RemoveShell, Owner!ReleaseShell, Owner!Unname, Owner!DeleteFiles
        <4> QED
          BY <1>6, <2>3, <4>1, <4>2, <4>3, <4>4, <4>5, <4>6
      <3>2. CASE Owner!Inspect(p) /\ disk[s] = "row"
        BY <3>2 DEF Owner!Inspect
      <3>3. CASE Owner!Stamp(p) /\ s = want[p]
        BY <1>0, <3>3 DEF Owner!Stamp, SessionsExist
      <3>4. CASE Owner!ClaimNew(p) /\ s = want[p]
        BY <1>0, <3>4 DEF Owner!ClaimNew, SessionsExist
      <3> QED
        BY <3>1, <3>2, <3>3, <3>4
    <2> QED
      BY <2>1, <2>2, <2>3
  <1>7. ASSUME NEW q \in alive', oPc'[q] \in {"stamp", "publish", "claim"}
        PROVE  disk'[want'[q]] = "row"
    <2>0. q \in Hosts
      BY OthersTops
    <2>1. CASE q # p
      <3>1. Untouched(q) /\ q \in alive /\ PlaceHolds(q)
        BY <1>7, <2>0, <2>1, OthersUntouched DEF Untouched, OwnerInv, PlacesHold
      <3>2. want[q] \in Sessions /\ disk[want[q]] = "row" /\ Engaged(q, want[q])
        BY <1>0, <1>7, <3>1 DEF Untouched, PlaceHolds, SessionsExist, Engaged, Making
      <3> QED
        BY <1>5, <2>0, <2>1, <3>1, <3>2 DEF Untouched
    <2>2. CASE q = p
      <3>1. Owner!Reclaim(p) \/ Owner!InsertRow(p) \/ Owner!Publish(p)
        BY <1>0, <1>7, <2>2 DEF Takes, Claims, Creates, Owner!TypeOK, Owner!Boot,
           Owner!Load, Owner!Inspect, Owner!Stamp, Owner!CreateDirectory, Owner!ClaimNew,
           Owner!Bound, Owner!BindFails, Owner!Restore, Owner!Restamp, Owner!Crash,
           Owner!ListNames, Owner!LookName, Owner!ReserveName, Owner!RemoveShell,
           Owner!ReleaseShell, Owner!Unname, Owner!DeleteFiles, Owner!Discard
      <3>2. CASE Owner!Reclaim(p)
        <4>1. /\ p \in alive /\ oPc[p] = "reclaim" /\ disk' = disk
              /\ seen[p] = Len(owners) /\ want'[p] = cur[p].session
          BY <1>0, <1>7, <2>2, <3>2 DEF Owner!Reclaim, Owner!LinkOwner, Owner!TypeOK
        <4> QED
          BY <1>0, <2>2, <4>1 DEF ReadHolds
      <3>3. CASE Owner!InsertRow(p)
        <4>1. want[p] \in Sessions /\ want' = want
          BY <1>0, <3>3 DEF Owner!InsertRow, PlaceHolds, Making
        <4> QED
          BY <1>0, <1>7, <2>2, <3>3, <4>1 DEF Owner!InsertRow, Owner!TypeOK
      <3>4. CASE Owner!Publish(p)
        BY <1>0, <2>2, <3>4 DEF Owner!Publish, SessionsExist
      <3> QED
        BY <3>1, <3>2, <3>3, <3>4
    <2> QED
      BY <2>1, <2>2
  <1>8. ASSUME NEW n \in Names, Owner!Current(names'[n]).session # None
        PROVE  disk'[Owner!Current(names'[n]).session] # "none"
    <2>1. CASE names'[n] = names[n]
      BY <1>0, <1>1, <1>8, <2>1 DEF SessionsExist, Known
    <2>2. CASE names'[n] # names[n]
      <3>1. Owner!Current(names'[n]) # Owner!Released
        BY <1>8 DEF Owner!Released
      <3>2. /\ p \in alive /\ oPc[p] = "reserve" /\ want[p] \in Sessions
            /\ Owner!Current(names'[n]) = [session |-> want[p], pid |-> p]
        BY <2>2, <3>1, NamesStep
      <3>3. Engaged(p, want[p])
        BY <3>2 DEF Engaged, Making
      <3> QED
        BY <1>0, <1>1, <3>2, <3>3 DEF SessionsExist
    <2> QED
      BY <2>1, <2>2
  <1>9. \A n \in Names : Owner!Current(names[n])' = Owner!Current(names'[n])
    BY DEF Owner!Current
  <1>10. \A s \in Sessions : meta'[s] # None => disk'[s] = "row"
    BY FilesStep
  <1> QED
    BY <1>2, <1>3, <1>4, <1>6, <1>7, <1>8, <1>9, <1>10 DEF SessionsExist


LEMMA NamesHoldStep ==
    ASSUME OwnerInv, NEW p \in Hosts, Takes(p)
    PROVE  NamesHold'
  <1> USE DEF Owner!At, Owner!Goto, Owner!Return, Owner!Conflict, Owner!Forget, Owner!chains,
              Owner!files, Owner!claim, Owner!naming
  <1>0. /\ Owner!TypeOK /\ SessionsExist /\ EngagedOnce /\ NamesHold /\ None \notin Sessions
        /\ \A q \in alive : PlaceHolds(q)
        /\ \A n \in Names : Known(Owner!Current(names[n]))
        /\ Owner!Released.session = None /\ alive' \subseteq Hosts /\ alive \subseteq Hosts
    BY OthersTops DEF OwnerInv, PlacesHold, Lives, Owner!Released, Owner!TypeOK
  <1>a. \A n \in Names : Owner!Current(names[n])' = Owner!Current(names'[n])
    BY DEF Owner!Current
  <1>b. ASSUME NEW q \in Hosts \ {p}, q \in alive'
        PROVE  /\ q \in alive /\ Untouched(q) /\ PlaceHolds(q)
               /\ \A s \in Sessions : Engaged(p, s) /\ Engaged(q, s) => FALSE
    BY <1>0, <1>b, OthersUntouched DEF Untouched, EngagedOnce
  <1>c. p \in alive /\ oPc[p] \in Making \cup Removing
          => want[p] \in Sessions /\ Engaged(p, want[p])
    BY <1>0 DEF PlaceHolds, Engaged
  \* A reservation that is relied on is not replaced.
  <1>d. ASSUME NEW n \in Names, names'[n] # names[n]
        PROVE  \/ /\ p \in alive /\ oPc[p] = "reserve" /\ n = name[p] /\ want[p] \in Sessions
                  /\ meta' = meta /\ deleted' = deleted
                  /\ ~Owner!Reserved(Owner!Current(names[n]))
                  /\ Owner!Current(names'[n]) = [session |-> want[p], pid |-> p]
               \/ /\ p \in alive /\ oPc[p] \in {"release", "unname"} /\ want[p] \in Sessions
                  /\ Owner!Current(names[n]).session = want[p]
                  /\ oPc[p] = "unname" => want[p] \in deleted'
                  /\ Owner!Current(names'[n]) = Owner!Released
    BY <1>0, <1>d, NamesStep DEF NamesHold
  <1>e. deleted \subseteq deleted'
    BY DEF Takes, Claims, Creates, Owner!Boot, Owner!Load, Owner!Inspect, Owner!Reclaim,
           Owner!Stamp, Owner!CreateDirectory, Owner!ClaimNew, Owner!Bound,
           Owner!BindFails, Owner!Restore, Owner!Restamp, Owner!Crash, Owner!ListNames,
           Owner!LookName, Owner!ReserveName, Owner!InsertRow, Owner!Publish,
           Owner!RemoveShell, Owner!ReleaseShell, Owner!Unname, Owner!DeleteFiles,
           Owner!Discard
  <1>1. ASSUME NEW q \in alive', oPc'[q] \in {"row", "publish"}
        PROVE  /\ Owner!Current(names'[name'[q]]).session = want'[q]
               /\ Owner!Current(names'[name'[q]]).pid = q
    <2>1. CASE q # p
      <3>1. q \in alive /\ Untouched(q) /\ PlaceHolds(q)
        BY <1>0, <1>b, <2>1
      <3>2. /\ oPc[q] \in {"row", "publish"} /\ name'[q] = name[q] /\ want'[q] = want[q]
            /\ name[q] \in Names /\ want[q] \in Sessions /\ Engaged(q, want[q])
        BY <1>1, <3>1 DEF Untouched, PlaceHolds, Engaged, Making
      <3>3. /\ Owner!Current(names[name[q]]).session = want[q]
            /\ Owner!Current(names[name[q]]).pid = q
        BY <1>0, <3>1, <3>2 DEF NamesHold
      <3>4. ASSUME names'[name[q]] # names[name[q]] PROVE FALSE
        <4>1. Owner!Reserved(Owner!Current(names[name[q]]))
          BY <1>0, <3>1, <3>2, <3>3 DEF Owner!Reserved
        <4>2. p \in alive /\ oPc[p] \in {"release", "unname"} /\ want[p] = want[q]
          BY <1>d, <3>2, <3>3, <3>4, <4>1
        <4> QED
          BY <1>0, <1>b, <1>c, <1>1, <2>1, <3>2, <4>2 DEF Making, Removing
      <3> QED
        BY <3>2, <3>3, <3>4
    <2>2. CASE q = p
      <3>1. Owner!ReserveName(p) \/ Owner!InsertRow(p)
        BY <1>0, <1>1, <2>2 DEF Takes, Claims, Creates, Owner!TypeOK, Owner!Boot,
           Owner!Load, Owner!Inspect, Owner!Reclaim, Owner!Stamp, Owner!CreateDirectory,
           Owner!ClaimNew, Owner!Bound, Owner!BindFails, Owner!Restore, Owner!Restamp,
           Owner!Crash, Owner!ListNames, Owner!LookName, Owner!Publish, Owner!RemoveShell,
           Owner!ReleaseShell, Owner!Unname, Owner!DeleteFiles, Owner!Discard
      <3>2. CASE Owner!ReserveName(p)
        <4>1. /\ p \in alive /\ oPc[p] = "reserve" /\ want' = want /\ name' = name
              /\ names' = [names EXCEPT ![name[p]] =
                              Append(@, [session |-> want[p], pid |-> p])]
          BY <1>0, <1>1, <2>2, <3>2 DEF Owner!ReserveName, Owner!TypeOK
        <4>2. name[p] \in Names /\ want[p] \in Sessions
          BY <1>0, <4>1 DEF PlaceHolds, Making
        <4>3. /\ names[name[p]] \in Seq(Owner!Record)
              /\ [session |-> want[p], pid |-> p] \in Owner!Record
              /\ names'[name[p]] = Append(names[name[p]], [session |-> want[p], pid |-> p])
          BY <1>0, <4>1, <4>2 DEF Owner!TypeOK, Owner!Record
        <4>4. Owner!Current(Append(names[name[p]], [session |-> want[p], pid |-> p]))
                  = [session |-> want[p], pid |-> p]
          BY <4>3, CurrentOfAppend
        <4> QED
          BY <2>2, <4>1, <4>3, <4>4
      <3>3. CASE Owner!InsertRow(p)
        BY <1>0, <2>2, <3>3 DEF Owner!InsertRow, NamesHold
      <3> QED
        BY <3>1, <3>2, <3>3
    <2> QED
      BY <2>1, <2>2
  <1>2. ASSUME NEW s \in Sessions \ deleted', meta'[s] # None
        PROVE  Owner!Current(names'[meta'[s].name]).session = s
    <2>1. \/ meta[s] # None /\ meta'[s].name = meta[s].name
          \/ /\ oPc[p] = "publish" /\ p \in alive /\ want[p] = s
             /\ meta'[s] = [name |-> name[p], pid |-> p] /\ names' = names
      BY <1>2, FilesStep
    <2>2. CASE meta[s] # None /\ meta'[s].name = meta[s].name
      <3> DEFINE n == meta[s].name
      <3>1. n \in Names
        <4>1. meta[s] \in [name : Names, pid : Hosts]
          BY <1>0, <2>2 DEF Owner!TypeOK
        <4> QED
          BY <4>1
      <3>2. Owner!Current(names[n]).session = s
        BY <1>0, <1>e, <2>2 DEF NamesHold
      <3> HIDE DEF n
      <3>3. ASSUME names'[n] # names[n] PROVE FALSE
        <4>1. Owner!Reserved(Owner!Current(names[n]))
          BY <1>0, <2>2, <3>2 DEF Owner!Reserved
        <4>2. p \in alive /\ oPc[p] = "release" /\ want[p] = s
          BY <1>2, <1>d, <3>1, <3>2, <3>3, <4>1
        <4> QED
          BY <1>0, <2>2, <4>2 DEF NamesHold
      <3> QED
        BY <2>2, <3>2, <3>3 DEF n
    <2>3. CASE /\ oPc[p] = "publish" /\ p \in alive /\ want[p] = s
               /\ meta'[s] = [name |-> name[p], pid |-> p] /\ names' = names
      BY <1>0, <2>3 DEF NamesHold
    <2> QED
      BY <2>1, <2>2, <2>3
  \* What has not been reserved stays free while its chain does not grow.
  <1>3. ASSUME NEW n \in Names, ~Owner!Reserved(Owner!Current(names[n])), names'[n] = names[n]
        PROVE  ~Owner!Reserved(Owner!Current(names[n]))'
    <2> DEFINE r == Owner!Current(names[n])
    <2>1. Owner!Current(names[n])' = r
      BY <1>3, <1>a
    <2>2. CASE r.session = None
      BY <2>1, <2>2 DEF Owner!Reserved
    <2>3. CASE r.session # None
      <3>1. r.session \in Sessions /\ r.pid \in Hosts /\ oPc[r.pid] # "off"
        BY <1>0, <2>3 DEF Known
      <3>2. meta[r.session] = None /\ r.pid \notin alive
        BY <1>3, <2>3 DEF Owner!Reserved
      <3> HIDE DEF r
      <3>3. r.pid \notin alive'
        <4>1. CASE r.pid = p
          <5>1. ~Owner!Boot(p)
            BY <3>1, <4>1 DEF Owner!Boot
          <5> QED
            BY <3>2, <4>1, <5>1 DEF Takes, Claims, Creates, Owner!Load, Owner!Inspect,
               Owner!Reclaim, Owner!Stamp, Owner!CreateDirectory, Owner!ClaimNew,
               Owner!Bound, Owner!BindFails, Owner!Restore, Owner!Restamp, Owner!Crash,
               Owner!ListNames, Owner!LookName, Owner!ReserveName, Owner!InsertRow,
               Owner!Publish, Owner!RemoveShell, Owner!ReleaseShell, Owner!Unname,
               Owner!DeleteFiles, Owner!Discard
        <4>2. CASE r.pid # p
          BY <3>1, <3>2, <4>2, <1>0, OthersUntouched DEF Untouched
        <4> QED
          BY <4>1, <4>2
      <3>4. ASSUME meta'[r.session] # None PROVE FALSE
        <4>1. oPc[p] = "publish" /\ p \in alive /\ want[p] = r.session
          BY <3>1, <3>2, <3>4, FilesStep
        <4>2. r.pid = p
          BY <1>0, <4>1 DEF NamesHold, Making, r
        <4> QED
          BY <3>2, <4>1, <4>2
      <3> QED
        BY <2>1, <3>3, <3>4 DEF Owner!Reserved
    <2> QED
      BY <2>2, <2>3
  <1>4. ASSUME NEW q \in alive', oPc'[q] = "reserve"
        PROVE  /\ nseen'[q] <= Len(names'[name'[q]])
               /\ nseen'[q] = Len(names'[name'[q]]) =>
                     ~Owner!Reserved(Owner!Current(names[name[q]]))'
    <2>1. CASE q # p
      <3>1. q \in alive /\ Untouched(q) /\ PlaceHolds(q) /\ q \in Hosts
        BY <1>0, <1>b, <2>1
      <3>2. /\ name'[q] = name[q] /\ name[q] \in Names /\ nseen'[q] = nseen[q]
            /\ nseen[q] \in Nat /\ nseen[q] <= Len(names[name[q]])
            /\ nseen[q] = Len(names[name[q]]) =>
                  ~Owner!Reserved(Owner!Current(names[name[q]]))
        BY <1>0, <1>4, <3>1 DEF Untouched, PlaceHolds, NamesHold, Owner!TypeOK
      <3>3. /\ Len(names[name[q]]) \in Nat
            /\ \/ names'[name[q]] = names[name[q]]
               \/ Len(names'[name[q]]) = Len(names[name[q]]) + 1
        BY <3>2, ChainsGrow
      <3>4. CASE names'[name[q]] = names[name[q]]
        BY <1>3, <3>2, <3>4
      <3>5. CASE Len(names'[name[q]]) = Len(names[name[q]]) + 1
        BY <3>2, <3>3, <3>5
      <3> QED
        BY <3>3, <3>4, <3>5
    <2>2. CASE q = p
      <3>1. Owner!LookName(p)
        BY <1>0, <1>4, <2>2 DEF Takes, Claims, Creates, Owner!TypeOK, Owner!Boot,
           Owner!Load, Owner!Inspect, Owner!Reclaim, Owner!Stamp, Owner!CreateDirectory,
           Owner!ClaimNew, Owner!Bound, Owner!BindFails, Owner!Restore, Owner!Restamp,
           Owner!Crash, Owner!ListNames, Owner!ReserveName, Owner!InsertRow, Owner!Publish,
           Owner!RemoveShell, Owner!ReleaseShell, Owner!Unname, Owner!DeleteFiles,
           Owner!Discard
      <3>2. /\ ~Owner!Reserved(Owner!Current(names[name[p]])) /\ name' = name
            /\ nseen'[p] = Len(names[name[p]]) /\ names' = names /\ name[p] \in Names
        BY <1>0, <1>4, <2>2, <3>1 DEF Owner!LookName, Owner!TypeOK, PlaceHolds
      <3>3. ~Owner!Reserved(Owner!Current(names[name[p]]))'
        BY <1>3, <3>2
      <3>4. Len(names[name[p]]) \in Nat
        BY <3>2, ChainsGrow
      <3> QED
        BY <2>2, <3>2, <3>3, <3>4
    <2> QED
      BY <2>1, <2>2
  <1>5. ASSUME NEW q \in alive', oPc'[q] \in Making, NEW n \in Names,
               Owner!Current(names'[n]).session = want'[q]
        PROVE  Owner!Current(names'[n]).pid = q
    <2>1. /\ want'[q] \in Sessions
      BY <1>5, PlacesHoldStep DEF PlacesHold, PlaceHolds
    <2>2. CASE q # p
      <3>1. q \in alive /\ Untouched(q) /\ q \in Hosts
        BY <1>0, <1>b, <2>2
      <3>2. oPc[q] \in Making /\ want'[q] = want[q] /\ Engaged(q, want[q])
        BY <1>5, <3>1 DEF Untouched, Engaged
      <3>3. CASE names'[n] = names[n]
        BY <1>0, <1>5, <3>1, <3>2, <3>3 DEF NamesHold
      <3>4. CASE names'[n] # names[n]
        <4>1. p \in alive /\ oPc[p] = "reserve" /\ want[p] = want[q]
          BY <1>0, <1>5, <1>d, <2>1, <3>2, <3>4
        <4> QED
          BY <1>0, <1>b, <1>c, <1>5, <2>1, <2>2, <3>2, <4>1 DEF Making
      <3> QED
        BY <3>3, <3>4
    <2>3. CASE q = p
      <3>1. CASE Owner!CreateDirectory(p)
        <4>1. PICK s \in Sessions : disk[s] = "none" /\ want' = [want EXCEPT ![p] = s]
          BY <3>1 DEF Owner!CreateDirectory
        <4>2. want'[p] = s /\ names' = names
          BY <1>0, <3>1, <4>1 DEF Owner!CreateDirectory, Owner!TypeOK
        <4> QED
          BY <1>0, <1>5, <2>3, <4>1, <4>2 DEF SessionsExist
      <3>2. CASE ~Owner!CreateDirectory(p)
        <4>1. p \in alive /\ oPc[p] \in Making /\ want'[p] = want[p]
          <5>1. CASE owners' = owners /\ ~Owner!Load(p)
            BY <1>5, <2>3, <3>2, <5>1, CalmSteps DEF Calm
          <5>2. CASE Owner!Load(p)
            BY <1>0, <1>5, <2>3, <5>2 DEF Owner!Load, Owner!TypeOK, Making
          <5>3. CASE owners' # owners
            <6>1. oPc'[p] \in {"stamp", "load", "bind", "unname", "restamp", "idle"}
              BY <1>0, <5>3 DEF Takes, Claims, Creates, Owner!TypeOK, Owner!Boot, Owner!Load,
                 Owner!Inspect, Owner!Reclaim, Owner!Stamp, Owner!CreateDirectory,
                 Owner!ClaimNew, Owner!Bound, Owner!BindFails, Owner!Restore, Owner!Restamp,
                 Owner!Crash, Owner!ListNames, Owner!LookName, Owner!ReserveName,
                 Owner!InsertRow, Owner!Publish, Owner!RemoveShell, Owner!ReleaseShell,
                 Owner!Unname, Owner!DeleteFiles, Owner!Discard
            <6> QED
              BY <1>5, <2>3, <6>1 DEF Making
          <5> QED
            BY <5>1, <5>2, <5>3
        <4>2. CASE names'[n] = names[n]
          BY <1>0, <1>5, <2>3, <4>1, <4>2 DEF NamesHold
        <4>3. CASE names'[n] # names[n]
          BY <1>0, <1>5, <1>d, <2>1, <2>3, <4>3
        <4> QED
          BY <4>2, <4>3
      <3> QED
        BY <3>1, <3>2
    <2> QED
      BY <2>2, <2>3
  <1>6. ASSUME NEW q \in alive', oPc'[q] = "release" PROVE meta'[want'[q]] = None
    <2>1. CASE q # p
      <3>1. q \in alive /\ Untouched(q) /\ PlaceHolds(q) /\ q \in Hosts
        BY <1>0, <1>b, <2>1
      <3>2. /\ oPc[q] = "release" /\ want'[q] = want[q] /\ want[q] \in Sessions
            /\ Engaged(q, want[q]) /\ meta[want[q]] = None
        BY <1>0, <1>6, <3>1 DEF Untouched, Engaged, PlaceHolds, NamesHold, Making
      <3>3. ASSUME meta'[want[q]] # None PROVE FALSE
        <4>1. oPc[p] = "publish" /\ p \in alive /\ want[p] = want[q]
          <5>1. ASSUME NEW s \in Sessions, meta'[s] # None, meta[s] = None
                PROVE  oPc[p] = "publish" /\ p \in alive /\ want[p] = s
            <6> HIDE DEF Owner!At, Owner!Goto, Owner!Return, Owner!Conflict, Owner!Forget,
                         Owner!chains, Owner!files, Owner!claim, Owner!naming
            <6> QED
              BY <5>1, FilesStep
          <5> QED
            BY ONLY <3>2, <3>3, <5>1
        <4>2. want[q] \in Sessions /\ Engaged(p, want[q]) /\ Engaged(q, want[q])
          BY <1>c, <3>2, <4>1 DEF Making
        <4> QED
          BY <1>b, <1>6, <2>1, <3>1, <4>2
      <3> QED
        BY <3>2, <3>3
    <2>2. CASE q = p
      <3>1. Owner!RemoveShell(p)
        BY <1>0, <1>6, <2>2 DEF Takes, Claims, Creates, Owner!TypeOK, Owner!Boot,
           Owner!Load, Owner!Inspect, Owner!Reclaim, Owner!Stamp, Owner!CreateDirectory,
           Owner!ClaimNew, Owner!Bound, Owner!BindFails, Owner!Restore, Owner!Restamp,
           Owner!Crash, Owner!ListNames, Owner!LookName, Owner!ReserveName, Owner!InsertRow,
           Owner!Publish, Owner!ReleaseShell, Owner!Unname, Owner!DeleteFiles, Owner!Discard
      <3>2. want[p] \in Sessions /\ want' = want
        BY <1>0, <3>1 DEF Owner!RemoveShell, PlaceHolds, Making
      <3> QED
        BY <1>0, <2>2, <3>1, <3>2 DEF Owner!RemoveShell, Owner!RemoveFiles, Owner!TypeOK
    <2> QED
      BY <2>1, <2>2
  <1>7. \A q \in alive' : oPc'[q] \in {"row", "publish", "reserve"} => name'[q] \in Names
    BY PlacesHoldStep DEF PlacesHold, PlaceHolds
  <1>8. \A s \in Sessions : meta'[s] # None => meta'[s].name \in Names
    <2>1. ASSUME NEW s \in Sessions, meta'[s] # None PROVE meta'[s].name \in Names
      <3>1. meta'[s] \in [name : Names, pid : Hosts]
        BY <2>1, OwnerTypesStep DEF Owner!TypeOK
      <3> QED
        BY <3>1
    <2> QED
      BY <2>1
  <1> QED
    BY <1>a, <1>1, <1>2, <1>4, <1>5, <1>6, <1>7, <1>8 DEF NamesHold


\* Every step of the services is one of a process of SessionOwner, or none of its.
LEMMA OwnerSteps ==
    ASSUME AllNext \/ UNCHANGED <<which, vars, ownerVars, changeVars, patchVars, storeVars>>
    PROVE  (\E p \in Hosts : Takes(p)) \/ UNCHANGED ownerVars
  BY DEF AllNext, Owner!Next, Takes, Claims, Creates

\* OwnerInv is an invariant of the services.
THEOREM OwnerInvariance == AllSpec => []OwnerInv
  <1>1. AllInit => OwnerInv
    BY OwnerStarts
  <1>2. OwnerInv /\ [AllNext]_<<which, vars, ownerVars, changeVars, patchVars, storeVars>>
           => OwnerInv'
    <2> SUFFICES ASSUME OwnerInv,
                        AllNext \/ UNCHANGED <<which, vars, ownerVars, changeVars, patchVars,
                                               storeVars>>
                 PROVE  OwnerInv'
      OBVIOUS
    <2>1. CASE UNCHANGED ownerVars
      <3> USE <2>1 DEF ownerVars, OwnerInv
      <3>1. Owner!TypeOK'
        BY DEF Owner!TypeOK
      <3>2. Lives' /\ PlacesHold' /\ ReadsHold'
        BY DEF Lives, PlacesHold, PlaceHolds, ReadsHold, ReadHolds, Known, Owner!Current
      <3>3. RecordsAreUnique' /\ EngagedOnce' /\ SessionsExist'
        BY DEF RecordsAreUnique, EngagedOnce, SessionsExist, Engaged, Tops, Carried, Unbound,
               Owner!Current
      <3>4. NamesHold'
        BY DEF NamesHold, Owner!Current, Owner!Reserved
      <3> QED
        BY <3>1, <3>2, <3>3, <3>4
    <2>2. ASSUME NEW p \in Hosts, Takes(p) PROVE OwnerInv'
      BY <2>2, OwnerTypesStep, LivesStep, PlacesHoldStep, ReadsHoldStep, RecordsStep,
         SessionsExistStep, NamesHoldStep DEF OwnerInv
    <2> QED
      BY <2>1, <2>2, OwnerSteps
  <1> QED
    BY <1>1, <1>2, PTL DEF AllSpec

\* ClaimsHold of MCServices: two live processes never hold one session, what a process
\* holds is not deleted by another one, and listed sessions have different names,
\* whatever each process of ClaimInteractive read before the others' claims.
THEOREM ClaimsAreKept == AllSpec => []ClaimsHold
  <1>1. OwnerInv => ClaimsHold
    <2> SUFFICES ASSUME OwnerInv PROVE Owner!ClaimsHold
      BY DEF ClaimsHold
    <2>1. alive \subseteq Hosts /\ \A p \in alive : holds[p] \subseteq Sessions
      BY DEF OwnerInv, Owner!TypeOK
    <2>2. \A p \in alive : \A s \in holds[p] : Engaged(p, s)
      BY DEF Engaged
    <2>3. Owner!OneOwner
      BY <2>1, <2>2 DEF OwnerInv, EngagedOnce, SessionsExist, Owner!OneOwner
    <2>4. Owner!NamesUnique
      BY DEF OwnerInv, NamesHold, Owner!NamesUnique
    <2> QED
      BY <2>3, <2>4 DEF Owner!ClaimsHold
  <1> QED
    BY <1>1, OwnerInvariance, PTL

-----------------------------------------------------------------------------
(* The files under the state directory.                                    *)

Copies == {"copy", "unlink"}
Connected == {"journal", "migrate", "apply", "insert", "publish", "row", "index"}
Filled == Connected \ {"journal"}
Opens == {"identity"} \cup Connected
Places == Opens \cup Copies \cup
    {"off", "new", "old", "move", "key", "makekey", "writekey", "adopt", "entries", "lock",
     "legacy", "each", "unlock", "up"}
Openings == [why : {"none", "adopt", "create", "use"}, session : Store!Histories \cup {"none"},
             next : Nat]

FileTypes ==
    /\ crossing \in BOOLEAN /\ dLock \in BOOLEAN /\ dTorn \in BOOLEAN /\ faults \in Nat
    /\ cred \in [old : {"none", "whole"}, new : {"none", "part", "whole"}]
    /\ hostKey = << >> \/ \E k \in Starters \cup {"nobody"} : hostKey = <<k>>
    /\ legacy \in {"there", "gone", "fresh"}
DirectoryTypes == dirs \subseteq Store!Histories /\ rows \subseteq dirs /\ listed \subseteq rows
SchemaTypes == schema \in [Store!Histories -> Seq(Nat)]
PlaceTypes == dPc \in [Starters -> Places] /\ key \in [Starters -> Starters \cup {"nobody"}]
TodoTypes == todo \in [Starters -> SUBSET Former]
OpeningTypes == opening \in [Starters -> Openings]
HandleTypes ==
    /\ handles \in [Starters -> SUBSET Store!Histories]
    /\ stale \in [Starters -> SUBSET Store!Histories]
StoreTypes ==
    /\ FileTypes /\ DirectoryTypes /\ SchemaTypes /\ PlaceTypes /\ TodoTypes
    /\ OpeningTypes /\ HandleTypes

\* The new file is missing only while the old one is there, and half of it is
\* there only across file systems, through a copy.
CredentialsHold ==
    /\ cred.new = "none" => cred.old = "whole"
    /\ cred.new = "part" => crossing /\ (dTorn \/ \E p \in Starters : dPc[p] = "copy")
    /\ \A p \in Starters : dPc[p] \in Copies => crossing /\ cred.new # "none"

\* The key in the file is that of every process that has one; a file without a
\* key has at most one writer.
KeysHold ==
    \A p \in Starters :
        /\ key[p] # "nobody" => hostKey = <<key[p]>>
        /\ dPc[p] = "writekey" =>
             hostKey = <<"nobody">> /\ \A q \in Starters : dPc[q] = "writekey" => q = p

\* What a process opens goes with its place.
OpeningsHold ==
    \A p \in Starters :
        /\ dPc[p] \notin Opens => opening[p] = Store!Idle
        /\ dPc[p] \in Opens => opening[p].why # "none"
        /\ dPc[p] \in {"insert", "publish"} => opening[p].why = "adopt"
        /\ dPc[p] \in {"row", "index"} => opening[p].why = "create"

LockHolds == (\A p \in Starters : Store!Locked(p) => dLock) /\ Store!OneAdopter

\* An adopter has still to do what is in no database of its own; what it has
\* inserted stays for as long as the file it has open.
HistoriesHold ==
    /\ Store!HistoryKept
    /\ \A p \in Starters :
        /\ legacy = "there" /\ (dPc[p] = "each" \/ opening[p].why = "adopt") =>
             Former \subseteq rows \cup removed \cup todo[p]
        /\ dPc[p] \in {"publish", "index"} /\ opening[p].session \in dirs =>
             opening[p].session \in rows

\* A database that is open is the one in the directory, or deleted; the next
\* migration to be applied follows the journal that was read, so it is the next of
\* the journal as it is or in it.
ConnectionHolds(p) ==
    /\ dPc[p] \in Connected => opening[p].session \in dirs \cup {"none"}
    /\ dPc[p] \in Filled /\ opening[p].session \in dirs =>
         schema[opening[p].session] # << >>
    /\ dPc[p] = "apply" /\ opening[p].session \in dirs =>
         opening[p].next \in 1..Len(schema[opening[p].session])
    /\ dPc[p] = "apply" => opening[p].next <= Knows[p]
DatabasesHold ==
    /\ Store!MigratedOnce /\ Store!HandlesAreMigrated /\ Store!ListedIsWhole
    /\ \A p \in Starters : ConnectionHolds(p)

StoreInv ==
    /\ StoreTypes /\ CredentialsHold /\ KeysHold /\ OpeningsHold /\ LockHolds
    /\ HistoriesHold /\ DatabasesHold

\* What a failure does: it undoes a creation, is reported by a running process, or
\* ends a start.
Undone(p) ==
    /\ dPc[p] \in {"row", "index"} /\ opening[p].why \in {"use", "create"}
    /\ Store!Gone(p, opening[p].session) /\ Store!Go(p, "up") /\ UNCHANGED <<dLock, key, todo>>
Refused(p) ==
    /\ dPc[p] \notin {"row", "index"} /\ opening[p].why \in {"use", "create"}
    /\ opening' = [opening EXCEPT ![p] = Store!Idle] /\ Store!Go(p, "up")
    /\ UNCHANGED <<dLock, key, todo, dirs, schema, rows, listed, handles, stale, removed>>
Ended(p) ==
    /\ opening[p].why \notin {"use", "create"} /\ Store!Ends(p)
    /\ dLock' = (dLock /\ ~Store!Locked(p))
    /\ UNCHANGED <<dirs, schema, rows, listed, removed>>

LEMMA FailCases ==
    ASSUME NEW p \in Starters, Store!Fail(p)
    PROVE  /\ Undone(p) \/ Refused(p) \/ Ended(p)
           /\ dPc[p] \notin {"off", "up"} /\ UNCHANGED <<crossing, cred, legacy>>
           /\ faults' = faults \/ faults' = faults + 1
           /\ dTorn' = (dTorn \/ Store!At(p, "copy"))
           /\ hostKey' = IF Store!At(p, "writekey") THEN << >> ELSE hostKey
  BY DEF Store!Fail, Undone, Refused, Ended, Store!At


\* The types, kept by every step of a process.
LEMMA FileTypesStep ==
    ASSUME StoreInv, NEW p \in Starters, Store!Step(p)
    PROVE  FileTypes'
  <1> USE DEF StoreInv, StoreTypes, FileTypes, Store!At, Store!Go, Store!Idle, Store!Nowhere,
  Store!Nobody
  <1>1. CASE Store!Start(p) \/ Store!Close(p)
    BY <1>1 DEF Store!Start, Store!files, Store!Close, Store!Ends, Store!ghosts
  <1>2. CASE Store!Crash(p)
    BY <1>2 DEF Store!Crash, Store!Ends, Store!files
  <1>3. CASE Store!StatNew(p) \/ Store!StatOld(p) \/ Store!Copy(p) \/ Store!Unlink(p)
    BY <1>3 DEF Store!StatNew, Store!Credentials, Store!StatOld, Store!Copy, Store!Unlink
  <1>4. CASE Store!Move(p)
    BY <1>4 DEF Store!Move, Store!Credentials
  <1>5. CASE Store!ReadKey(p)
    BY <1>5 DEF Store!ReadKey, Store!HostKey, Store!HasKey, Store!Use
  <1>6. CASE Store!MakeKey(p)
    BY <1>6 DEF Store!MakeKey, Store!HostKey, Store!HasKey, Store!Use
  <1>7. CASE Store!WriteKey(p)
    BY <1>7 DEF Store!WriteKey, Store!HostKey, Store!Use
  <1>8. CASE Store!StatLegacy(p) \/ Store!Entries(p) \/ Store!Lock(p) \/ Store!Unlock(p) \/
             Store!OpenLegacy(p) \/ Store!SetAside(p) \/ Store!Insert(p) \/ Store!Publish(p)
    BY <1>8 DEF Store!StatLegacy, Store!Adopting, Store!Entries, Store!Lock, Store!Unlock,
       Store!OpenLegacy, Store!SetAside, Store!Complete, Store!Insert, Store!Publish
  <1>9. CASE Store!Identity(p) \/ Store!Journal(p)
    BY <1>9 DEF Store!Identity, Store!Opening, Store!Reached, Store!Schema, Store!Journal
  <1>10. CASE Store!Migrate(p)
    BY <1>10 DEF Store!Migrate, Store!Opening, Store!Opened, Store!Reached, Store!Schema
  <1>11. CASE Store!Apply(p)
    BY <1>11 DEF Store!Apply, Store!Opening, Store!Opened, Store!Reached, Store!Schema,
       Store!Applies
  <1>12. CASE Store!Row(p) \/ Store!Index(p)
    BY <1>12 DEF Store!Row, Store!Running, Store!Reached, Store!Index
  <1>13. ASSUME NEW s \in Store!Histories, Store!Adopt(p, s) PROVE FileTypes'
    BY <1>13 DEF Store!Adopt, Store!Adopting
  <1>14. ASSUME NEW s \in Store!Histories, Store!Session(p, s) \/ Store!Create(p, s)
         PROVE  FileTypes'
    BY <1>14 DEF Store!Session, Store!Running, Store!Create
  <1>15. ASSUME NEW s \in Store!Histories, Store!Remove(p, s) PROVE FileTypes'
    BY <1>15 DEF Store!Remove, Store!Running, Store!Gone
  <1>16. CASE Store!Fail(p)
    <2>1. dLock' \in BOOLEAN /\ dTorn' \in BOOLEAN
      BY <1>16, FailCases, Zenon DEF Undone, Refused, Ended
    <2> QED
      BY <1>16, <2>1, FailCases
  <1> QED
    BY <1>1, <1>2, <1>3, <1>4, <1>5, <1>6, <1>7, <1>8, <1>9, <1>10, <1>11, <1>12, <1>13, <1>14,
       <1>15, <1>16 DEF Store!Step

LEMMA DirectoryTypesStep ==
    ASSUME StoreInv, NEW p \in Starters, Store!Step(p)
    PROVE  DirectoryTypes'
  <1> USE DEF StoreInv, StoreTypes, DirectoryTypes, Store!Histories, Store!At, Store!Go,
  Store!Idle, Store!Nowhere, Store!Nobody
  <1>1. CASE Store!Start(p) \/ Store!Close(p) \/ Store!Crash(p)
    BY <1>1 DEF Store!Start, Store!files, Store!Close, Store!Ends, Store!ghosts, Store!Crash
  <1>2. CASE Store!StatNew(p) \/ Store!StatOld(p) \/ Store!Copy(p) \/ Store!Unlink(p) \/
             Store!Move(p) \/ Store!ReadKey(p) \/ Store!MakeKey(p) \/ Store!WriteKey(p)
    BY <1>2 DEF Store!StatNew, Store!Credentials, Store!StatOld, Store!Copy, Store!Unlink,
       Store!Move, Store!ReadKey, Store!HostKey, Store!HasKey, Store!Use, Store!MakeKey,
       Store!WriteKey
  <1>3. CASE Store!StatLegacy(p) \/ Store!Entries(p) \/ Store!Lock(p) \/ Store!Unlock(p) \/
             Store!OpenLegacy(p) \/ Store!SetAside(p)
    BY <1>3 DEF Store!StatLegacy, Store!Adopting, Store!Entries, Store!Lock, Store!Unlock,
       Store!OpenLegacy, Store!SetAside, Store!Complete
  <1>4. CASE Store!Insert(p)
    BY <1>4 DEF Store!Insert, Store!Adopting
  <1>5. CASE Store!Publish(p)
    BY <1>5 DEF Store!Publish, Store!Adopting, HistoriesHold
  <1>6. CASE Store!Identity(p) \/ Store!Journal(p)
    BY <1>6 DEF Store!Identity, Store!Opening, Store!Reached, Store!Schema, Store!Journal
  <1>7. CASE Store!Migrate(p)
    BY <1>7 DEF Store!Migrate, Store!Opening, Store!Opened, Store!Reached, Store!Schema
  <1>8. CASE Store!Apply(p)
    BY <1>8 DEF Store!Apply, Store!Opening, Store!Opened, Store!Reached, Store!Schema, Store!Applies
  <1>9. CASE Store!Row(p)
    BY <1>9 DEF Store!Row, Store!Running, Store!Reached
  <1>10. CASE Store!Index(p)
    BY <1>10 DEF Store!Index, Store!Running, Store!Reached, HistoriesHold
  <1>11. ASSUME NEW s \in Store!Histories, Store!Adopt(p, s) PROVE DirectoryTypes'
    BY <1>11 DEF Store!Adopt, Store!Adopting
  <1>12. ASSUME NEW s \in Store!Histories, Store!Session(p, s) \/ Store!Create(p, s)
         PROVE  DirectoryTypes'
    BY <1>12 DEF Store!Session, Store!Running, Store!Create
  <1>13. ASSUME NEW s \in Store!Histories, Store!Remove(p, s) PROVE DirectoryTypes'
    BY <1>13 DEF Store!Remove, Store!Running, Store!Gone
  <1>14. CASE Store!Fail(p)
    BY <1>14, FailCases DEF Undone, Refused, Ended, Store!Ends, Store!Gone
  <1> QED
    BY <1>1, <1>2, <1>3, <1>4, <1>5, <1>6, <1>7, <1>8, <1>9, <1>10, <1>11, <1>12, <1>13,
       <1>14 DEF Store!Step

LEMMA PlaceTypesStep ==
    ASSUME StoreInv, NEW p \in Starters, Store!Step(p)
    PROVE  PlaceTypes'
  <1> USE DEF StoreInv, StoreTypes, PlaceTypes, FileTypes, Places, Opens, Connected, Copies,
  Store!At, Store!Go, Store!Idle, Store!Nowhere, Store!Nobody
  <1>1. CASE Store!Start(p) \/ Store!Close(p) \/ Store!Crash(p)
    BY <1>1 DEF Store!Start, Store!files, Store!Close, Store!Ends, Store!ghosts, Store!Crash
  <1>2. CASE Store!StatNew(p) \/ Store!StatOld(p) \/ Store!Copy(p) \/ Store!Unlink(p)
    BY <1>2 DEF Store!StatNew, Store!Credentials, Store!StatOld, Store!Copy, Store!Unlink
  <1>3. CASE Store!Move(p)
    BY <1>3 DEF Store!Move, Store!Credentials
  <1>4. CASE Store!ReadKey(p) \/ Store!MakeKey(p) \/ Store!WriteKey(p)
    BY <1>4 DEF Store!ReadKey, Store!HostKey, Store!HasKey, Store!Use, Store!MakeKey, Store!WriteKey
  <1>5. CASE Store!StatLegacy(p) \/ Store!Entries(p) \/ Store!Lock(p) \/ Store!Unlock(p) \/
             Store!OpenLegacy(p) \/ Store!SetAside(p) \/ Store!Insert(p) \/ Store!Publish(p)
    BY <1>5 DEF Store!StatLegacy, Store!Adopting, Store!Entries, Store!Lock, Store!Unlock,
       Store!OpenLegacy, Store!SetAside, Store!Complete, Store!Insert, Store!Publish
  <1>6. CASE Store!Identity(p) \/ Store!Journal(p)
    BY <1>6 DEF Store!Identity, Store!Opening, Store!Reached, Store!Schema, Store!Journal
  <1>7. CASE Store!Migrate(p)
    BY <1>7 DEF Store!Migrate, Store!Opening, Store!Opened, Store!Reached, Store!Schema
  <1>8. CASE Store!Apply(p)
    BY <1>8 DEF Store!Apply, Store!Opening, Store!Opened, Store!Reached, Store!Schema, Store!Applies
  <1>9. CASE Store!Row(p) \/ Store!Index(p)
    BY <1>9 DEF Store!Row, Store!Running, Store!Reached, Store!Index
  <1>10. ASSUME NEW s \in Store!Histories, Store!Adopt(p, s) PROVE PlaceTypes'
    BY <1>10 DEF Store!Adopt, Store!Adopting
  <1>11. ASSUME NEW s \in Store!Histories, Store!Session(p, s) \/ Store!Create(p, s)
         PROVE  PlaceTypes'
    BY <1>11 DEF Store!Session, Store!Running, Store!Create
  <1>12. ASSUME NEW s \in Store!Histories, Store!Remove(p, s) PROVE PlaceTypes'
    BY <1>12 DEF Store!Remove, Store!Running, Store!Gone
  <1>13. CASE Store!Fail(p)
    BY <1>13, FailCases DEF Undone, Refused, Ended, Store!Ends, Store!Gone
  <1> QED
    BY <1>1, <1>2, <1>3, <1>4, <1>5, <1>6, <1>7, <1>8, <1>9, <1>10, <1>11, <1>12,
       <1>13 DEF Store!Step

LEMMA TodoTypesStep ==
    ASSUME StoreInv, NEW p \in Starters, Store!Step(p)
    PROVE  TodoTypes'
  <1> USE DEF StoreInv, StoreTypes, TodoTypes, Store!At, Store!Go, Store!Idle, Store!Nowhere,
  Store!Nobody
  <1>1. CASE Store!Start(p) \/ Store!Close(p) \/ Store!Crash(p)
    BY <1>1 DEF Store!Start, Store!files, Store!Close, Store!Ends, Store!ghosts, Store!Crash
  <1>2. CASE Store!StatNew(p) \/ Store!StatOld(p) \/ Store!Copy(p) \/ Store!Unlink(p) \/
             Store!Move(p)
    BY <1>2 DEF Store!StatNew, Store!Credentials, Store!StatOld, Store!Copy, Store!Unlink,
       Store!Move
  <1>3. CASE Store!ReadKey(p) \/ Store!MakeKey(p) \/ Store!WriteKey(p)
    BY <1>3 DEF Store!ReadKey, Store!HostKey, Store!HasKey, Store!Use, Store!MakeKey, Store!WriteKey
  <1>4. CASE Store!StatLegacy(p) \/ Store!Entries(p) \/ Store!Lock(p) \/ Store!Unlock(p)
    BY <1>4 DEF Store!StatLegacy, Store!Adopting, Store!Entries, Store!Lock, Store!Unlock
  <1>5. CASE Store!OpenLegacy(p)
    BY <1>5 DEF Store!OpenLegacy, Store!Adopting
  <1>6. CASE Store!SetAside(p)
    BY <1>6 DEF Store!SetAside, Store!Adopting, Store!Complete
  <1>7. CASE Store!Insert(p) \/ Store!Publish(p)
    BY <1>7 DEF Store!Insert, Store!Adopting, Store!Publish
  <1>8. CASE Store!Identity(p) \/ Store!Journal(p)
    BY <1>8 DEF Store!Identity, Store!Opening, Store!Reached, Store!Schema, Store!Journal
  <1>9. CASE Store!Migrate(p)
    BY <1>9 DEF Store!Migrate, Store!Opening, Store!Opened, Store!Reached, Store!Schema
  <1>10. CASE Store!Apply(p)
    BY <1>10 DEF Store!Apply, Store!Opening, Store!Opened, Store!Reached, Store!Schema,
       Store!Applies
  <1>11. CASE Store!Row(p) \/ Store!Index(p)
    BY <1>11 DEF Store!Row, Store!Running, Store!Reached, Store!Index
  <1>12. ASSUME NEW s \in Store!Histories, Store!Adopt(p, s) PROVE TodoTypes'
    BY <1>12 DEF Store!Adopt, Store!Adopting
  <1>13. ASSUME NEW s \in Store!Histories, Store!Session(p, s) \/ Store!Create(p, s)
         PROVE  TodoTypes'
    BY <1>13 DEF Store!Session, Store!Running, Store!Create
  <1>14. ASSUME NEW s \in Store!Histories, Store!Remove(p, s) PROVE TodoTypes'
    BY <1>14 DEF Store!Remove, Store!Running, Store!Gone
  <1>15. CASE Store!Fail(p)
    BY <1>15, FailCases DEF Undone, Refused, Ended, Store!Ends, Store!Gone
  <1> QED
    BY <1>1, <1>2, <1>3, <1>4, <1>5, <1>6, <1>7, <1>8, <1>9, <1>10, <1>11, <1>12, <1>13, <1>14,
       <1>15 DEF Store!Step

LEMMA OpeningTypesStep ==
    ASSUME StoreInv, NEW p \in Starters, Store!Step(p)
    PROVE  OpeningTypes'
  <1> USE DEF StoreInv, StoreTypes, OpeningTypes, Openings, Store!Histories, Store!At, Store!Go,
  Store!Idle, Store!Nowhere, Store!Nobody
  <1>1. CASE Store!Start(p) \/ Store!Close(p) \/ Store!Crash(p)
    BY <1>1 DEF Store!Start, Store!files, Store!Close, Store!Ends, Store!ghosts, Store!Crash
  <1>2. CASE Store!StatNew(p) \/ Store!StatOld(p) \/ Store!Copy(p) \/ Store!Unlink(p) \/
             Store!Move(p)
    BY <1>2 DEF Store!StatNew, Store!Credentials, Store!StatOld, Store!Copy, Store!Unlink,
       Store!Move
  <1>3. CASE Store!ReadKey(p) \/ Store!MakeKey(p) \/ Store!WriteKey(p)
    BY <1>3 DEF Store!ReadKey, Store!HostKey, Store!HasKey, Store!Use, Store!MakeKey, Store!WriteKey
  <1>4. CASE Store!StatLegacy(p) \/ Store!Entries(p) \/ Store!Lock(p) \/ Store!Unlock(p) \/
             Store!OpenLegacy(p) \/ Store!SetAside(p) \/ Store!Insert(p)
    BY <1>4 DEF Store!StatLegacy, Store!Adopting, Store!Entries, Store!Lock, Store!Unlock,
       Store!OpenLegacy, Store!SetAside, Store!Complete, Store!Insert
  <1>5. CASE Store!Publish(p)
    BY <1>5 DEF Store!Publish, Store!Adopting
  <1>6. CASE Store!Identity(p) \/ Store!Journal(p)
    BY <1>6 DEF Store!Identity, Store!Opening, Store!Reached, Store!Schema, Store!Journal
  <1>7. CASE Store!Migrate(p)
    <2>1. Len(Store!Schema(p)) \in Nat
      BY <1>7 DEF Store!Migrate, Store!Opening, Store!Reached, Store!Schema, SchemaTypes,
         DirectoryTypes
    <2>2. CASE Store!Opened(p)
      BY <2>2 DEF Store!Opened
    <2>3. CASE ~Store!Opened(p)
      <3>1. PICK n \in Nat : opening' = [opening EXCEPT ![p] = [opening[p] EXCEPT !.next = n]]
        BY <1>7, <2>1, <2>3 DEF Store!Migrate
      <3>2. [opening[p] EXCEPT !.next = n] \in Openings
        BY <3>1
      <3> QED
        BY <3>1, <3>2
    <2> QED
      BY <2>2, <2>3
  <1>8. CASE Store!Apply(p)
    BY <1>8 DEF Store!Apply, Store!Opening, Store!Opened, Store!Reached, Store!Schema, Store!Applies
  <1>9. CASE Store!Row(p) \/ Store!Index(p)
    BY <1>9 DEF Store!Row, Store!Running, Store!Reached, Store!Index
  <1>10. ASSUME NEW s \in Store!Histories, Store!Adopt(p, s) PROVE OpeningTypes'
    BY <1>10 DEF Store!Adopt, Store!Adopting
  <1>11. ASSUME NEW s \in Store!Histories, Store!Session(p, s) \/ Store!Create(p, s)
         PROVE  OpeningTypes'
    BY <1>11 DEF Store!Session, Store!Running, Store!Create
  <1>12. ASSUME NEW s \in Store!Histories, Store!Remove(p, s) PROVE OpeningTypes'
    BY <1>12 DEF Store!Remove, Store!Running, Store!Gone
  <1>13. CASE Store!Fail(p)
    <2>1. CASE Undone(p)
      BY <2>1 DEF Undone, Store!Gone
    <2>2. CASE Refused(p)
      BY <2>2 DEF Refused
    <2>3. CASE Ended(p)
      BY <2>3 DEF Ended, Store!Ends
    <2> QED
      BY <1>13, <2>1, <2>2, <2>3, FailCases
  <1> QED
    BY <1>1, <1>2, <1>3, <1>4, <1>5, <1>6, <1>7, <1>8, <1>9, <1>10, <1>11, <1>12,
       <1>13 DEF Store!Step

LEMMA HandleTypesStep ==
    ASSUME StoreInv, NEW p \in Starters, Store!Step(p)
    PROVE  HandleTypes'
  <1> USE DEF StoreInv, StoreTypes, HandleTypes, DirectoryTypes, Store!At, Store!Go, Store!Idle,
  Store!Nowhere, Store!Nobody
  <1>1. CASE Store!Start(p) \/ Store!Close(p) \/ Store!Crash(p)
    BY <1>1 DEF Store!Start, Store!files, Store!Close, Store!Ends, Store!ghosts, Store!Crash
  <1>2. CASE Store!StatNew(p) \/ Store!StatOld(p) \/ Store!Copy(p) \/ Store!Unlink(p) \/
             Store!Move(p)
    BY <1>2 DEF Store!StatNew, Store!Credentials, Store!StatOld, Store!Copy, Store!Unlink,
       Store!Move
  <1>3. CASE Store!ReadKey(p) \/ Store!MakeKey(p) \/ Store!WriteKey(p)
    BY <1>3 DEF Store!ReadKey, Store!HostKey, Store!HasKey, Store!Use, Store!MakeKey, Store!WriteKey
  <1>4. CASE Store!StatLegacy(p) \/ Store!Entries(p) \/ Store!Lock(p) \/ Store!Unlock(p) \/
             Store!OpenLegacy(p) \/ Store!SetAside(p) \/ Store!Insert(p) \/ Store!Publish(p)
    BY <1>4 DEF Store!StatLegacy, Store!Adopting, Store!Entries, Store!Lock, Store!Unlock,
       Store!OpenLegacy, Store!SetAside, Store!Complete, Store!Insert, Store!Publish
  <1>5. CASE Store!Identity(p) \/ Store!Journal(p)
    BY <1>5 DEF Store!Identity, Store!Opening, Store!Reached, Store!Schema, Store!Journal
  <1>6. CASE Store!Migrate(p)
    BY <1>6 DEF Store!Migrate, Store!Opening, Store!Opened, Store!Reached, Store!Schema
  <1>7. CASE Store!Apply(p)
    BY <1>7 DEF Store!Apply, Store!Opening, Store!Opened, Store!Reached, Store!Schema, Store!Applies
  <1>8. CASE Store!Row(p) \/ Store!Index(p)
    BY <1>8 DEF Store!Row, Store!Running, Store!Reached, Store!Index
  <1>9. ASSUME NEW s \in Store!Histories, Store!Adopt(p, s) PROVE HandleTypes'
    BY <1>9 DEF Store!Adopt, Store!Adopting
  <1>10. ASSUME NEW s \in Store!Histories, Store!Session(p, s) \/ Store!Create(p, s)
         PROVE  HandleTypes'
    BY <1>10 DEF Store!Session, Store!Running, Store!Create
  <1>11. ASSUME NEW s \in Store!Histories, Store!Remove(p, s) PROVE HandleTypes'
    BY <1>11 DEF Store!Remove, Store!Running, Store!Gone
  <1>12. CASE Store!Fail(p)
    BY <1>12, FailCases DEF Undone, Refused, Ended, Store!Ends, Store!Gone
  <1> QED
    BY <1>1, <1>2, <1>3, <1>4, <1>5, <1>6, <1>7, <1>8, <1>9, <1>10, <1>11, <1>12 DEF Store!Step

LEMMA SchemaTypesStep ==
    ASSUME StoreInv, NEW p \in Starters, Store!Step(p)
    PROVE  SchemaTypes'
  <1> USE DEF StoreInv, StoreTypes, SchemaTypes, Store!At, Store!Go, Store!Idle, Store!Nowhere,
  Store!Nobody
  <1>1. CASE Store!Start(p) \/ Store!Close(p) \/ Store!Crash(p)
    BY <1>1 DEF Store!Start, Store!files, Store!Close, Store!Ends, Store!ghosts, Store!Crash
  <1>2. CASE Store!StatNew(p) \/ Store!StatOld(p) \/ Store!Copy(p) \/ Store!Unlink(p) \/
             Store!Move(p)
    BY <1>2 DEF Store!StatNew, Store!Credentials, Store!StatOld, Store!Copy, Store!Unlink,
       Store!Move
  <1>3. CASE Store!ReadKey(p) \/ Store!MakeKey(p) \/ Store!WriteKey(p)
    BY <1>3 DEF Store!ReadKey, Store!HostKey, Store!HasKey, Store!Use, Store!MakeKey, Store!WriteKey
  <1>4. CASE Store!StatLegacy(p) \/ Store!Entries(p) \/ Store!Lock(p) \/ Store!Unlock(p) \/
             Store!OpenLegacy(p) \/ Store!SetAside(p) \/ Store!Insert(p) \/ Store!Publish(p)
    BY <1>4 DEF Store!StatLegacy, Store!Adopting, Store!Entries, Store!Lock, Store!Unlock,
       Store!OpenLegacy, Store!SetAside, Store!Complete, Store!Insert, Store!Publish
  <1>5. CASE Store!Identity(p)
    BY <1>5 DEF Store!Identity, Store!Opening, Store!Reached, Store!Schema
  <1>6. CASE Store!Journal(p)
    <2>1. <<0>> \in Seq(Nat)
      OBVIOUS
    <2> QED
      BY <1>6, <2>1 DEF Store!Journal, Store!Opening, DirectoryTypes, Store!Reached
  <1>7. CASE Store!Migrate(p)
    BY <1>7 DEF Store!Migrate, Store!Opening, Store!Opened, Store!Reached, Store!Schema
  <1>8. CASE Store!Apply(p)
    <2>1. PICK s \in dirs : s = opening[p].session
      BY <1>8 DEF Store!Apply, Store!Reached
    <2>2. s \in Store!Histories /\ opening[p].next \in Nat
      BY DEF DirectoryTypes, OpeningTypes, Openings
    <2>3. Append(schema[s], opening[p].next) \in Seq(Nat)
      BY <2>2, AppendProperties
    <2> QED
      BY <1>8, <2>1, <2>2, <2>3 DEF Store!Apply, Store!Opening
  <1>9. CASE Store!Row(p) \/ Store!Index(p)
    BY <1>9 DEF Store!Row, Store!Running, Store!Reached, Store!Index
  <1>10. ASSUME NEW s \in Store!Histories, Store!Adopt(p, s) PROVE SchemaTypes'
    BY <1>10 DEF Store!Adopt, Store!Adopting
  <1>11. ASSUME NEW s \in Store!Histories, Store!Session(p, s) \/ Store!Create(p, s)
         PROVE  SchemaTypes'
    BY <1>11 DEF Store!Session, Store!Running, Store!Create
  <1>12. ASSUME NEW s \in Store!Histories, Store!Remove(p, s) PROVE SchemaTypes'
    BY <1>12 DEF Store!Remove, Store!Running, Store!Gone
  <1>13. CASE Store!Fail(p)
    <2>1. CASE Undone(p)
      <3>1. PICK s : s = opening[p].session
        OBVIOUS
      <3>2. << >> \in Seq(Nat) /\ schema' = [schema EXCEPT ![s] = << >>]
        BY <2>1, <3>1 DEF Undone, Store!Gone
      <3> QED
        BY <3>2
    <2>2. CASE Refused(p) \/ Ended(p)
      BY <2>2 DEF Refused, Ended
    <2> QED
      BY <1>13, <2>1, <2>2, FailCases
  <1> QED
    BY <1>1, <1>2, <1>3, <1>4, <1>5, <1>6, <1>7, <1>8, <1>9, <1>10, <1>11, <1>12,
       <1>13 DEF Store!Step
\* What deleting a session does to the openings.
LEMMA GoneDoes ==
    ASSUME StoreTypes, NEW p \in Starters, NEW s, Store!Gone(p, s)
    PROVE  /\ opening'[p] = Store!Idle
           /\ \A q \in Starters \ {p} :
                /\ opening'[q].why = opening[q].why /\ opening'[q].next = opening[q].next
                /\ opening'[q].session = IF opening[q].session = s /\ dPc[q] # "identity"
                                         THEN "none" ELSE opening[q].session
  BY DEF Store!Gone, StoreTypes, OpeningTypes, Openings, Store!Nowhere

\* Where the opening of a database ends.
LEMMA OpenedCases ==
    ASSUME NEW p \in Starters, Store!Opened(p)
    PROVE  \/ opening[p].why = "adopt" /\ Store!Go(p, "insert") /\ UNCHANGED <<handles, opening>>
           \/ /\ opening[p].why = "create" /\ Store!Go(p, "row") /\ UNCHANGED opening
              /\ handles' = [handles EXCEPT ![p] = @ \cup {opening[p].session}]
           \/ /\ opening[p].why \notin {"adopt", "create"} /\ Store!Go(p, "up")
              /\ opening' = [opening EXCEPT ![p] = Store!Idle]
              /\ handles' = [handles EXCEPT ![p] = @ \cup {opening[p].session}]
  BY DEF Store!Opened

\* Deleting a session leaves what the histories hold on to.
LEMMA GoneHistories ==
    ASSUME StoreInv, NEW p \in Starters, NEW s, Store!Gone(p, s), UNCHANGED <<legacy, todo>>,
           UNCHANGED dPc \/ Store!Go(p, "up")
    PROVE  HistoriesHold'
  <1> USE DEF StoreInv, StoreTypes
  <1>1. /\ dirs' = dirs \ {s} /\ rows' = rows \ {s} /\ removed' = removed \cup {s}
    BY DEF Store!Gone
  <1>2. Store!HistoryKept'
    BY <1>1 DEF Store!HistoryKept, HistoriesHold
  <1>3. ASSUME NEW q \in Starters, q # p PROVE
          /\ (legacy = "there" /\ (dPc[q] = "each" \/ opening[q].why = "adopt") =>
                Former \subseteq rows \cup removed \cup todo[q])'
          /\ (dPc[q] \in {"publish", "index"} /\ opening[q].session \in dirs =>
                opening[q].session \in rows)'
    <2>1. /\ dPc'[q] = dPc[q] /\ opening'[q].why = opening[q].why
          /\ opening'[q].session = IF opening[q].session = s /\ dPc[q] # "identity"
                                   THEN "none" ELSE opening[q].session
      BY <1>3, GoneDoes DEF PlaceTypes, Store!Go
    <2>2. (dPc[q] \in {"publish", "index"} /\ opening[q].session \in dirs =>
                opening[q].session \in rows)'
      <3>1. "none" \notin dirs'
        BY <1>1, ServicesAssumption DEF DirectoryTypes, Store!Histories
      <3> QED
        BY <1>1, <2>1, <3>1 DEF HistoriesHold
    <2>3. (legacy = "there" /\ (dPc[q] = "each" \/ opening[q].why = "adopt") =>
                Former \subseteq rows \cup removed \cup todo[q])'
      BY <1>1, <2>1 DEF HistoriesHold
    <2> QED
      BY <2>2, <2>3
  <1>4. /\ (legacy = "there" /\ (dPc[p] = "each" \/ opening[p].why = "adopt") =>
              Former \subseteq rows \cup removed \cup todo[p])'
        /\ (dPc[p] \in {"publish", "index"} /\ opening[p].session \in dirs =>
              opening[p].session \in rows)'
    <2>1. opening'[p] = Store!Idle
      BY GoneDoes
    <2>2. "none" \notin dirs'
      BY <1>1, ServicesAssumption DEF DirectoryTypes, Store!Histories
    <2>3. dPc'[p] = "each" => dPc[p] = "each"
      BY DEF PlaceTypes, Store!Go
    <2> QED
      BY <1>1, <2>1, <2>2, <2>3 DEF HistoriesHold, Store!Idle, Store!Nowhere
  <1> QED
    BY <1>2, <1>3, <1>4 DEF HistoriesHold

\* Deleting a session leaves the others' databases as they are.
LEMMA GoneDatabases ==
    ASSUME StoreInv, NEW p \in Starters, NEW s, Store!Gone(p, s),
           (UNCHANGED dPc /\ dPc[p] = "up") \/ Store!Go(p, "up")
    PROVE  DatabasesHold'
  <1> USE DEF StoreInv, StoreTypes, DatabasesHold, SchemaTypes, DirectoryTypes
  <1>1. /\ dirs' = dirs \ {s} /\ rows' = rows \ {s} /\ listed' = listed \ {s}
        /\ schema' = [schema EXCEPT ![s] = << >>]
        /\ handles' = [q \in Starters |-> handles[q] \ {s}]
    BY DEF Store!Gone
  <1>2. /\ \A t \in Store!Histories \ {s} : schema'[t] = schema[t]
        /\ s \in Store!Histories => schema'[s] = << >>
    BY <1>1
  <1>3. Store!MigratedOnce' /\ Store!ListedIsWhole'
    BY <1>1, <1>2 DEF Store!MigratedOnce, Store!ListedIsWhole
  <1>4. Store!HandlesAreMigrated'
    BY <1>1, <1>2 DEF Store!HandlesAreMigrated, HandleTypes
  <1>5. ASSUME NEW q \in Starters, q # p PROVE ConnectionHolds(q)'
    <2>1. /\ dPc'[q] = dPc[q] /\ opening'[q].next = opening[q].next
          /\ opening'[q].session = IF opening[q].session = s /\ dPc[q] # "identity"
                                   THEN "none" ELSE opening[q].session
      BY <1>5, GoneDoes DEF PlaceTypes, Store!Go
    <2>2. "none" \notin dirs'
      BY <1>1, ServicesAssumption DEF Store!Histories
    <2> QED
      BY <1>1, <1>2, <2>1, <2>2 DEF ConnectionHolds, Connected, Filled
  <1>6. ConnectionHolds(p)'
    <2>1. dPc'[p] = "up"
      BY DEF PlaceTypes, Store!Go
    <2> QED
      BY <2>1 DEF ConnectionHolds, Connected, Filled
  <1> QED
    BY <1>3, <1>4, <1>5, <1>6

\* Where a migration starts: past the journal that was read, or at its end.
LEMMA MigrateCases ==
    ASSUME StoreTypes, NEW p \in Starters, Store!Migrate(p)
    PROVE  /\ dPc[p] = "migrate" /\ opening[p].session \in dirs
           /\ UNCHANGED <<dLock, faults, legacy, dirs, rows, listed, schema, todo, removed>>
           /\ LET n == Len(schema[opening[p].session]) IN
                \/ n = Knows[p] + 1 /\ Store!Opened(p)
                \/ /\ n \in Nat /\ n <= Knows[p] /\ UNCHANGED handles /\ Store!Go(p, "apply")
                   /\ opening' = [opening EXCEPT ![p] = [opening[p] EXCEPT !.next = n]]
  <1> USE DEF StoreTypes, SchemaTypes, DirectoryTypes, OpeningTypes, Openings
  <1>1. PICK s : s = opening[p].session
    OBVIOUS
  <1>2. s \in dirs /\ s \in Store!Histories
    BY <1>1 DEF Store!Migrate, Store!Reached
  <1>3. PICK n : n = Len(schema[s])
    OBVIOUS
  <1>4. n \in Nat /\ Knows[p] \in Nat
    BY <1>2, <1>3, ServicesAssumption
  <1>5. Len(Store!Schema(p)) = n
    BY <1>1, <1>3 DEF Store!Schema
  <1>6. n - 1 <= Knows[p] /\ (n - 1 = Knows[p] => Store!Opened(p))
    BY <1>4, <1>5 DEF Store!Migrate
  <1>7. n - 1 # Knows[p] => /\ opening' = [opening EXCEPT ![p].next = n - 1 + 1]
                            /\ UNCHANGED handles /\ Store!Go(p, "apply")
    BY <1>4, <1>5 DEF Store!Migrate
  <1>8. n - 1 + 1 = n /\ (n - 1 = Knows[p] => n = Knows[p] + 1)
        /\ (n - 1 # Knows[p] => n <= Knows[p])
    BY <1>4, <1>6
  <1>9. /\ dPc[p] = "migrate"
        /\ UNCHANGED <<dLock, faults, legacy, dirs, rows, listed, schema, todo, removed>>
    BY DEF Store!Migrate, Store!Opening, Store!At
  <1> QED
    BY <1>1, <1>2, <1>3, <1>4, <1>6, <1>7, <1>8, <1>9

\* What the transaction of a migration does.
LEMMA ApplyCases ==
    ASSUME StoreTypes, NEW p \in Starters, Store!Apply(p)
    PROVE  /\ dPc[p] = "apply" /\ opening[p].session \in dirs
           /\ UNCHANGED <<dLock, faults, legacy, dirs, rows, listed, todo, removed>>
           /\ \A i \in DOMAIN schema[opening[p].session] :
                schema[opening[p].session][i] # opening[p].next
           /\ schema' = [schema EXCEPT ![opening[p].session] =
                           Append(schema[opening[p].session], opening[p].next)]
           /\ \/ opening[p].next = Knows[p] /\ Store!Opened(p)
              \/ /\ opening[p].next # Knows[p] /\ UNCHANGED <<dPc, handles>>
                 /\ opening' = [opening EXCEPT ![p] =
                                  [opening[p] EXCEPT !.next = opening[p].next + 1]]
  BY DEF Store!Apply, Store!Opening, Store!Reached, Store!Applies, Store!Schema, Store!At,
         StoreTypes, OpeningTypes, Openings


\* The new credentials are written before the old ones go (MigrateLegacyCredentials).
LEMMA CredentialsStep ==
    ASSUME StoreInv, NEW p \in Starters, Store!Step(p)
    PROVE  CredentialsHold'
  <1> USE DEF StoreInv, StoreTypes, CredentialsHold, FileTypes, PlaceTypes, Copies, OpeningsHold,
  Opens, Connected, Store!At, Store!Go, Store!Idle, Store!Nowhere, Store!Nobody
  <1>1. CASE Store!Start(p)
    BY <1>1 DEF Store!Start, Store!files
  <1>2. CASE Store!Close(p) \/ Store!Crash(p)
    BY <1>2 DEF Store!Close, Store!Ends, Store!files, Store!ghosts, Store!Crash
  <1>3. CASE Store!StatNew(p)
    BY <1>3 DEF Store!StatNew, Store!Credentials
  <1>4. CASE Store!StatOld(p)
    BY <1>4 DEF Store!StatOld, Store!Credentials
  <1>5. CASE Store!Move(p)
    BY <1>5 DEF Store!Move, Store!Credentials
  <1>6. CASE Store!Copy(p)
    BY <1>6 DEF Store!Copy, Store!Credentials
  <1>7. CASE Store!Unlink(p)
    BY <1>7 DEF Store!Unlink, Store!Credentials
  <1>8. CASE Store!ReadKey(p)
    BY <1>8 DEF Store!ReadKey, Store!HostKey, Store!HasKey, Store!Use
  <1>9. CASE Store!MakeKey(p)
    BY <1>9 DEF Store!MakeKey, Store!HostKey, Store!HasKey, Store!Use
  <1>10. CASE Store!WriteKey(p)
    BY <1>10 DEF Store!WriteKey, Store!HostKey, Store!Use
  <1>11. CASE Store!StatLegacy(p) \/ Store!Entries(p) \/ Store!Lock(p) \/ Store!Unlock(p) \/
              Store!OpenLegacy(p) \/ Store!SetAside(p) \/ Store!Insert(p) \/
              Store!Publish(p)
    BY <1>11 DEF Store!StatLegacy, Store!Adopting, Store!Entries, Store!Lock, Store!Unlock,
       Store!OpenLegacy, Store!SetAside, Store!Complete, Store!Insert, Store!Publish
  <1>12. CASE Store!Identity(p) \/ Store!Journal(p)
    BY <1>12 DEF Store!Identity, Store!Opening, Store!Reached, Store!Schema, Store!Journal
  <1>13. CASE Store!Migrate(p)
    BY <1>13 DEF Store!Migrate, Store!Opening, Store!Opened, Store!Reached, Store!Schema
  <1>14. CASE Store!Apply(p)
    BY <1>14 DEF Store!Apply, Store!Opening, Store!Opened, Store!Reached, Store!Schema,
       Store!Applies
  <1>15. CASE Store!Row(p) \/ Store!Index(p)
    BY <1>15 DEF Store!Row, Store!Running, Store!Reached, Store!Index
  <1>16. ASSUME NEW s \in Store!Histories, Store!Adopt(p, s) PROVE CredentialsHold'
    BY <1>16 DEF Store!Adopt, Store!Adopting
  <1>17. ASSUME NEW s \in Store!Histories, Store!Session(p, s) \/ Store!Create(p, s)
         PROVE  CredentialsHold'
    BY <1>17 DEF Store!Session, Store!Running, Store!Create
  <1>18. ASSUME NEW s \in Store!Histories, Store!Remove(p, s) PROVE CredentialsHold'
    BY <1>18 DEF Store!Remove, Store!Running, Store!Gone
  <1>19. CASE Store!Fail(p)
    <2>0. /\ Undone(p) \/ Refused(p) \/ Ended(p)
          /\ dPc[p] \notin {"off", "up"} /\ UNCHANGED <<crossing, cred, legacy>>
          /\ faults' = faults \/ faults' = faults + 1
          /\ dTorn' = (dTorn \/ dPc[p] = "copy")
          /\ hostKey' = IF dPc[p] = "writekey" THEN << >> ELSE hostKey
      BY <1>19, FailCases DEF Store!At
    <2>1. CASE Undone(p)
      BY <2>0, <2>1 DEF Undone, Store!Gone
    <2>2. CASE Refused(p)
      BY <2>0, <2>2 DEF Refused
    <2>3. CASE Ended(p)
      BY <2>0, <2>3 DEF Ended, Store!Ends
    <2> QED
      BY <2>0, <2>1, <2>2, <2>3
  <1> QED
    BY <1>1, <1>2, <1>3, <1>4, <1>5, <1>6, <1>7, <1>8, <1>9, <1>10, <1>11, <1>12, <1>13, <1>14,
       <1>15, <1>16, <1>17, <1>18, <1>19 DEF Store!Step

\* A key is made once: the file is made exclusively (Load).
LEMMA KeysStep ==
    ASSUME StoreInv, NEW p \in Starters, Store!Step(p)
    PROVE  KeysHold'
  <1> USE DEF StoreInv, StoreTypes, KeysHold, FileTypes, PlaceTypes, OpeningsHold, Opens,
  Connected, Store!At, Store!Go, Store!Idle, Store!Nowhere, Store!Nobody
  <1>1. CASE Store!Start(p)
    BY <1>1 DEF Store!Start, Store!files
  <1>2. CASE Store!Close(p) \/ Store!Crash(p)
    BY <1>2 DEF Store!Close, Store!Ends, Store!files, Store!ghosts, Store!Crash
  <1>3. CASE Store!StatNew(p)
    BY <1>3 DEF Store!StatNew, Store!Credentials
  <1>4. CASE Store!StatOld(p)
    BY <1>4 DEF Store!StatOld, Store!Credentials
  <1>5. CASE Store!Move(p)
    BY <1>5 DEF Store!Move, Store!Credentials
  <1>6. CASE Store!Copy(p) \/ Store!Unlink(p)
    BY <1>6 DEF Store!Copy, Store!Credentials, Store!Unlink
  <1>7. CASE Store!ReadKey(p)
    BY <1>7 DEF Store!ReadKey, Store!HostKey, Store!HasKey, Store!Use
  <1>8. CASE Store!MakeKey(p)
    BY <1>8 DEF Store!MakeKey, Store!HostKey, Store!HasKey, Store!Use
  <1>9. CASE Store!WriteKey(p)
    BY <1>9 DEF Store!WriteKey, Store!HostKey, Store!Use
  <1>10. CASE Store!StatLegacy(p) \/ Store!Entries(p) \/ Store!Lock(p) \/ Store!Unlock(p) \/
              Store!OpenLegacy(p) \/ Store!SetAside(p) \/ Store!Insert(p) \/
              Store!Publish(p)
    BY <1>10 DEF Store!StatLegacy, Store!Adopting, Store!Entries, Store!Lock, Store!Unlock,
       Store!OpenLegacy, Store!SetAside, Store!Complete, Store!Insert, Store!Publish
  <1>11. CASE Store!Identity(p) \/ Store!Journal(p)
    BY <1>11 DEF Store!Identity, Store!Opening, Store!Reached, Store!Schema, Store!Journal
  <1>12. CASE Store!Migrate(p)
    BY <1>12 DEF Store!Migrate, Store!Opening, Store!Opened, Store!Reached, Store!Schema
  <1>13. CASE Store!Apply(p)
    BY <1>13 DEF Store!Apply, Store!Opening, Store!Opened, Store!Reached, Store!Schema,
       Store!Applies
  <1>14. CASE Store!Row(p) \/ Store!Index(p)
    BY <1>14 DEF Store!Row, Store!Running, Store!Reached, Store!Index
  <1>15. ASSUME NEW s \in Store!Histories, Store!Adopt(p, s) PROVE KeysHold'
    BY <1>15 DEF Store!Adopt, Store!Adopting
  <1>16. ASSUME NEW s \in Store!Histories, Store!Session(p, s) \/ Store!Create(p, s)
         PROVE  KeysHold'
    BY <1>16 DEF Store!Session, Store!Running, Store!Create
  <1>17. ASSUME NEW s \in Store!Histories, Store!Remove(p, s) PROVE KeysHold'
    BY <1>17 DEF Store!Remove, Store!Running, Store!Gone
  <1>18. CASE Store!Fail(p)
    <2>0. /\ Undone(p) \/ Refused(p) \/ Ended(p)
          /\ dPc[p] \notin {"off", "up"} /\ UNCHANGED <<crossing, cred, legacy>>
          /\ faults' = faults \/ faults' = faults + 1
          /\ dTorn' = (dTorn \/ dPc[p] = "copy")
          /\ hostKey' = IF dPc[p] = "writekey" THEN << >> ELSE hostKey
      BY <1>18, FailCases DEF Store!At
    <2>1. CASE Undone(p)
      BY <2>0, <2>1 DEF Undone, Store!Gone
    <2>2. CASE Refused(p)
      BY <2>0, <2>2 DEF Refused
    <2>3. CASE Ended(p)
      BY <2>0, <2>3 DEF Ended, Store!Ends
    <2> QED
      BY <2>0, <2>1, <2>2, <2>3
  <1> QED
    BY <1>1, <1>2, <1>3, <1>4, <1>5, <1>6, <1>7, <1>8, <1>9, <1>10, <1>11, <1>12, <1>13, <1>14,
       <1>15, <1>16, <1>17, <1>18 DEF Store!Step

\* Places and openings change together.
LEMMA OpeningsStep ==
    ASSUME StoreInv, NEW p \in Starters, Store!Step(p)
    PROVE  OpeningsHold'
  <1> USE DEF StoreInv, StoreTypes, OpeningsHold, PlaceTypes, OpeningTypes, Openings, Opens,
  Connected, Store!At, Store!Go, Store!Idle, Store!Nowhere, Store!Nobody
  <1>1. CASE Store!Start(p)
    BY <1>1 DEF Store!Start, Store!files
  <1>2. CASE Store!Close(p) \/ Store!Crash(p)
    BY <1>2 DEF Store!Close, Store!Ends, Store!files, Store!ghosts, Store!Crash
  <1>3. CASE Store!StatNew(p) \/ Store!StatOld(p) \/ Store!Copy(p) \/ Store!Unlink(p)
    BY <1>3 DEF Store!StatNew, Store!Credentials, Store!StatOld, Store!Copy, Store!Unlink
  <1>4. CASE Store!Move(p)
    BY <1>4 DEF Store!Move, Store!Credentials
  <1>5. CASE Store!ReadKey(p)
    BY <1>5 DEF Store!ReadKey, Store!HostKey, Store!HasKey, Store!Use
  <1>6. CASE Store!MakeKey(p)
    BY <1>6 DEF Store!MakeKey, Store!HostKey, Store!HasKey, Store!Use
  <1>7. CASE Store!WriteKey(p)
    BY <1>7 DEF Store!WriteKey, Store!HostKey, Store!Use
  <1>8. CASE Store!StatLegacy(p) \/ Store!Entries(p)
    BY <1>8 DEF Store!StatLegacy, Store!Adopting, Store!Entries
  <1>9. CASE Store!Lock(p) \/ Store!Unlock(p) \/ Store!OpenLegacy(p) \/ Store!SetAside(p)
    BY <1>9 DEF Store!Lock, Store!Adopting, Store!Unlock, Store!OpenLegacy, Store!SetAside,
       Store!Complete
  <1>10. CASE Store!Insert(p)
    BY <1>10 DEF Store!Insert, Store!Adopting
  <1>11. CASE Store!Publish(p)
    BY <1>11 DEF Store!Publish, Store!Adopting
  <1>12. CASE Store!Identity(p)
    BY <1>12 DEF Store!Identity, Store!Opening, Store!Reached, Store!Schema
  <1>13. CASE Store!Journal(p)
    BY <1>13 DEF Store!Journal, Store!Opening, Store!Reached, Store!Schema
  <1>14. CASE Store!Migrate(p)
    <2>1. CASE Store!Opened(p)
      BY <1>14, <2>1, MigrateCases, OpenedCases
    <2>2. CASE ~Store!Opened(p)
      BY <1>14, <2>2, MigrateCases
    <2> QED
      BY <2>1, <2>2
  <1>15. CASE Store!Apply(p)
    BY <1>15 DEF Store!Apply, Store!Opening, Store!Opened, Store!Reached, Store!Schema,
       Store!Applies
  <1>16. CASE Store!Row(p)
    BY <1>16 DEF Store!Row, Store!Running, Store!Reached
  <1>17. CASE Store!Index(p)
    BY <1>17 DEF Store!Index, Store!Running, Store!Reached
  <1>18. ASSUME NEW s \in Store!Histories, Store!Adopt(p, s) PROVE OpeningsHold'
    BY <1>18 DEF Store!Adopt, Store!Adopting
  <1>19. ASSUME NEW s \in Store!Histories, Store!Session(p, s) PROVE OpeningsHold'
    BY <1>19 DEF Store!Session, Store!Running
  <1>20. ASSUME NEW s \in Store!Histories, Store!Create(p, s) PROVE OpeningsHold'
    BY <1>20 DEF Store!Create, Store!Running
  <1>21. ASSUME NEW s \in Store!Histories, Store!Remove(p, s) PROVE OpeningsHold'
    BY <1>21 DEF Store!Remove, Store!Running, Store!Gone
  <1>22. CASE Store!Fail(p)
    <2>0. /\ Undone(p) \/ Refused(p) \/ Ended(p)
          /\ dPc[p] \notin {"off", "up"} /\ UNCHANGED <<crossing, cred, legacy>>
          /\ faults' = faults \/ faults' = faults + 1
          /\ dTorn' = (dTorn \/ dPc[p] = "copy")
          /\ hostKey' = IF dPc[p] = "writekey" THEN << >> ELSE hostKey
      BY <1>22, FailCases DEF Store!At
    <2>1. CASE Undone(p)
      BY <2>0, <2>1 DEF Undone, Store!Gone
    <2>2. CASE Refused(p)
      BY <2>0, <2>2 DEF Refused
    <2>3. CASE Ended(p)
      BY <2>0, <2>3 DEF Ended, Store!Ends
    <2> QED
      BY <2>0, <2>1, <2>2, <2>3
  <1> QED
    BY <1>1, <1>2, <1>3, <1>4, <1>5, <1>6, <1>7, <1>8, <1>9, <1>10, <1>11, <1>12, <1>13, <1>14,
       <1>15, <1>16, <1>17, <1>18, <1>19, <1>20, <1>21, <1>22 DEF Store!Step

\* Only who made the lock removes it.
LEMMA LockStep ==
    ASSUME StoreInv, NEW p \in Starters, Store!Step(p)
    PROVE  LockHolds'
  <1> USE DEF StoreInv, StoreTypes, LockHolds, OpeningsHold, FileTypes, PlaceTypes, OpeningTypes,
  Openings, Opens, Connected, Store!Locked, Store!OneAdopter, Store!At, Store!Go, Store!Idle,
  Store!Nowhere, Store!Nobody
  <1>1. CASE Store!Start(p)
    BY <1>1 DEF Store!Start, Store!files
  <1>2. CASE Store!Close(p) \/ Store!Crash(p)
    <2>1. CASE Store!Close(p)
      BY <2>1 DEF Store!Close, Store!Ends, Store!files, Store!ghosts
    <2>2. CASE Store!Crash(p)
      BY <2>2 DEF Store!Crash, Store!Ends, Store!files
    <2> QED
      BY <1>2, <2>1, <2>2
  <1>3. CASE Store!StatNew(p) \/ Store!StatOld(p) \/ Store!Copy(p) \/ Store!Unlink(p)
    BY <1>3 DEF Store!StatNew, Store!Credentials, Store!StatOld, Store!Copy, Store!Unlink
  <1>4. CASE Store!Move(p)
    BY <1>4 DEF Store!Move, Store!Credentials
  <1>5. CASE Store!ReadKey(p)
    BY <1>5 DEF Store!ReadKey, Store!HostKey, Store!HasKey, Store!Use
  <1>6. CASE Store!MakeKey(p)
    BY <1>6 DEF Store!MakeKey, Store!HostKey, Store!HasKey, Store!Use
  <1>7. CASE Store!WriteKey(p)
    BY <1>7 DEF Store!WriteKey, Store!HostKey, Store!Use
  <1>8. CASE Store!StatLegacy(p) \/ Store!Entries(p)
    BY <1>8 DEF Store!StatLegacy, Store!Adopting, Store!Entries
  <1>9. CASE Store!Lock(p)
    BY <1>9 DEF Store!Lock, Store!Adopting
  <1>10. CASE Store!Unlock(p)
    BY <1>10 DEF Store!Unlock, Store!Adopting
  <1>11. CASE Store!OpenLegacy(p)
    BY <1>11 DEF Store!OpenLegacy, Store!Adopting
  <1>12. CASE Store!SetAside(p)
    BY <1>12 DEF Store!SetAside, Store!Adopting, Store!Complete
  <1>13. CASE Store!Insert(p)
    BY <1>13 DEF Store!Insert, Store!Adopting
  <1>14. CASE Store!Publish(p)
    BY <1>14 DEF Store!Publish, Store!Adopting
  <1>15. CASE Store!Identity(p)
    BY <1>15 DEF Store!Identity, Store!Opening, Store!Reached, Store!Schema
  <1>16. CASE Store!Journal(p)
    BY <1>16 DEF Store!Journal, Store!Opening, Store!Reached, Store!Schema
  <1>17. CASE Store!Migrate(p)
    BY <1>17 DEF Store!Migrate, Store!Opening, Store!Opened, Store!Reached, Store!Schema
  <1>18. CASE Store!Apply(p)
    <2>0. dPc[p] = "apply" /\ UNCHANGED <<dLock, faults>>
      BY <1>18, ApplyCases
    <2>1. CASE Store!Opened(p)
      <3>1. \/ opening[p].why = "adopt" /\ Store!Go(p, "insert") /\ UNCHANGED opening
            \/ opening[p].why = "create" /\ Store!Go(p, "row") /\ UNCHANGED opening
            \/ /\ opening[p].why \notin {"adopt", "create"} /\ Store!Go(p, "up")
               /\ opening' = [opening EXCEPT ![p] = Store!Idle]
        BY <2>1, OpenedCases
      <3>2. \A q \in Starters : (Store!Locked(q))' <=> Store!Locked(q)
        BY <2>0, <3>1
      <3> QED
        BY <2>0, <3>2
    <2>2. CASE ~Store!Opened(p)
      <3>1. /\ \A q \in Starters : opening'[q].why = opening[q].why
            /\ UNCHANGED dPc
        BY <1>18, <2>2, ApplyCases
      <3>2. \A q \in Starters : (Store!Locked(q))' <=> Store!Locked(q)
        BY <3>1
      <3> QED
        BY <2>0, <3>2
    <2> QED
      BY <2>1, <2>2
  <1>19. CASE Store!Row(p)
    BY <1>19 DEF Store!Row, Store!Running, Store!Reached
  <1>20. CASE Store!Index(p)
    BY <1>20 DEF Store!Index, Store!Running, Store!Reached
  <1>21. ASSUME NEW s \in Store!Histories, Store!Adopt(p, s) PROVE LockHolds'
    BY <1>21 DEF Store!Adopt, Store!Adopting
  <1>22. ASSUME NEW s \in Store!Histories, Store!Session(p, s) PROVE LockHolds'
    BY <1>22 DEF Store!Session, Store!Running
  <1>23. ASSUME NEW s \in Store!Histories, Store!Create(p, s) PROVE LockHolds'
    BY <1>23 DEF Store!Create, Store!Running
  <1>24. ASSUME NEW s \in Store!Histories, Store!Remove(p, s) PROVE LockHolds'
    <2>1. dPc[p] = "up" /\ UNCHANGED <<dPc, dLock, faults>> /\ Store!Gone(p, s)
      BY <1>24 DEF Store!Remove, Store!Running
    <2>2. \A q \in Starters : opening'[q].why = opening[q].why
      BY <2>1, GoneDoes
    <2> QED
      BY <2>1, <2>2
  <1>25. CASE Store!Fail(p)
    <2>0. /\ Undone(p) \/ Refused(p) \/ Ended(p)
          /\ dPc[p] \notin {"off", "up"} /\ UNCHANGED <<crossing, cred, legacy>>
          /\ faults' = faults \/ faults' = faults + 1
          /\ dTorn' = (dTorn \/ dPc[p] = "copy")
          /\ hostKey' = IF dPc[p] = "writekey" THEN << >> ELSE hostKey
      BY <1>25, FailCases DEF Store!At
    <2>1. CASE Undone(p)
      BY <2>0, <2>1 DEF Undone, Store!Gone
    <2>2. CASE Refused(p)
      BY <2>0, <2>2 DEF Refused
    <2>3. CASE Ended(p)
      <3>1. CASE Store!Locked(p)
        <4>1. /\ dPc' = [dPc EXCEPT ![p] = "off"] /\ opening' = [opening EXCEPT ![p] = Store!Idle]
              /\ dLock' = FALSE
          BY <2>3, <3>1 DEF Ended, Store!Ends
        <4>2. \A q \in Starters : ~Store!Locked(q)'
          BY <3>1, <4>1
        <4> QED
          BY <4>1, <4>2
      <3>2. CASE ~Store!Locked(p)
        BY <2>0, <2>3, <3>2 DEF Ended, Store!Ends
      <3> QED
        BY <3>1, <3>2
    <2> QED
      BY <2>0, <2>1, <2>2, <2>3
  <1> QED
    BY <1>1, <1>2, <1>3, <1>4, <1>5, <1>6, <1>7, <1>8, <1>9, <1>10, <1>11, <1>12, <1>13, <1>14,
       <1>15, <1>16, <1>17, <1>18, <1>19, <1>20, <1>21, <1>22, <1>23, <1>24, <1>25 DEF Store!Step

\* The shared database is set aside when nothing is left to adopt (AdoptLegacy).
LEMMA HistoriesStep ==
    ASSUME StoreInv, NEW p \in Starters, Store!Step(p)
    PROVE  HistoriesHold'
  <1> USE DEF StoreInv, StoreTypes, HistoriesHold, OpeningsHold, FileTypes, PlaceTypes,
  OpeningTypes, Openings, Opens, Connected, Store!HistoryKept, TodoTypes, Store!At, Store!Go,
  Store!Idle, Store!Nowhere, Store!Nobody
  <1>1. CASE Store!Start(p)
    BY <1>1 DEF Store!Start, Store!files
  <1>2. CASE Store!Close(p) \/ Store!Crash(p)
    <2>1. /\ dPc' = [dPc EXCEPT ![p] = "off"] /\ handles' = [handles EXCEPT ![p] = {}]
          /\ opening' = [opening EXCEPT ![p] = Store!Idle]
          /\ UNCHANGED <<legacy, dirs, rows, listed, schema, removed>>
          /\ todo' = [todo EXCEPT ![p] = {}]
      BY <1>2 DEF Store!Close, Store!Crash, Store!Ends, Store!files, Store!ghosts
    <2> QED
      BY <2>1
  <1>3. CASE Store!StatNew(p) \/ Store!StatOld(p) \/ Store!Copy(p) \/ Store!Unlink(p)
    BY <1>3 DEF Store!StatNew, Store!Credentials, Store!StatOld, Store!Copy, Store!Unlink
  <1>4. CASE Store!Move(p)
    BY <1>4 DEF Store!Move, Store!Credentials
  <1>5. CASE Store!ReadKey(p)
    BY <1>5 DEF Store!ReadKey, Store!HostKey, Store!HasKey, Store!Use
  <1>6. CASE Store!MakeKey(p)
    BY <1>6 DEF Store!MakeKey, Store!HostKey, Store!HasKey, Store!Use
  <1>7. CASE Store!WriteKey(p)
    BY <1>7 DEF Store!WriteKey, Store!HostKey, Store!Use
  <1>8. CASE Store!StatLegacy(p) \/ Store!Entries(p)
    BY <1>8 DEF Store!StatLegacy, Store!Adopting, Store!Entries
  <1>9. CASE Store!Lock(p)
    BY <1>9 DEF Store!Lock, Store!Adopting
  <1>10. CASE Store!Unlock(p)
    BY <1>10 DEF Store!Unlock, Store!Adopting
  <1>11. CASE Store!OpenLegacy(p)
    BY <1>11 DEF Store!OpenLegacy, Store!Adopting
  <1>12. CASE Store!SetAside(p)
    BY <1>12 DEF Store!SetAside, Store!Adopting, Store!Complete
  <1>13. CASE Store!Insert(p)
    BY <1>13 DEF Store!Insert, Store!Adopting
  <1>14. CASE Store!Publish(p)
    BY <1>14 DEF Store!Publish, Store!Adopting
  <1>15. CASE Store!Identity(p)
    BY <1>15 DEF Store!Identity, Store!Opening, Store!Reached, Store!Schema
  <1>16. CASE Store!Journal(p)
    BY <1>16 DEF Store!Journal, Store!Opening, Store!Reached, Store!Schema
  <1>17. CASE Store!Migrate(p)
    BY <1>17 DEF Store!Migrate, Store!Opening, Store!Opened, Store!Reached, Store!Schema
  <1>18. CASE Store!Apply(p)
    BY <1>18 DEF Store!Apply, Store!Opening, Store!Opened, Store!Reached, Store!Schema,
       Store!Applies
  <1>19. CASE Store!Row(p)
    BY <1>19 DEF Store!Row, Store!Running, Store!Reached
  <1>20. CASE Store!Index(p)
    BY <1>20 DEF Store!Index, Store!Running, Store!Reached
  <1>21. ASSUME NEW s \in Store!Histories, Store!Adopt(p, s) PROVE HistoriesHold'
    BY <1>21, ServicesAssumption DEF Store!Adopt, Store!Adopting, DatabasesHold, ConnectionHolds
  <1>22. ASSUME NEW s \in Store!Histories, Store!Session(p, s) PROVE HistoriesHold'
    BY <1>22 DEF Store!Session, Store!Running
  <1>23. ASSUME NEW s \in Store!Histories, Store!Create(p, s) PROVE HistoriesHold'
    BY <1>23, ServicesAssumption DEF Store!Create, Store!Running, DatabasesHold, ConnectionHolds
  <1>24. ASSUME NEW s \in Store!Histories, Store!Remove(p, s) PROVE HistoriesHold'
    <2>1. /\ Store!Gone(p, s) /\ UNCHANGED <<dPc, legacy, todo>>
      BY <1>24 DEF Store!Remove, Store!Running
    <2> QED
      BY <2>1, <1>24, GoneHistories
  <1>25. CASE Store!Fail(p)
    <2>0. /\ Undone(p) \/ Refused(p) \/ Ended(p)
          /\ dPc[p] \notin {"off", "up"} /\ UNCHANGED <<crossing, cred, legacy>>
          /\ faults' = faults \/ faults' = faults + 1
          /\ dTorn' = (dTorn \/ dPc[p] = "copy")
          /\ hostKey' = IF dPc[p] = "writekey" THEN << >> ELSE hostKey
      BY <1>25, FailCases DEF Store!At
    <2>1. CASE Undone(p)
      BY <2>0, <2>1, GoneHistories DEF Undone
    <2>2. CASE Refused(p)
      BY <2>0, <2>2 DEF Refused
    <2>3. CASE Ended(p)
      BY <2>0, <2>3 DEF Ended, Store!Ends
    <2> QED
      BY <2>0, <2>1, <2>2, <2>3
  <1> QED
    BY <1>1, <1>2, <1>3, <1>4, <1>5, <1>6, <1>7, <1>8, <1>9, <1>10, <1>11, <1>12, <1>13, <1>14,
       <1>15, <1>16, <1>17, <1>18, <1>19, <1>20, <1>21, <1>22, <1>23, <1>24, <1>25 DEF Store!Step

\* A migration that another process applied meanwhile is refused by the journal.
LEMMA DatabasesStep ==
    ASSUME StoreInv, NEW p \in Starters, Store!Step(p)
    PROVE  DatabasesHold'
  <1> USE DEF StoreInv, StoreTypes, DatabasesHold, HistoriesHold, OpeningsHold, SchemaTypes,
  DirectoryTypes, HandleTypes, PlaceTypes, OpeningTypes, Openings, Opens, Connected, Filled,
  ConnectionHolds, Store!MigratedOnce, Store!HandlesAreMigrated, Store!ListedIsWhole, Store!At,
  Store!Go, Store!Idle, Store!Nowhere, Store!Nobody
  <1>1. CASE Store!Start(p)
    BY <1>1 DEF Store!Start, Store!files
  <1>2. CASE Store!Close(p) \/ Store!Crash(p)
    <2>1. /\ dPc' = [dPc EXCEPT ![p] = "off"] /\ handles' = [handles EXCEPT ![p] = {}]
          /\ opening' = [opening EXCEPT ![p] = Store!Idle]
          /\ UNCHANGED <<legacy, dirs, rows, listed, schema, removed>>
          /\ todo' = [todo EXCEPT ![p] = {}]
      BY <1>2 DEF Store!Close, Store!Crash, Store!Ends, Store!files, Store!ghosts
    <2> QED
      BY <2>1
  <1>3. CASE Store!StatNew(p)
    BY <1>3 DEF Store!StatNew, Store!Credentials
  <1>4. CASE Store!StatOld(p)
    BY <1>4 DEF Store!StatOld, Store!Credentials
  <1>5. CASE Store!Copy(p)
    BY <1>5 DEF Store!Copy, Store!Credentials
  <1>6. CASE Store!Unlink(p)
    BY <1>6 DEF Store!Unlink, Store!Credentials
  <1>7. CASE Store!Move(p)
    BY <1>7 DEF Store!Move, Store!Credentials
  <1>8. CASE Store!ReadKey(p)
    BY <1>8 DEF Store!ReadKey, Store!HostKey, Store!HasKey, Store!Use
  <1>9. CASE Store!MakeKey(p)
    BY <1>9 DEF Store!MakeKey, Store!HostKey, Store!HasKey, Store!Use
  <1>10. CASE Store!WriteKey(p)
    BY <1>10 DEF Store!WriteKey, Store!HostKey, Store!Use
  <1>11. CASE Store!StatLegacy(p) \/ Store!Entries(p)
    BY <1>11 DEF Store!StatLegacy, Store!Adopting, Store!Entries
  <1>12. CASE Store!Lock(p)
    BY <1>12 DEF Store!Lock, Store!Adopting
  <1>13. CASE Store!Unlock(p)
    BY <1>13 DEF Store!Unlock, Store!Adopting
  <1>14. CASE Store!OpenLegacy(p)
    BY <1>14 DEF Store!OpenLegacy, Store!Adopting
  <1>15. CASE Store!SetAside(p)
    BY <1>15 DEF Store!SetAside, Store!Adopting, Store!Complete
  <1>16. CASE Store!Insert(p)
    BY <1>16 DEF Store!Insert, Store!Adopting
  <1>17. CASE Store!Publish(p)
    BY <1>17 DEF Store!Publish, Store!Adopting
  <1>18. CASE Store!Identity(p)
    BY <1>18 DEF Store!Identity, Store!Opening, Store!Reached, Store!Schema
  <1>19. CASE Store!Journal(p)
    <2>1. PICK s \in dirs : s = opening[p].session
      BY <1>19 DEF Store!Journal, Store!Reached
    <2>2. /\ s \in Store!Histories /\ schema[s] = << >> /\ schema' = [schema EXCEPT ![s] = <<0>>]
          /\ Store!Go(p, "migrate") /\ UNCHANGED <<dirs, rows, listed, handles, opening>>
      BY <1>19, <2>1 DEF Store!Journal, Store!Opening, Store!Schema
    <2>3. <<0>> \in Seq(Nat) /\ Len(<<0>>) = 1 /\ <<0>>[1] = 0 /\ DOMAIN <<0>> = 1..1
          /\ Len(<< >>) = 0 /\ <<0>> # << >>
      OBVIOUS
    <2>4. \A t \in Store!Histories \ {s} : schema'[t] = schema[t]
      BY <2>2
    <2>5. schema'[s] = <<0>>
      BY <2>2
    <2>6. \A q \in Starters : s \notin handles[q]
      <3>1. Len(schema[s]) - 1 = -1
        BY <2>2, <2>3
      <3>2. \A q \in Starters : s \in handles[q] => -1 >= Knows[q]
        BY <3>1
      <3> QED
        BY <3>2, ServicesAssumption
    <2>7. Store!MigratedOnce' /\ Store!HandlesAreMigrated' /\ Store!ListedIsWhole'
      BY <2>2, <2>3, <2>4, <2>5, <2>6
    <2>8. ASSUME NEW q \in Starters PROVE ConnectionHolds(q)'
      <3>1. dPc[q] = "apply" => opening[q].session # s
        BY <2>2, <2>3, <2>1
      <3>2. /\ opening'[q] = opening[q]
            /\ dPc'[q] = dPc[q] \/ (dPc'[q] = "migrate" /\ dPc[q] = "journal")
        BY <1>19, <2>2 DEF Store!Journal, Store!Opening
      <3>3. CASE opening[q].session = s
        BY <2>1, <2>2, <2>3, <2>5, <3>1, <3>2, <3>3
      <3>4. CASE opening[q].session # s
        BY <2>1, <2>2, <2>4, <3>2, <3>4
      <3> QED
        BY <3>3, <3>4
    <2> QED
      BY <2>7, <2>8
  <1>20. CASE Store!Migrate(p)
    <2>1. PICK s \in dirs : s = opening[p].session
      BY <1>20, MigrateCases
    <2>2. PICK n : n = Len(schema[s])
      OBVIOUS
    <2>3. s \in Store!Histories /\ n \in Nat /\ n # 0 /\ Knows[p] \in Nat
      BY <1>20, <2>1, <2>2, MigrateCases, EmptySeq, ServicesAssumption
    <2>4. UNCHANGED <<dirs, rows, listed, schema>> /\ dPc[p] = "migrate"
      BY <1>20, MigrateCases
    <2>5. CASE n = Knows[p] + 1 /\ Store!Opened(p)
      <3>1. \/ UNCHANGED handles \/ handles' = [handles EXCEPT ![p] = @ \cup {s}]
        BY <2>1, <2>5, OpenedCases
      <3>2. Store!HandlesAreMigrated'
        <4>1. Len(schema[s]) - 1 >= Knows[p]
          BY <2>2, <2>3, <2>5
        <4>2. \A q \in Starters : \A t \in handles'[q] : t \in handles[q] \/ (q = p /\ t = s)
          BY <3>1
        <4> QED
          BY <2>1, <2>4, <4>1, <4>2
      <3>3. \/ UNCHANGED opening /\ \E x \in {"insert", "row"} : dPc' = [dPc EXCEPT ![p] = x]
            \/ dPc' = [dPc EXCEPT ![p] = "up"] /\ opening' = [opening EXCEPT ![p] = Store!Idle]
        BY <2>5, OpenedCases
      <3>4. \A q \in Starters : ConnectionHolds(q)'
        <4>1. \A q \in Starters \ {p} : ConnectionHolds(q)'
          BY <2>4, <3>3
        <4>2. dPc'[p] \in {"insert", "row", "up"} /\ opening'[p] \in {opening[p], Store!Idle}
          BY <3>3
        <4>3. ConnectionHolds(p)'
          BY <2>4, <3>3, <4>2
        <4> QED
          BY <4>1, <4>3
      <3> QED
        BY <2>4, <3>2, <3>4
    <2>6. CASE /\ n <= Knows[p] /\ UNCHANGED handles /\ Store!Go(p, "apply")
               /\ opening' = [opening EXCEPT ![p] = [opening[p] EXCEPT !.next = n]]
      <3>1. ConnectionHolds(p)'
        <4>1. opening'[p].session = s /\ opening'[p].next = n /\ dPc'[p] = "apply"
          BY <2>1, <2>6
        <4> QED
          BY <2>1, <2>2, <2>3, <2>4, <2>6, <4>1
      <3>2. \A q \in Starters \ {p} : ConnectionHolds(q)'
        BY <2>4, <2>6
      <3> QED
        BY <2>4, <2>6, <3>1, <3>2
    <2> QED
      BY <1>20, <2>1, <2>2, <2>5, <2>6, MigrateCases
  <1>21. CASE Store!Apply(p)
    <2>1. PICK s \in dirs : s = opening[p].session
      BY <1>21, ApplyCases
    <2>2. PICK n : n = Len(schema[s])
      OBVIOUS
    <2>3. PICK x : x = opening[p].next
      OBVIOUS
    <2>4. /\ s \in Store!Histories /\ n \in Nat /\ Knows[p] \in Nat
          /\ x \in 1..n /\ x <= Knows[p] /\ schema[s] \in Seq(Nat)
      BY <1>21, <2>1, <2>2, <2>3, ApplyCases, ServicesAssumption
    <2>5. x = n
      <3>1. DOMAIN schema[s] = 1..n
        BY <2>2, <2>4
      <3>2. \A i \in DOMAIN schema[s] : schema[s][i] = i - 1
        BY <2>4
      <3>3. x < n => x + 1 \in 1..n /\ schema[s][x + 1] = x
        <4>1. x < n => x + 1 \in 1..n
          BY <2>4
        <4>2. x + 1 \in 1..n => schema[s][x + 1] = (x + 1) - 1
          BY <3>1, <3>2
        <4> QED
          BY <2>4, <4>1, <4>2
      <3>4. x + 1 \in 1..n => schema[s][x + 1] # x
        BY <1>21, <2>1, <2>3, <3>1, ApplyCases
      <3> QED
        BY <2>4, <3>3, <3>4
    <2>6. PICK a : a = Append(schema[s], n)
      OBVIOUS
    <2>7. /\ a \in Seq(Nat) /\ Len(a) = n + 1 /\ DOMAIN a = 1..(n + 1) /\ a # << >>
          /\ \A i \in 1..(n + 1) : a[i] = i - 1
      <3>1. Len(a) = n + 1 /\ a \in Seq(Nat)
        BY <2>2, <2>4, <2>6, AppendProperties
      <3>2. a[n + 1] = n /\ \A i \in 1..n : a[i] = schema[s][i]
        BY <2>2, <2>4, <2>6, AppendProperties
      <3>3. \A i \in 1..n : schema[s][i] = i - 1
        <4>1. DOMAIN schema[s] = 1..n
          BY <2>2, <2>4
        <4> QED
          BY <2>4, <4>1
      <3> QED
        BY <2>4, <3>1, <3>2, <3>3
    <2>8. /\ UNCHANGED <<dirs, rows, listed>> /\ dPc[p] = "apply"
          /\ schema' = [schema EXCEPT ![s] = a]
      <3>1. schema' = [schema EXCEPT ![opening[p].session] =
                         Append(schema[opening[p].session], opening[p].next)]
        BY <1>21, ApplyCases
      <3>2. Append(schema[opening[p].session], opening[p].next) = a
        BY <2>1, <2>3, <2>5, <2>6
      <3>3. schema' = [schema EXCEPT ![s] = a]
        BY <2>1, <3>1, <3>2
      <3> QED
        BY <1>21, <3>3, ApplyCases
    <2>9. schema'[s] = a /\ \A t \in Store!Histories \ {s} : schema'[t] = schema[t]
      BY <2>4, <2>8
    <2>10. Store!MigratedOnce' /\ Store!ListedIsWhole'
      BY <2>7, <2>8, <2>9
    <2>11. \A q \in Starters : \A t \in handles[q] : t \in dirs' /\ Len(schema'[t]) - 1 >= Knows[q]
      BY <2>2, <2>4, <2>7, <2>8, <2>9, ServicesAssumption
    <2>12. \A q \in Starters : opening'[q] = opening[q] /\ dPc'[q] = dPc[q] => ConnectionHolds(q)'
      BY <2>2, <2>4, <2>7, <2>8, <2>9
    <2>13. CASE x = Knows[p] /\ Store!Opened(p)
      <3>1. \/ UNCHANGED handles \/ handles' = [handles EXCEPT ![p] = @ \cup {s}]
        BY <2>1, <2>13, OpenedCases
      <3>2. Store!HandlesAreMigrated'
        <4>1. Len(schema'[s]) - 1 >= Knows[p]
          BY <2>4, <2>5, <2>7, <2>9, <2>13
        <4>2. \A q \in Starters : \A t \in handles'[q] : t \in handles[q] \/ (q = p /\ t = s)
          BY <3>1
        <4> QED
          BY <2>1, <2>8, <2>11, <4>1, <4>2
      <3>3. \/ UNCHANGED opening /\ \E y \in {"insert", "row"} : dPc' = [dPc EXCEPT ![p] = y]
            \/ dPc' = [dPc EXCEPT ![p] = "up"] /\ opening' = [opening EXCEPT ![p] = Store!Idle]
        BY <2>13, OpenedCases
      <3>4. ConnectionHolds(p)'
        BY <2>1, <2>7, <2>8, <2>9, <3>3
      <3>5. \A q \in Starters \ {p} : ConnectionHolds(q)'
        BY <2>12, <3>3
      <3> QED
        BY <2>10, <3>2, <3>4, <3>5
    <2>14. CASE /\ x # Knows[p] /\ UNCHANGED <<dPc, handles>>
                /\ opening' = [opening EXCEPT ![p] = [opening[p] EXCEPT !.next = x + 1]]
      <3>1. Store!HandlesAreMigrated'
        BY <2>11, <2>14
      <3>2. ConnectionHolds(p)'
        <4>1. opening'[p].session = s /\ opening'[p].next = n + 1 /\ dPc'[p] = "apply"
          BY <2>1, <2>5, <2>8, <2>14
        <4> QED
          BY <2>1, <2>4, <2>5, <2>7, <2>8, <2>9, <2>14, <4>1
      <3>3. \A q \in Starters \ {p} : ConnectionHolds(q)'
        BY <2>12, <2>14
      <3> QED
        BY <2>10, <3>1, <3>2, <3>3
    <2> QED
      BY <1>21, <2>3, <2>13, <2>14, ApplyCases
  <1>22. CASE Store!Row(p)
    BY <1>22 DEF Store!Row, Store!Running, Store!Reached
  <1>23. CASE Store!Index(p)
    BY <1>23 DEF Store!Index, Store!Running, Store!Reached
  <1>24. ASSUME NEW s \in Store!Histories, Store!Adopt(p, s) PROVE DatabasesHold'
    <2>1. /\ dirs' = dirs \cup {s} /\ UNCHANGED <<rows, listed, schema, handles>>
          /\ dPc' = [dPc EXCEPT ![p] = "identity"]
          /\ \A q \in Starters \ {p} : opening'[q] = opening[q]
      BY <1>24 DEF Store!Adopt, Store!Adopting
    <2>2. s # "none"
      BY ServicesAssumption DEF Store!Histories
    <2>3. Store!MigratedOnce' /\ Store!HandlesAreMigrated' /\ Store!ListedIsWhole'
      BY <2>1
    <2>4. ASSUME NEW q \in Starters PROVE ConnectionHolds(q)'
      BY <2>1, <2>2
    <2> QED
      BY <2>3, <2>4
  <1>25. ASSUME NEW s \in Store!Histories, Store!Session(p, s) PROVE DatabasesHold'
    BY <1>25 DEF Store!Session, Store!Running
  <1>26. ASSUME NEW s \in Store!Histories, Store!Create(p, s) PROVE DatabasesHold'
    BY <1>26, ServicesAssumption DEF Store!Create, Store!Running
  <1>27. ASSUME NEW s \in Store!Histories, Store!Remove(p, s) PROVE DatabasesHold'
    <2>1. Store!Gone(p, s) /\ dPc[p] = "up" /\ UNCHANGED dPc
      BY <1>27 DEF Store!Remove, Store!Running
    <2> QED
      BY <2>1, GoneDatabases
  <1>28. CASE Store!Fail(p)
    <2>0. /\ Undone(p) \/ Refused(p) \/ Ended(p)
          /\ dPc[p] \notin {"off", "up"} /\ UNCHANGED <<crossing, cred, legacy>>
          /\ faults' = faults \/ faults' = faults + 1
          /\ dTorn' = (dTorn \/ dPc[p] = "copy")
          /\ hostKey' = IF dPc[p] = "writekey" THEN << >> ELSE hostKey
      BY <1>28, FailCases DEF Store!At
    <2>1. CASE Undone(p)
      BY <2>0, <2>1, GoneDatabases DEF Undone
    <2>2. CASE Refused(p)
      BY <2>0, <2>2 DEF Refused
    <2>3. CASE Ended(p)
      BY <2>0, <2>3 DEF Ended, Store!Ends
    <2> QED
      BY <2>0, <2>1, <2>2, <2>3
  <1> QED
    BY <1>1, <1>2, <1>3, <1>4, <1>5, <1>6, <1>7, <1>8, <1>9, <1>10, <1>11, <1>12, <1>13, <1>14,
       <1>15, <1>16, <1>17, <1>18, <1>19, <1>20, <1>21, <1>22, <1>23, <1>24, <1>25, <1>26, <1>27,
       <1>28 DEF Store!Step

LEMMA StoreStarts == AllInit => StoreInv
  <1> SUFFICES ASSUME AllInit PROVE StoreInv
    OBVIOUS
  <1> USE DEF AllInit, Store!Init, Store!Idle, Store!Nobody, Store!Nowhere
  <1>1. << >> \in Seq(Nat) /\ <<0, 1>> \in Seq(Nat) /\ <<0, 1>> # << >>
        /\ DOMAIN << >> = {} /\ DOMAIN <<0, 1>> = 1..2 /\ <<0, 1>>[1] = 0 /\ <<0, 1>>[2] = 1
    OBVIOUS
  <1>2. FileTypes /\ DirectoryTypes /\ PlaceTypes /\ TodoTypes
    <2>1. FileTypes
      <3>1. crossing \in BOOLEAN /\ dLock \in BOOLEAN /\ dTorn \in BOOLEAN
        BY Zenon
      <3>2. faults \in Nat /\ hostKey = << >> /\ legacy \in {"there", "gone", "fresh"}
        OBVIOUS
      <3>3. cred \in [old : {"none", "whole"}, new : {"none", "part", "whole"}]
        OBVIOUS
      <3> QED
        BY <3>1, <3>2, <3>3, Zenon DEF FileTypes
    <2>2. DirectoryTypes
      BY DEF DirectoryTypes, Store!Histories
    <2>3. PlaceTypes
      BY DEF PlaceTypes, Places
    <2>4. TodoTypes
      BY DEF TodoTypes
    <2> QED
      BY <2>1, <2>2, <2>3, <2>4
  <1>3. OpeningTypes /\ HandleTypes /\ SchemaTypes
    BY <1>1 DEF OpeningTypes, Openings, HandleTypes, SchemaTypes, Store!Histories
  <1>4. CredentialsHold /\ KeysHold /\ OpeningsHold
    BY DEF CredentialsHold, KeysHold, OpeningsHold, Copies, Opens, Connected
  <1>5. LockHolds
    BY DEF LockHolds, Store!OneAdopter, Store!Locked
  <1>6. HistoriesHold
    BY DEF HistoriesHold, Store!HistoryKept
  <1>7. Store!MigratedOnce
    BY <1>1 DEF Store!MigratedOnce
  <1>8. DatabasesHold
    BY <1>1, <1>7 DEF DatabasesHold, ConnectionHolds, Connected, Filled,
       Store!HandlesAreMigrated, Store!ListedIsWhole, Store!Histories
  <1> QED
    BY <1>2, <1>3, <1>4, <1>5, <1>6, <1>8 DEF StoreInv, StoreTypes

\* Every step of the services is one of a process of StateStore, or none of its.
LEMMA StoreSteps ==
    ASSUME AllNext \/ UNCHANGED <<which, vars, ownerVars, changeVars, patchVars, storeVars>>
    PROVE  (\E p \in Starters : Store!Step(p)) \/ UNCHANGED storeVars
  BY DEF AllNext, Store!Next

\* StoreInv is an invariant of the services.
THEOREM StoreInvariance == AllSpec => []StoreInv
  <1>1. AllInit => StoreInv
    BY StoreStarts
  <1>2. StoreInv /\ [AllNext]_<<which, vars, ownerVars, changeVars, patchVars, storeVars>>
           => StoreInv'
    <2> SUFFICES ASSUME StoreInv,
                        AllNext \/ UNCHANGED <<which, vars, ownerVars, changeVars, patchVars,
                                               storeVars>>
                 PROVE  StoreInv'
      OBVIOUS
    <2>1. CASE UNCHANGED storeVars
      <3> USE <2>1 DEF storeVars, StoreInv
      <3>1. StoreTypes'
        BY DEF StoreTypes, FileTypes, DirectoryTypes, SchemaTypes, PlaceTypes, TodoTypes,
               OpeningTypes, HandleTypes
      <3>2. CredentialsHold' /\ KeysHold' /\ OpeningsHold'
        BY DEF CredentialsHold, KeysHold, OpeningsHold
      <3>3. LockHolds' /\ HistoriesHold'
        BY DEF LockHolds, Store!OneAdopter, Store!Locked, HistoriesHold, Store!HistoryKept
      <3>4. DatabasesHold'
        BY DEF DatabasesHold, ConnectionHolds, Store!MigratedOnce, Store!HandlesAreMigrated,
               Store!ListedIsWhole
      <3> QED
        BY <3>1, <3>2, <3>3, <3>4
    <2>2. ASSUME NEW p \in Starters, Store!Step(p) PROVE StoreInv'
      <3>1. StoreTypes'
        BY <2>2, FileTypesStep, DirectoryTypesStep, SchemaTypesStep, PlaceTypesStep,
           TodoTypesStep, OpeningTypesStep, HandleTypesStep DEF StoreTypes
      <3> QED
        BY <2>2, <3>1, CredentialsStep, KeysStep, OpeningsStep, LockStep, HistoriesStep,
           DatabasesStep DEF StoreInv
    <2> QED
      BY <2>1, <2>2, StoreSteps
  <1> QED
    BY <1>1, <1>2, PTL DEF AllSpec

\* StoreHolds of MCServices, for any number of starts, failing calls and killed
\* processes: credentials and histories are never lost (MigrateLegacyCredentials,
\* AdoptLegacy), processes that are up use one key of the host (Load), one of them
\* adopts at a time, and what is listed or open is migrated, each migration once.
THEOREM StoreIsKept == AllSpec => []StoreHolds
  <1>1. StoreInv => StoreHolds
    <2> SUFFICES ASSUME StoreInv PROVE Store!StoreHolds
      BY DEF StoreHolds
    <2> USE DEF StoreInv
    <2>1. Store!CredentialsSomewhere
      BY DEF CredentialsHold, StoreTypes, FileTypes, Store!CredentialsSomewhere, Store!At
    <2>2. Store!OneHost
      BY DEF KeysHold, Store!OneHost, Store!Nobody
    <2> QED
      BY <2>1, <2>2 DEF LockHolds, HistoriesHold, DatabasesHold, Store!StoreHolds
  <1> QED
    BY <1>1, StoreInvariance, PTL
=============================================================================
