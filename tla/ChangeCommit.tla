---------------------------- MODULE ChangeCommit ----------------------------
(***************************************************************************)
(* Changes of several files (internal/change/change.go; PlanPatch of       *)
(* patch.go; executeMutation of internal/tool/mutation.go).                *)
(*                                                                         *)
(* A tool call plans against the files it reads and commits later: it      *)
(* revalidates every preimage, creates the missing parent directory,       *)
(* stages the new contents and applies one path after the other; any       *)
(* failure restores the preimages in reverse.  The calls of one batch run  *)
(* concurrently, and nothing excludes two of them from the same file.      *)
(***************************************************************************)
EXTENDS Integers, FiniteSets

CONSTANTS Calls,     \* tool calls; also the contents that they write
          Paths,     \* files in the order in which they are applied, numbers
          Nested,    \* those in a directory that does not exist at first
          Old,       \* contents of a file that exists at first
          Absent

VARIABLES
    file,        \* per path: contents, or Absent
    directory,   \* the parent of the nested paths exists
    staged,      \* per call: paths with a staged file beside them
    pc,          \* per call: where it is
    before,      \* per call: the preimages of its plan; its domain are its paths
    after,       \* per call: what it makes of them
    makes,       \* calls whose plan creates the directory
    made,        \* calls that have created it
    at,          \* per call: the path it has come to
    unrestored,  \* history: per call, paths its rollback could not restore
    foreign,     \* history: per call, paths another call wrote after it planned
    overwrote    \* history: calls that replaced contents they had not planned for

plan == <<before, after, makes>>
vars == <<file, directory, staged, pc, plan, made, at, unrestored, foreign, overwrote>>

Contents == Calls \cup {Old, Absent}

TypeOK ==
    /\ file \in [Paths -> Contents] /\ directory \in BOOLEAN
    /\ staged \in [Calls -> SUBSET Paths]
    /\ pc \in [Calls -> {"plan", "check", "makeDirectory", "stage", "apply",
                         "rollback", "discard", "ok", "failed"}]
    /\ \A c \in Calls : /\ DOMAIN before[c] \subseteq Paths
                        /\ DOMAIN after[c] = DOMAIN before[c]
    /\ makes \subseteq Calls /\ made \subseteq Calls
    /\ at \in [Calls -> Paths \cup {0}]
    /\ unrestored \in [Calls -> SUBSET Paths]
    /\ foreign \in [Calls -> SUBSET Paths] /\ overwrote \subseteq Calls

Init ==
    /\ file = [p \in Paths |-> IF p \in Nested THEN Absent ELSE Old]
    /\ directory = FALSE /\ staged = [c \in Calls |-> {}]
    /\ pc = [c \in Calls |-> "plan"]
    /\ before = [c \in Calls |-> << >>] /\ after = [c \in Calls |-> << >>]
    /\ makes = {} /\ made = {} /\ at = [c \in Calls |-> 0]
    /\ unrestored = [c \in Calls |-> {}]
    /\ foreign = [c \in Calls |-> {}] /\ overwrote = {}

-----------------------------------------------------------------------------

Of(c) == DOMAIN before[c]
Goto(c, place) == pc' = [pc EXCEPT ![c] = place]
Least(ps) == CHOOSE p \in ps : \A q \in ps : p <= q
Greatest(ps) == CHOOSE p \in ps : \A q \in ps : q <= p
Beyond(c) == {p \in Of(c) : p > at[c]}

\* A write of path p by call c, seen by the calls that have planned for it.
Wrote(c, p) ==
    foreign' = [d \in Calls |-> IF d # c /\ p \in Of(d) THEN foreign[d] \cup {p}
                                                         ELSE foreign[d]]

\* PlanPatch: a file is added, updated or deleted; a missing parent is planned.
Plan(c) ==
    /\ pc[c] = "plan"
    /\ \E ps \in (SUBSET Paths) \ {{}} : \E ds \in SUBSET {p \in ps : file[p] # Absent} :
          /\ before' = [before EXCEPT ![c] = [p \in ps |-> file[p]]]
          /\ after' = [after EXCEPT ![c] = [p \in ps |-> IF p \in ds THEN Absent ELSE c]]
          /\ makes' = IF ps \cap Nested # {} /\ ~directory THEN makes \cup {c} ELSE makes
    /\ Goto(c, "check")
    /\ UNCHANGED <<file, directory, staged, made, at, unrestored, foreign, overwrote>>

\* Commit: every preimage is read again, one file after the other ...
Check(c) ==
    /\ pc[c] = "check" /\ Beyond(c) # {}
    /\ LET p == Least(Beyond(c))
       IN IF file[p] = before[c][p] THEN at' = [at EXCEPT ![c] = p] /\ UNCHANGED pc
          ELSE Goto(c, "failed") /\ UNCHANGED at
    /\ UNCHANGED <<file, directory, staged, plan, made, unrestored, foreign, overwrote>>

\* ... and a directory of the plan must still be missing.
Checked(c) ==
    /\ pc[c] = "check" /\ Beyond(c) = {}
    /\ Goto(c, IF c \notin makes THEN "stage"
               ELSE IF directory THEN "failed" ELSE "makeDirectory")
    /\ at' = [at EXCEPT ![c] = 0]
    /\ UNCHANGED <<file, directory, staged, plan, made, unrestored, foreign, overwrote>>

MakeDirectory(c) ==
    /\ pc[c] = "makeDirectory"
    /\ IF directory THEN Goto(c, "failed") /\ UNCHANGED <<directory, made>>
       ELSE Goto(c, "stage") /\ directory' = TRUE /\ made' = made \cup {c}
    /\ UNCHANGED <<file, staged, plan, at, unrestored, foreign, overwrote>>

\* stageFile for every path that will exist.
Stage(c) ==
    LET new == {p \in Of(c) : after[c][p] # Absent}
    IN /\ pc[c] = "stage"
       /\ \/ /\ new \cap Nested = {} \/ directory
             /\ staged' = [staged EXCEPT ![c] = new]
             /\ Goto(c, "apply")
          \/ \E some \in SUBSET new :
                /\ some \cap Nested = {} \/ directory
                /\ staged' = [staged EXCEPT ![c] = some]
                /\ Goto(c, "discard")
       /\ UNCHANGED <<file, directory, plan, made, at, unrestored, foreign, overwrote>>

\* applyState: a rename of the staged file, or a removal.
Apply(c) ==
    /\ pc[c] = "apply" /\ Beyond(c) # {}
    /\ LET p == Least(Beyond(c))
       IN /\ file' = [file EXCEPT ![p] = after[c][p]]
          /\ staged' = [staged EXCEPT ![c] = @ \ {p}]
          /\ at' = [at EXCEPT ![c] = p]
          /\ Wrote(c, p)
          /\ overwrote' = IF file[p] = before[c][p] THEN overwrote ELSE overwrote \cup {c}
    /\ UNCHANGED <<directory, pc, plan, made, unrestored>>

\* The context is done, or applying or syncing fails.
Abort(c) ==
    /\ pc[c] = "apply"
    /\ Goto(c, "rollback")
    /\ UNCHANGED <<file, directory, staged, plan, made, at, unrestored, foreign, overwrote>>

Finish(c) ==
    /\ pc[c] = "apply" /\ Beyond(c) = {}
    /\ Goto(c, "ok")
    /\ UNCHANGED <<file, directory, staged, plan, made, at, unrestored, foreign, overwrote>>

\* Mutant: only the first path is restored.
Rollback_Forward(c) ==
    LET applied == {p \in Of(c) : p <= at[c]}
    IN /\ pc[c] = "rollback"
       /\ IF applied = {} THEN Goto(c, "discard") /\ UNCHANGED <<file, at, foreign>>
          ELSE /\ file' = [file EXCEPT ![Least(applied)] = before[c][Least(applied)]]
               /\ at' = [at EXCEPT ![c] = 0]
               /\ Wrote(c, Least(applied))
               /\ UNCHANGED pc
       /\ UNCHANGED <<directory, staged, plan, made, unrestored, overwrote>>

\* rollback: the preimages in reverse order; what cannot be restored is reported.
Rollback(c) ==
    LET applied == {p \in Of(c) : p <= at[c]}
    IN /\ pc[c] = "rollback"
       /\ IF applied = {} THEN Goto(c, "discard") /\ UNCHANGED <<file, at, foreign>>
          ELSE LET p == Greatest(applied)
                   left == applied \ {p}
               IN /\ before[c][p] # Absent /\ p \in Nested => directory
                  /\ file' = [file EXCEPT ![p] = before[c][p]]
                  /\ at' = [at EXCEPT ![c] = IF left = {} THEN 0 ELSE Greatest(left)]
                  /\ Wrote(c, p)
                  /\ UNCHANGED pc
       /\ UNCHANGED <<directory, staged, plan, made, unrestored, overwrote>>

\* A path that cannot be restored is reported and passed over.
RollbackFails(c) ==
    LET applied == {p \in Of(c) : p <= at[c]}
        left == applied \ {Greatest(applied)}
    IN /\ pc[c] = "rollback" /\ applied # {}
       /\ unrestored' = [unrestored EXCEPT ![c] = @ \cup {Greatest(applied)}]
       /\ at' = [at EXCEPT ![c] = IF left = {} THEN 0 ELSE Greatest(left)]
       /\ UNCHANGED <<file, directory, staged, pc, plan, made, foreign, overwrote>>

\* discardTemps, then removeDirectories, which leaves a directory that is in use.
Discard(c) ==
    LET inUse == \/ \E p \in Nested : file[p] # Absent
                 \/ \E d \in Calls \ {c} : staged[d] \cap Nested # {}
    IN /\ pc[c] = "discard"
       /\ staged' = [staged EXCEPT ![c] = {}]
       /\ directory' = IF c \in made /\ ~inUse THEN FALSE ELSE directory
       /\ Goto(c, "failed")
       /\ UNCHANGED <<file, plan, made, at, unrestored, foreign, overwrote>>

Next == \E c \in Calls :
    \/ Plan(c) \/ Check(c) \/ Checked(c) \/ MakeDirectory(c) \/ Stage(c)
    \/ Apply(c) \/ Abort(c) \/ Finish(c) \/ Rollback(c) \/ RollbackFails(c) \/ Discard(c)

Spec == Init /\ [][Next]_vars

-----------------------------------------------------------------------------
(* Properties.                                                             *)

\* A change is all or nothing: once a call is over, each of its paths that no
\* other call wrote in the meantime holds the new contents if it succeeded and
\* the preimage if it failed, wherever between two renames that was, unless the
\* rollback reported that it could not restore it; and the directory it created
\* stays for as long as it holds somebody's file (Commit).
AllOrNothing ==
    /\ \A c \in Calls : \A p \in Of(c) \ foreign[c] :
          /\ pc[c] = "ok" => file[p] = after[c][p]
          /\ pc[c] = "failed" /\ p \notin unrestored[c] => file[p] = before[c][p]
    /\ \A p \in Nested : file[p] # Absent => directory

\* "A file changed after planning fails as stale rather than being overwritten"
\* (docs/security.md).
StaleIsRefused == overwrote = {}
=============================================================================
