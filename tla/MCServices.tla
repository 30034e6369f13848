----------------------------- MODULE MCServices -----------------------------
(***************************************************************************)
(* The services beside the turns, small and independent of each other, in  *)
(* one run: `which` is chosen at the start and says whose steps are        *)
(* taken. The variables of the others keep their initial values.           *)
(***************************************************************************)
EXTENDS QueueStore, TLC

CONSTANTS
    Hosts, Sessions, Names, MaxOwners,      \* see SessionOwner; Hosts are its Processes
    Patches, Paths, Nested, Old, Absent,    \* see ChangeCommit; Patches are its Calls
    Starters, Former, Fresh, Knows, MaxStarts, MaxFaults  \* see StateStore; Starters are
                                            \* its Processes, Former its Old

\* None is nobody and no session; names and paths are numbers, in their order.
ASSUME ServicesAssumption ==
    /\ None \notin Hosts \cup Sessions
    /\ Names \subseteq Nat \ {0} /\ MaxOwners \in Nat
    /\ Paths \subseteq Nat \ {0} /\ Nested \subseteq Paths
    /\ \A ps \in SUBSET Paths : ps # {} => \E p \in ps : \A q \in ps : q <= p
    /\ "nobody" \notin Starters /\ "none" \notin Former \cup Fresh
    /\ Knows \in [Starters -> Nat \ {0}]

VARIABLES which, owners, names, disk, meta, alive, oPc, seen, cur, want, prev, disp,
          name, nseen, oTaken, holds, deleted, cFile, directory, staged, cPc, before,
          after, makes, made, at, unrestored, foreign, overwrote, pFile, from, found,
          errors, place, left, result, crossing, cred, hostKey, legacy, dLock, dirs,
          schema, rows, listed, dPc, key, todo, opening, handles, stale, removed, dTorn,
          starts, faults

Owner == INSTANCE SessionOwner
    WITH Processes <- Hosts, pc <- oPc, taken <- oTaken
Change == INSTANCE ChangeCommit
    WITH Calls <- Patches, file <- cFile, pc <- cPc
Patch == INSTANCE PatchHunks
    WITH Words <- {"a", "b"}, Terminators <- {"lf", "crlf"}, MaxLines <- 2,
         MaxHunks <- 2, MaxHunkLines <- 2, file <- pFile
Store == INSTANCE StateStore
    WITH Processes <- Starters, Old <- Former, lock <- dLock, pc <- dPc, torn <- dTorn

ownerVars == <<owners, names, disk, meta, alive, oPc, seen, cur, want, prev, disp,
               name, nseen, oTaken, holds, deleted>>
changeVars == <<cFile, directory, staged, cPc, before, after, makes, made, at,
                unrestored, foreign, overwrote>>
patchVars == <<pFile, from, found, errors, place, left, result>>
storeVars == <<crossing, cred, hostKey, legacy, dLock, dirs, schema, rows, listed, dPc,
               key, todo, opening, handles, stale, removed, dTorn, starts, faults>>

MCKnows == [p \in Starters |-> IF p = "p" THEN 1 ELSE 2]
MCStoreOf == [u \in Users |-> IF u = "u3" THEN "s2" ELSE "s1"]

AllInit ==
    /\ which \in {"queue", "owner", "change", "patch", "store"}
    /\ Init
    /\ Owner!Init
    /\ Change!Init
    /\ Patch!Init /\ (which # "patch" => pFile = << >>)
    /\ Store!Init /\ (which # "store" => ~crossing /\ legacy = "gone")

AllNext ==
    \/ which = "queue" /\ Next /\ UNCHANGED <<which, ownerVars, changeVars, patchVars,
                                              storeVars>>
    \/ which = "owner" /\ Owner!Next /\ UNCHANGED <<which, vars, changeVars, patchVars,
                                                    storeVars>>
    \/ which = "change" /\ Change!Next /\ UNCHANGED <<which, vars, ownerVars,
                                                      patchVars, storeVars>>
    \/ which = "patch" /\ Patch!Next /\ UNCHANGED <<which, vars, ownerVars, changeVars,
                                                    storeVars>>
    \/ which = "store" /\ Store!Next /\ UNCHANGED <<which, vars, ownerVars, changeVars,
                                                    patchVars>>

AllSpec == AllInit /\ [][AllNext]_<<which, vars, ownerVars, changeVars, patchVars,
                                    storeVars>>

Symmetric == Permutations(Hosts) \cup Permutations(Patches)

\* ClaimsHold of SessionOwner: "a live owner is never displaced", and names do
\* not collide (ClaimInteractive, ReserveSessionName).
ClaimsHold == which = "owner" => Owner!ClaimsHold

\* AllOrNothing of ChangeCommit: a failed change is undone (Service.Commit).
AllOrNothing == which = "change" => Change!AllOrNothing

\* AppliedInPlace of PatchHunks: each hunk changes its own lines (applyHunks).
AppliedInPlace == which = "patch" => Patch!AppliedInPlace

\* StoreHolds of StateStore: credentials, host key and histories survive
\* concurrent starts, failing calls and kills, and a database is migrated in
\* order, once (AdoptLegacy, MigrateLegacyCredentials, migrate).
StoreHolds == which = "store" => Store!StoreHolds
=============================================================================
