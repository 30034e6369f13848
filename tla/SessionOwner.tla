---------------------------- MODULE SessionOwner ----------------------------
(***************************************************************************)
(* Which process runs which session of a working directory, and under      *)
(* which name (internal/store/owner.go, name.go, sessionstore.go;          *)
(* Create, ClaimInteractive, RollbackInteractiveClaim and Delete of        *)
(* internal/session/service.go), for the processes of one host that share  *)
(* a state directory.                                                      *)
(*                                                                         *)
(* Both registers are chains of numbered files: a record is published by   *)
(* linking the next number, which fails when another process did so first. *)
(* What a process decides, it decides from the chain it read; each action  *)
(* is one such read, one link, or one change of a session's directory.     *)
(***************************************************************************)
EXTENDS Integers, FiniteSets, Sequences, SequencesExt

CONSTANTS Processes,   \* each is its own PID, and PIDs are not used again
          Sessions,    \* identifiers, each created once
          Names,       \* candidates in order: main-agent, main-agent-2, ...
          MaxOwners,   \* bound on the owner chain
          None

VARIABLES
    owners,        \* the owner chain of the directory
    names,         \* per name: the chain of its reservations
    disk,          \* per session: what exists of it
    meta,          \* per session: None, or its published index entry
    alive,         \* processes that run
    pc,            \* per process: where its call is
    seen, cur,     \* per process: version and current record of the chain it read
    want, prev,    \* per process: the session it claims, and the record it replaces
    disp,          \* per process: the disposition of its claim
    name, nseen,   \* per process: the candidate name, the version of its chain
    taken,         \* per process: names it found published
    holds,         \* per process: the sessions it was given
    deleted        \* history: the sessions whose deletion has begun

chains == <<owners, names>>
files == <<disk, meta>>
claim == <<seen, cur, want, prev, disp>>
naming == <<name, nseen, taken>>
vars == <<chains, files, alive, pc, claim, naming, holds, deleted>>

Record == [session : Sessions \cup {None}, pid : Processes \cup {None}]
Released == [session |-> None, pid |-> None]
Places == {"off", "idle", "load", "inspect", "reclaim", "stamp", "create", "list",
    "look", "reserve", "row", "publish", "remove", "release", "claim", "bind",
    "undo", "restore", "restamp", "unname", "delete", "dead"}

TypeOK ==
    /\ owners \in Seq(Record) /\ names \in [Names -> Seq(Record)]
    /\ disk \in [Sessions -> {"none", "dir", "row", "gone"}]
    /\ meta \in [Sessions -> [name : Names, pid : Processes] \cup {None}]
    /\ alive \subseteq Processes /\ pc \in [Processes -> Places]
    /\ seen \in [Processes -> Nat] /\ nseen \in [Processes -> Nat]
    /\ cur \in [Processes -> Record] /\ prev \in [Processes -> Record]
    /\ want \in [Processes -> Sessions \cup {None}]
    /\ disp \in [Processes -> {"none", "existing", "created", "reclaimed"}]
    /\ name \in [Processes -> Names \cup {0}] /\ taken \in [Processes -> SUBSET Names]
    /\ holds \in [Processes -> SUBSET Sessions] /\ deleted \subseteq Sessions

Init ==
    /\ owners = << >> /\ names = [n \in Names |-> << >>]
    /\ disk = [s \in Sessions |-> "none"] /\ meta = [s \in Sessions |-> None]
    /\ alive = {} /\ pc = [p \in Processes |-> "off"]
    /\ seen = [p \in Processes |-> 0] /\ nseen = [p \in Processes |-> 0]
    /\ cur = [p \in Processes |-> Released] /\ prev = [p \in Processes |-> Released]
    /\ want = [p \in Processes |-> None] /\ disp = [p \in Processes |-> "none"]
    /\ name = [p \in Processes |-> 0] /\ taken = [p \in Processes |-> {}]
    /\ holds = [p \in Processes |-> {}] /\ deleted = {}

-----------------------------------------------------------------------------
(* Chains.                                                                 *)

Current(chain) == IF chain = << >> THEN Released ELSE Last(chain)

\* Mutant: a rename, which replaces what another process published.
LinkOwner_Rename(p, record) ==
    owners' = Append(SubSeq(owners, 1, seen[p]), record)

\* OwnerChain.Claim: the link succeeds if nobody has published since the read.
LinkOwner(p, record) ==
    /\ Len(owners) = seen[p]
    /\ owners' = Append(owners, record)

At(p, place) == p \in alive /\ pc[p] = place
Goto(p, place) == pc' = [pc EXCEPT ![p] = place]

\* The locals of a call that is over.
Forget(p) ==
    /\ seen' = [seen EXCEPT ![p] = 0] /\ cur' = [cur EXCEPT ![p] = Released]
    /\ want' = [want EXCEPT ![p] = None] /\ prev' = [prev EXCEPT ![p] = Released]
    /\ disp' = [disp EXCEPT ![p] = "none"]
    /\ name' = [name EXCEPT ![p] = 0] /\ nseen' = [nseen EXCEPT ![p] = 0]
    /\ taken' = [taken EXCEPT ![p] = {}]

Return(p) == Goto(p, "idle") /\ Forget(p)

-----------------------------------------------------------------------------
(* ClaimInteractive.                                                       *)

Boot(p) ==
    /\ pc[p] = "off" /\ alive' = alive \cup {p} /\ Goto(p, "idle")
    /\ UNCHANGED <<chains, files, claim, naming, holds, deleted>>

\* LoadOwnerChain; forceNew, or a chain without a binding, leads to a new session.
Load(p) ==
    /\ At(p, "idle") \/ At(p, "load")
    /\ Len(owners) < MaxOwners
    /\ seen' = [seen EXCEPT ![p] = Len(owners)]
    /\ cur' = [cur EXCEPT ![p] = Current(owners)]
    /\ \/ Current(owners).session # None /\ Goto(p, "inspect")
       \/ Goto(p, "create")
    /\ UNCHANGED <<chains, files, alive, want, prev, disp, naming, holds, deleted>>

Inspect(p) ==
    LET c == cur[p]
        found == disk[c.session] = "row"
    IN /\ At(p, "inspect")
       /\ \/ /\ found /\ c.pid = p
             /\ want' = [want EXCEPT ![p] = c.session]
             /\ disp' = [disp EXCEPT ![p] = "existing"]
             /\ holds' = [holds EXCEPT ![p] = @ \cup {c.session}]
             /\ Goto(p, "bind")
          \/ /\ found /\ c.pid # p /\ c.pid \notin alive
             /\ Goto(p, "reclaim") /\ UNCHANGED <<want, disp, holds, deleted>>
          \/ /\ ~found \/ (c.pid # p /\ c.pid \in alive)
             /\ Goto(p, "create") /\ UNCHANGED <<want, disp, holds, deleted>>
       /\ UNCHANGED <<chains, files, alive, seen, cur, prev, naming, deleted>>

\* ErrOwnerConflict: the decision is made again.
Conflict(p) == Goto(p, "load") /\ Forget(p) /\ UNCHANGED owners

Reclaim(p) ==
    /\ At(p, "reclaim")
    /\ \/ /\ LinkOwner(p, [session |-> cur[p].session, pid |-> p])
          /\ want' = [want EXCEPT ![p] = cur[p].session]
          /\ prev' = [prev EXCEPT ![p] = cur[p]]
          /\ disp' = [disp EXCEPT ![p] = "reclaimed"]
          /\ Goto(p, "stamp") /\ UNCHANGED <<seen, cur, naming>>
       \/ Len(owners) # seen[p] /\ Conflict(p)
    /\ UNCHANGED <<names, files, alive, holds, deleted>>

\* StampOwner.  When it fails, the claim is lost although the record stands.
Stamp(p) ==
    /\ At(p, "stamp")
    /\ \/ /\ meta[want[p]] # None
          /\ meta' = [meta EXCEPT ![want[p]].pid = p]
          /\ holds' = [holds EXCEPT ![p] = @ \cup {want[p]}]
          /\ Goto(p, "bind") /\ UNCHANGED <<claim, naming>>
       \/ Return(p) /\ UNCHANGED <<meta, holds, deleted>>
    /\ UNCHANGED <<chains, disk, alive, deleted>>

\* Registry.Create makes the directory and its database.
CreateDirectory(p) ==
    /\ At(p, "create")
    /\ \E s \in Sessions : disk[s] = "none"
    /\ LET s == CHOOSE x \in Sessions : disk[x] = "none"
       IN disk' = [disk EXCEPT ![s] = "dir"] /\ want' = [want EXCEPT ![p] = s]
    /\ Goto(p, "list")
    /\ UNCHANGED <<chains, meta, alive, seen, cur, prev, disp, naming, holds, deleted>>

\* There is always a next name; the model has as many as a run needs.
Free(after, unavailable) == {n \in Names : n > after /\ n \notin unavailable}
NextName(after, unavailable) ==
    CHOOSE n \in Free(after, unavailable) : \A m \in Free(after, unavailable) : n <= m

\* reserveRootName: names that are published are skipped, ...
ListNames(p) ==
    LET published == {meta[s].name : s \in {x \in Sessions : meta[x] # None}}
    IN /\ At(p, "list") /\ Free(0, published) # {}
       /\ taken' = [taken EXCEPT ![p] = published]
       /\ name' = [name EXCEPT ![p] = NextName(0, published)]
       /\ Goto(p, "look")
       /\ UNCHANGED <<chains, files, alive, claim, nseen, holds, deleted>>

\* ... and so are reservations of published sessions and of live processes.
Reserved(r) == r.session # None /\ (meta[r.session] # None \/ r.pid \in alive)

LookName(p) ==
    /\ At(p, "look")
    /\ IF Reserved(Current(names[name[p]]))
       THEN /\ Free(name[p], taken[p]) # {}
            /\ name' = [name EXCEPT ![p] = NextName(@, taken[p])]
            /\ UNCHANGED <<pc, nseen>>
       ELSE /\ nseen' = [nseen EXCEPT ![p] = Len(names[name[p]])]
            /\ Goto(p, "reserve") /\ UNCHANGED name
    /\ UNCHANGED <<chains, files, alive, claim, taken, holds, deleted>>

ReserveName(p) ==
    /\ At(p, "reserve")
    /\ IF Len(names[name[p]]) = nseen[p]
       THEN /\ names' = [names EXCEPT ![name[p]] = Append(@, [session |-> want[p], pid |-> p])]
            /\ Goto(p, "row")
       ELSE Goto(p, "look") /\ UNCHANGED names
    /\ UNCHANGED <<owners, files, alive, claim, naming, holds, deleted>>

InsertRow(p) ==
    /\ At(p, "row")
    /\ \/ disk' = [disk EXCEPT ![want[p]] = "row"] /\ Goto(p, "publish")
       \/ Goto(p, "remove") /\ UNCHANGED disk
    /\ UNCHANGED <<chains, meta, alive, claim, naming, holds, deleted>>

Publish(p) ==
    /\ At(p, "publish")
    /\ \/ /\ meta' = [meta EXCEPT ![want[p]] = [name |-> name[p], pid |-> p]]
          /\ Goto(p, "claim")
       \/ Goto(p, "remove") /\ UNCHANGED meta
    /\ UNCHANGED <<chains, disk, alive, claim, naming, holds, deleted>>

RemoveFiles(s) ==
    disk' = [disk EXCEPT ![s] = "gone"] /\ meta' = [meta EXCEPT ![s] = None]

\* ReleaseSessionName: only a reservation of the session itself is given back.
ReleaseNames(s) ==
    names' = [n \in Names |-> IF Current(names[n]).session = s
                              THEN Append(names[n], Released) ELSE names[n]]

\* A session that could not be completed is removed, then its name is released.
RemoveShell(p) ==
    /\ At(p, "remove") /\ RemoveFiles(want[p]) /\ Goto(p, "release")
    /\ UNCHANGED <<chains, alive, claim, naming, holds, deleted>>

ReleaseShell(p) ==
    /\ At(p, "release") /\ ReleaseNames(want[p]) /\ Return(p)
    /\ UNCHANGED <<owners, files, alive, holds, deleted>>

\* A conflict deletes the new session before the claim is tried again.
ClaimNew(p) ==
    /\ At(p, "claim")
    /\ \/ /\ LinkOwner(p, [session |-> want[p], pid |-> p])
          /\ prev' = [prev EXCEPT ![p] = cur[p]]
          /\ disp' = [disp EXCEPT ![p] = "created"]
          /\ holds' = [holds EXCEPT ![p] = @ \cup {want[p]}]
          /\ Goto(p, "bind")
       \/ /\ Len(owners) # seen[p]
          /\ Goto(p, "unname") /\ UNCHANGED <<owners, prev, disp, holds, deleted>>
    /\ UNCHANGED <<names, files, alive, seen, cur, want, naming, deleted>>

-----------------------------------------------------------------------------
(* Binding the session, RollbackInteractiveClaim and Delete.               *)

Bound(p) ==
    /\ At(p, "bind") /\ Return(p)
    /\ UNCHANGED <<chains, files, alive, holds, deleted>>

\* The chain is read again; a record that is not the own one is left alone.
BindFails(p) ==
    LET c == Current(owners)
    IN /\ At(p, "bind")
       /\ holds' = [holds EXCEPT ![p] = @ \ {want[p]}]
       /\ IF disp[p] # "existing" /\ c = [session |-> want[p], pid |-> p]
          THEN /\ seen' = [seen EXCEPT ![p] = Len(owners)] /\ Goto(p, "restore")
               /\ UNCHANGED <<cur, want, prev, disp, naming>>
          ELSE Return(p)
       /\ UNCHANGED <<chains, files, alive, deleted>>

\* The previous record is published again, or an empty one.
Restore(p) ==
    /\ At(p, "restore")
    /\ \/ /\ LinkOwner(p, prev[p])
          /\ Goto(p, IF prev[p].session # None THEN "restamp" ELSE "unname")
          /\ UNCHANGED <<claim, naming>>
       \/ Len(owners) # seen[p] /\ UNCHANGED owners /\ Return(p)
    /\ UNCHANGED <<names, files, alive, holds, deleted>>

Restamp(p) ==
    /\ At(p, "restamp")
    /\ \/ /\ meta[prev[p].session] # None
          /\ meta' = [meta EXCEPT ![prev[p].session].pid = prev[p].pid]
          /\ IF disp[p] = "created" THEN Goto(p, "unname") /\ UNCHANGED <<claim, naming>>
             ELSE Return(p)
       \/ Return(p) /\ UNCHANGED meta
    /\ UNCHANGED <<chains, disk, alive, holds, deleted>>

\* Delete: the session's names are released, then its directory is removed.
Unname(p) ==
    /\ At(p, "unname") /\ ReleaseNames(want[p]) /\ Goto(p, "delete")
    /\ deleted' = deleted \cup {want[p]}
    /\ UNCHANGED <<owners, files, alive, claim, naming, holds>>

DeleteFiles(p) ==
    /\ At(p, "delete")
    /\ RemoveFiles(want[p])
    /\ Forget(p) /\ Goto(p, IF disp[p] = "none" /\ seen[p] > 0 THEN "load" ELSE "idle")
    /\ UNCHANGED <<chains, alive, holds, deleted>>

\* A session that this process runs is deleted.
Discard(p) ==
    /\ At(p, "idle")
    /\ \E s \in holds[p] : /\ want' = [want EXCEPT ![p] = s]
                           /\ holds' = [holds EXCEPT ![p] = @ \ {s}]
    /\ Goto(p, "unname")
    /\ UNCHANGED <<chains, files, alive, seen, cur, prev, disp, naming, deleted>>

Crash(p) ==
    /\ p \in alive /\ alive' = alive \ {p}
    /\ Goto(p, "dead") /\ Forget(p) /\ holds' = [holds EXCEPT ![p] = {}]
    /\ UNCHANGED <<chains, files, deleted>>

Next == \E p \in Processes :
    \/ Boot(p) \/ Load(p) \/ Inspect(p) \/ Reclaim(p) \/ Stamp(p)
    \/ CreateDirectory(p) \/ ListNames(p) \/ LookName(p) \/ ReserveName(p)
    \/ InsertRow(p) \/ Publish(p) \/ RemoveShell(p) \/ ReleaseShell(p) \/ ClaimNew(p)
    \/ Bound(p) \/ BindFails(p) \/ Restore(p) \/ Restamp(p)
    \/ Unname(p) \/ DeleteFiles(p) \/ Discard(p) \/ Crash(p)

Spec == Init /\ [][Next]_vars

-----------------------------------------------------------------------------
(* Properties.                                                             *)

\* "A live owner is never displaced": two processes that run never hold the same
\* session, whatever they read before the other one's claim, and whichever of
\* them gives its claim back; and what a process holds is not deleted by another
\* one's rollback (ClaimInteractive, RollbackInteractiveClaim).
OneOwner ==
    \A p \in alive : \A s \in holds[p] :
        /\ \A q \in alive \ {p} : s \notin holds[q]
        /\ disk[s] = "row"

\* Sessions that are listed have different names, however their creations
\* interleave and wherever their creators stop.  A session whose deletion has
\* begun is left out: its name is released before its directory goes (Delete).
NamesUnique ==
    \A s, t \in Sessions \ deleted :
        s # t /\ meta[s] # None /\ meta[t] # None => meta[s].name # meta[t].name

\* Claims of owners and of names exclude each other (ClaimInteractive,
\* ReserveSessionName).
ClaimsHold == OneOwner /\ NamesUnique
=============================================================================
