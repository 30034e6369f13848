----------------------------- MODULE StateStore -----------------------------
(***************************************************************************)
(* The files under the state directory that a start of the program moves,  *)
(* makes or splits, by several processes at once: the credentials that     *)
(* move to the configuration directory, the key of the host, the database  *)
(* of an older version that is split into one per session, the migrations  *)
(* a database gets when it is opened, and the cache of open databases.     *)
(* A step of a process is one call of the file system or of SQLite; each   *)
(* may fail, and a process may be killed between any two.                  *)
(***************************************************************************)
EXTENDS Naturals, Sequences, FiniteSets

CONSTANTS
    Processes,  \* what runs the program, one start after another
    Old,        \* sessions of the older version's database
    Fresh,      \* sessions that are created
    Knows,      \* how many migrations the program of a process has
    MaxStarts,  \* how often the program is started
    MaxFaults   \* how many calls fail and how many processes are killed

Histories == Old \cup Fresh
Nobody == "nobody"      \* no process
Nowhere == "none"       \* no session, and no reason to open one

VARIABLES
    crossing,   \* data and configuration are on different file systems
    cred,       \* the credentials file, old place and new: "none", "part", "whole"
    hostKey,    \* the host-key file: absent is << >>, else a sequence of its contents
    legacy,     \* the shared database: "there", "gone", "fresh" (made anew, empty)
    lock,       \* .adopt.lock exists
    dirs,       \* session directories
    schema,     \* session to what its database was given: 0 the journal, then migrations
    rows,       \* sessions whose database has their rows
    listed,     \* sessions with a published index entry
    pc,         \* process to where it is
    key,        \* process to the host key it uses
    todo,       \* process to the sessions it has still to adopt
    opening,    \* process to the database being opened: for what, session (nowhere
                \* if its file was deleted since), migration
    handles,    \* process to the sessions whose databases it has open
    stale,      \* process to those whose file was deleted since
    removed,    \* ghost: sessions that were deleted; ids are not used again
    torn,       \* ghost: a copy of the credentials was cut off
    starts, faults

files == <<crossing, cred, hostKey, legacy, lock, dirs, schema, rows, listed>>
local == <<pc, key, todo, opening, handles, stale>>
ghosts == <<removed, torn, starts, faults>>
vars == <<files, local, ghosts>>

Idle == [why |-> Nowhere, session |-> Nowhere, next |-> 0]

Init ==
    /\ crossing \in BOOLEAN /\ hostKey = << >> /\ lock = FALSE
    /\ \/ cred = [old |-> "whole", new |-> "none"] /\ legacy = "there"
          /\ dirs = {} /\ rows = {} /\ listed = {} /\ schema = [s \in Histories |-> << >>]
       \* An earlier version has split the database.
       \/ cred = [old |-> "whole", new |-> "whole"] /\ legacy = "gone"
          /\ dirs = Old /\ rows = Old /\ listed = Old
          /\ schema = [s \in Histories |-> IF s \in Old THEN <<0, 1>> ELSE << >>]
    /\ pc = [p \in Processes |-> "off"] /\ key = [p \in Processes |-> Nobody]
    /\ todo = [p \in Processes |-> {}] /\ opening = [p \in Processes |-> Idle]
    /\ handles = [p \in Processes |-> {}] /\ stale = handles
    /\ removed = {} /\ torn = FALSE /\ starts = 0 /\ faults = 0

At(p, place) == pc[p] = place
Go(p, place) == pc' = [pc EXCEPT ![p] = place]

Start(p) ==
    /\ At(p, "off") /\ starts < MaxStarts /\ starts' = starts + 1 /\ Go(p, "new")
    /\ UNCHANGED <<files, key, todo, opening, handles, stale, removed, torn, faults>>

-----------------------------------------------------------------------------
(* MigrateLegacyCredentials.                                               *)

Credentials(p, from) ==
    /\ At(p, from)
    /\ UNCHANGED <<crossing, hostKey, legacy, lock, dirs, schema, rows, listed>>
    /\ UNCHANGED <<key, todo, opening, handles, stale, removed, torn, starts, faults>>

StatNew(p) ==
    /\ Credentials(p, "new") /\ UNCHANGED cred
    /\ Go(p, IF cred.new = "none" THEN "old" ELSE "key")
StatOld(p) ==
    /\ Credentials(p, "old") /\ UNCHANGED cred
    /\ Go(p, IF cred.old = "none" THEN "key" ELSE "move")

\* The old file may have been moved meanwhile; across file systems it is
\* copied, unless the new one exists by now.
Move(p) ==
    /\ Credentials(p, "move")
    /\ \/ /\ cred.old = "none" /\ UNCHANGED cred
          /\ Go(p, IF cred.new = "none" THEN "off" ELSE "key")
       \/ /\ cred.old # "none" /\ ~crossing /\ Go(p, "key")
          /\ cred' = [old |-> "none", new |-> cred.old]
       \/ /\ cred.old # "none" /\ crossing /\ cred.new # "none"
          /\ Go(p, "unlink") /\ UNCHANGED cred
       \/ /\ cred.old # "none" /\ crossing /\ cred.new = "none"
          /\ Go(p, "copy") /\ cred' = [cred EXCEPT !.new = "part"]

Copy(p) == Credentials(p, "copy") /\ Go(p, "unlink") /\ cred' = [cred EXCEPT !.new = "whole"]
Unlink(p) == Credentials(p, "unlink") /\ Go(p, "key") /\ cred' = [cred EXCEPT !.old = "none"]

-----------------------------------------------------------------------------
(* Load, of a host without a machine id.                                   *)

HostKey(p, from) ==
    /\ At(p, from)
    /\ UNCHANGED <<crossing, cred, legacy, lock, dirs, schema, rows, listed>>
    /\ UNCHANGED <<todo, opening, handles, stale, removed, torn, starts, faults>>

HasKey == hostKey # << >> /\ hostKey # << Nobody >>
Use(p, k) == key' = [key EXCEPT ![p] = k]

ReadKey(p) ==
    /\ HostKey(p, "key") /\ UNCHANGED hostKey
    /\ IF HasKey THEN Use(p, hostKey[1]) /\ Go(p, "adopt")
       ELSE UNCHANGED key /\ Go(p, "makekey")

\* Made exclusively, empty at first; a file that is there must have a key now.
MakeKey(p) ==
    /\ HostKey(p, "makekey")
    /\ \/ hostKey = << >> /\ hostKey' = << Nobody >> /\ Go(p, "writekey") /\ UNCHANGED key
       \/ HasKey /\ Use(p, hostKey[1]) /\ Go(p, "adopt") /\ UNCHANGED hostKey
       \/ hostKey = << Nobody >> /\ Go(p, "off") /\ UNCHANGED <<hostKey, key>>

WriteKey(p) == HostKey(p, "writekey") /\ hostKey' = << p >> /\ Use(p, p) /\ Go(p, "adopt")

-----------------------------------------------------------------------------
(* AdoptLegacy.                                                            *)

Adopting(p, from) ==
    /\ At(p, from)
    /\ UNCHANGED <<crossing, cred, hostKey, schema, key, handles, stale>>
    /\ UNCHANGED <<removed, torn, starts, faults>>

StatLegacy(p) ==
    /\ Adopting(p, "adopt") /\ UNCHANGED <<legacy, lock, dirs, rows, listed, todo, opening>>
    /\ Go(p, IF legacy = "gone" THEN "up" ELSE "entries")

Entries(p) ==
    /\ Adopting(p, "entries") /\ UNCHANGED <<legacy, lock, dirs, rows, listed, todo, opening>>
    /\ Go(p, IF dirs # {} THEN "up" ELSE "lock")

Lock(p) ==
    /\ Adopting(p, "lock") /\ lock' = TRUE /\ UNCHANGED <<legacy, dirs, rows, listed, todo, opening>>
    /\ Go(p, IF lock THEN "up" ELSE "legacy")

\* Opening the shared database makes it when another process has set it aside
\* since.
OpenLegacy(p) ==
    /\ Adopting(p, "legacy") /\ UNCHANGED <<lock, dirs, rows, listed, opening>>
    /\ legacy' = IF legacy = "gone" THEN "fresh" ELSE legacy
    /\ todo' = [todo EXCEPT ![p] = IF legacy = "there" THEN Old ELSE {}]
    /\ Go(p, "each")

\* adoptSession: an existing directory is used.
Adopt(p, s) ==
    /\ Adopting(p, "each") /\ s \in todo[p] /\ UNCHANGED <<legacy, lock, rows, listed, todo>>
    /\ dirs' = dirs \cup {s} /\ Go(p, "identity")
    /\ opening' = [opening EXCEPT ![p] = [why |-> "adopt", session |-> s, next |-> 0]]

\* One transaction; rows that are there already are a conflict.
Insert(p) ==
    /\ Adopting(p, "insert") /\ UNCHANGED <<legacy, lock, dirs, listed, todo, opening>>
    /\ LET s == opening[p].session IN
       /\ s \in dirs /\ s \notin rows
       /\ rows' = rows \cup {s} /\ Go(p, "publish")

Publish(p) ==
    /\ Adopting(p, "publish") /\ UNCHANGED <<legacy, lock, dirs, rows>>
    /\ opening[p].session \in dirs
    /\ listed' = listed \cup {opening[p].session}
    /\ todo' = [todo EXCEPT ![p] = @ \ {opening[p].session}]
    /\ opening' = [opening EXCEPT ![p] = Idle] /\ Go(p, "each")

Complete(p) == todo[p] = {}
SetAside(p) ==
    /\ Adopting(p, "each") /\ Complete(p) /\ UNCHANGED <<lock, dirs, rows, listed, opening>>
    /\ legacy # "gone" /\ legacy' = "gone"
    /\ todo' = [todo EXCEPT ![p] = {}] /\ Go(p, "unlock")

Unlock(p) ==
    /\ Adopting(p, "unlock") /\ lock' = FALSE /\ Go(p, "up")
    /\ UNCHANGED <<legacy, dirs, rows, listed, todo, opening>>

-----------------------------------------------------------------------------
(* Opening a session's database and bringing it up to date.                *)

Opening(p, from) ==
    /\ At(p, from)
    /\ UNCHANGED <<crossing, cred, hostKey, legacy, lock, dirs, rows, listed>>
    /\ UNCHANGED <<key, todo, stale, removed, torn, starts, faults>>

\* Where the process goes on with the database, and with which cached handle.
Opened(p) ==
    CASE opening[p].why = "adopt" -> Go(p, "insert") /\ UNCHANGED <<handles, opening>>
      [] opening[p].why = "create" -> /\ Go(p, "row") /\ UNCHANGED opening
                                      /\ handles' = [handles EXCEPT ![p] = @ \cup {opening[p].session}]
      [] OTHER -> /\ Go(p, "up") /\ opening' = [opening EXCEPT ![p] = Idle]
                  /\ handles' = [handles EXCEPT ![p] = @ \cup {opening[p].session}]

Schema(p) == schema[opening[p].session]
Reached(p) == opening[p].session \in dirs

\* databaseIdentity and the creation of the journal are two statements.
Identity(p) ==
    /\ Opening(p, "identity") /\ Reached(p) /\ UNCHANGED <<schema, opening, handles>>
    /\ Go(p, IF Schema(p) = << >> THEN "journal" ELSE "migrate")

Journal(p) ==
    /\ Opening(p, "journal") /\ Reached(p) /\ UNCHANGED <<opening, handles>>
    /\ Schema(p) = << >> /\ schema' = [schema EXCEPT ![opening[p].session] = << 0 >>]
    /\ Go(p, "migrate")

\* The journal is read once, before the transactions of the migrations.
Migrate(p) ==
    /\ Opening(p, "migrate") /\ Reached(p) /\ UNCHANGED schema
    /\ LET applied == Len(Schema(p)) - 1 IN
       /\ applied <= Knows[p]
       /\ IF applied = Knows[p] THEN Opened(p)
          ELSE /\ opening' = [opening EXCEPT ![p].next = applied + 1]
               /\ Go(p, "apply") /\ UNCHANGED handles

\* The version of a migration is unique in the journal.
Applies_Blind(p) == TRUE
Applies(p) == \A i \in DOMAIN Schema(p) : Schema(p)[i] # opening[p].next
Apply(p) ==
    /\ Opening(p, "apply") /\ Reached(p) /\ Applies(p)
    /\ schema' = [schema EXCEPT ![opening[p].session] = Append(@, opening[p].next)]
    /\ IF opening[p].next = Knows[p] THEN Opened(p)
       ELSE /\ opening' = [opening EXCEPT ![p].next = @ + 1]
            /\ UNCHANGED <<pc, handles>>

-----------------------------------------------------------------------------
(* The sessions of a running process: Registry and Service.create.         *)

Running(p, from) ==
    /\ At(p, from)
    /\ UNCHANGED <<crossing, cred, hostKey, legacy, lock, key, todo, torn, starts, faults>>

\* A cached handle is used as it is, whatever became of its file.
Session(p, s) ==
    /\ Running(p, "up") /\ s \in dirs \ (handles[p] \cup stale[p])
    /\ opening' = [opening EXCEPT ![p] = [why |-> "use", session |-> s, next |-> 0]]
    /\ Go(p, "identity") /\ UNCHANGED <<dirs, schema, rows, listed, handles, stale, removed>>

Create(p, s) ==
    /\ Running(p, "up") /\ s \in Fresh \ (dirs \cup removed)
    /\ dirs' = dirs \cup {s} /\ Go(p, "identity")
    /\ opening' = [opening EXCEPT ![p] = [why |-> "create", session |-> s, next |-> 0]]
    /\ UNCHANGED <<schema, rows, listed, handles, stale, removed>>

Row(p) ==
    /\ Running(p, "row") /\ Reached(p)
    /\ rows' = rows \cup {opening[p].session} /\ Go(p, "index")
    /\ UNCHANGED <<dirs, schema, listed, opening, handles, stale, removed>>

Index(p) ==
    /\ Running(p, "index") /\ Reached(p)
    /\ listed' = listed \cup {opening[p].session}
    /\ opening' = [opening EXCEPT ![p] = Idle] /\ Go(p, "up")
    /\ UNCHANGED <<dirs, schema, rows, handles, stale, removed>>

\* The directory and all in it are deleted. Who has the database open keeps a
\* file that nobody else can reach, whatever is made in its place later.
Gone(p, s) ==
    /\ dirs' = dirs \ {s} /\ rows' = rows \ {s} /\ listed' = listed \ {s}
    /\ schema' = [schema EXCEPT ![s] = << >>] /\ removed' = removed \cup {s}
    /\ handles' = [q \in Processes |-> handles[q] \ {s}]
    /\ stale' = [q \in Processes |-> IF q = p THEN stale[q] \ {s}
                                     ELSE stale[q] \cup ({s} \cap handles[q])]
    /\ opening' = [q \in Processes |->
         IF q = p THEN Idle
         ELSE IF opening[q].session = s /\ pc[q] # "identity"
              THEN [opening[q] EXCEPT !.session = Nowhere] ELSE opening[q]]

\* The user deletes a listed session.
Remove(p, s) == Running(p, "up") /\ s \in listed /\ Gone(p, s) /\ UNCHANGED pc

-----------------------------------------------------------------------------
(* The end of a process, and of an operation.                              *)

Ends(p) ==
    /\ Go(p, "off") /\ key' = [key EXCEPT ![p] = Nobody] /\ todo' = [todo EXCEPT ![p] = {}]
    /\ opening' = [opening EXCEPT ![p] = Idle]
    /\ handles' = [handles EXCEPT ![p] = {}] /\ stale' = [stale EXCEPT ![p] = {}]

Close(p) == At(p, "up") /\ Ends(p) /\ UNCHANGED <<files, ghosts>>

Locked(p) == pc[p] \in {"legacy", "each", "insert", "publish", "unlock"} \/ opening[p].why = "adopt"

\* What the state of the files makes fail, without a fault of its own.
Conflicts(p) ==
    \/ pc[p] \in {"identity", "journal", "migrate", "apply", "insert", "publish", "row", "index"}
       /\ ~Reached(p)
    \/ Reached(p) /\ \/ At(p, "journal") /\ Schema(p) # << >>
                     \/ At(p, "migrate") /\ Len(Schema(p)) - 1 > Knows[p]
                     \/ At(p, "apply") /\ ~Applies(p)
                     \/ At(p, "insert") /\ opening[p].session \in rows
    \/ At(p, "each") /\ legacy = "gone"

\* A call fails: a start ends, with the lock removed, and a half made file of
\* the host key; a session that could not be made is removed once it is open.
Fail(p) ==
    /\ pc[p] \notin {"off", "up"}
    /\ \/ Conflicts(p) /\ UNCHANGED faults
       \/ ~Conflicts(p) /\ faults < MaxFaults /\ faults' = faults + 1
    /\ UNCHANGED <<crossing, cred, legacy, starts>>
    /\ torn' = (torn \/ At(p, "copy"))
    /\ hostKey' = IF At(p, "writekey") THEN << >> ELSE hostKey
    /\ IF opening[p].why \in {"use", "create"}
       THEN /\ Go(p, "up") /\ UNCHANGED <<lock, key, todo>>
            /\ IF pc[p] \in {"row", "index"} THEN Gone(p, opening[p].session)
               ELSE /\ opening' = [opening EXCEPT ![p] = Idle]
                    /\ UNCHANGED <<dirs, schema, rows, listed, handles, stale, removed>>
       ELSE /\ Ends(p) /\ lock' = (lock /\ ~Locked(p))
            /\ UNCHANGED <<dirs, schema, rows, listed, removed>>

Crash(p) ==
    /\ ~At(p, "off") /\ faults < MaxFaults /\ faults' = faults + 1
    /\ Ends(p) /\ torn' = (torn \/ At(p, "copy"))
    /\ UNCHANGED <<files, removed, starts>>

Step(p) ==
    \/ Start(p) \/ Close(p) \/ Fail(p) \/ Crash(p)
    \/ StatNew(p) \/ StatOld(p) \/ Move(p) \/ Copy(p) \/ Unlink(p)
    \/ ReadKey(p) \/ MakeKey(p) \/ WriteKey(p)
    \/ StatLegacy(p) \/ Entries(p) \/ Lock(p) \/ OpenLegacy(p) \/ SetAside(p) \/ Unlock(p)
    \/ Insert(p) \/ Publish(p)
    \/ Identity(p) \/ Journal(p) \/ Migrate(p) \/ Apply(p) \/ Row(p) \/ Index(p)
    \/ \E s \in Histories : Adopt(p, s) \/ Session(p, s) \/ Create(p, s) \/ Remove(p, s)

Next == \E p \in Processes : Step(p)
Spec == Init /\ [][Next]_vars

-----------------------------------------------------------------------------
TypeOK ==
    /\ cred.old \in {"none", "whole"} /\ cred.new \in {"none", "part", "whole"}
    /\ legacy \in {"there", "gone", "fresh"} /\ lock \in BOOLEAN
    /\ listed \cup rows \subseteq dirs /\ dirs \subseteq Histories
    /\ \A p \in Processes : todo[p] \subseteq Old /\ handles[p] \cup stale[p] \subseteq Histories

\* The credentials are somewhere, whole or being copied; on one file system
\* they are whole all the time, whoever is killed.
CredentialsSomewhere ==
    \/ cred.old = "whole" \/ cred.new = "whole"
    \/ crossing /\ (torn \/ \E p \in Processes : At(p, "copy"))

\* The history of a session of the older version is in its database or, with
\* all its rows, in one of its own, until the user deletes it.
HistoryKept == \A s \in Old : legacy = "there" \/ s \in rows \cup removed

\* What is listed has its rows, in a database that was migrated in order, each
\* migration once.
ListedIsWhole == \A s \in listed : s \in rows /\ schema[s] # << >>
MigratedOnce ==
    \A s \in Histories : \A i \in DOMAIN schema[s] : schema[s][i] = i - 1
HandlesAreMigrated ==
    \A p \in Processes : \A s \in handles[p] : s \in dirs /\ Len(schema[s]) - 1 >= Knows[p]

\* Processes of a host that are up know it by the same key.
OneHost ==
    \A p, q \in Processes : key[p] # Nobody /\ key[q] # Nobody => key[p] = key[q]

\* A single process adopts at a time, and the lock of one that was not killed
\* is removed.
OneAdopter ==
    /\ \A p, q \in Processes : Locked(p) /\ Locked(q) => p = q
    /\ faults = 0 /\ lock => \E p \in Processes : Locked(p)

\* The files under the state directory as a whole.
StoreHolds ==
    /\ CredentialsSomewhere /\ HistoryKept /\ ListedIsWhole /\ MigratedOnce
    /\ HandlesAreMigrated /\ OneHost /\ OneAdopter
=============================================================================
