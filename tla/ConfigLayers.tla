---------------------------- MODULE ConfigLayers ----------------------------
(***************************************************************************)
(* The configuration: layers of YAML objects, defaults below the user's    *)
(* file below the files of the project, merged into one with a record of   *)
(* who assigned what; and the updates of the user's file by the chat       *)
(* (/model, /model-alias), which replace it in one step, and by the        *)
(* set_config tool, which writes it in place after a backup.  Nothing      *)
(* orders the writers of several sessions and processes, and a process may *)
(* be killed in the middle.  A document is a tree; where its keys stand in *)
(* the file and its comments are left out.                                 *)
(***************************************************************************)
EXTENDS Naturals, Sequences, FiniteSets, TLC

CONSTANTS
    Writers,   \* who updates the user's file
    Operations,\* the updates: [op, path, value]
    Projects,  \* what the files of a project may be: sequences of objects
    Globals,   \* what the user's file may be at first
    Defaults,  \* the predefined configuration
    Encoding,  \* selectors that end in a variant the configuration declares
    MaxUpdates, MaxLoads

NoOne == "nobody"

-----------------------------------------------------------------------------
(* Documents.                                                              *)

Leaf(v) == [kind |-> "leaf", value |-> v, of |-> << >>]
Null == Leaf("null")
Gone == [kind |-> "none", value |-> "", of |-> << >>]
Object(f) == [kind |-> "object", value |-> "", of |-> f]
List(q) == [kind |-> "list", value |-> "", of |-> q]
Empty == Object(<< >>)
IsObject(n) == n.kind = "object"
Keys(n) == IF IsObject(n) THEN DOMAIN n.of ELSE {}

\* A file is there with a document, there without contents, or not there.
Whole(n) == << n >>
Torn == << >>
Absent == << Null >>

RECURSIVE Get(_, _)
\* The node at a path, none as a set without elements.
Get(n, path) ==
    IF path = << >> THEN {n}
    ELSE IF Head(path) \in Keys(n) THEN Get(n.of[Head(path)], Tail(path)) ELSE {}

With(n, k, child) ==
    Object([j \in Keys(n) \cup {k} |-> IF j = k THEN child ELSE n.of[j]])
Without(n, k) == Object([j \in Keys(n) \ {k} |-> n.of[j]])

-----------------------------------------------------------------------------
(* Merging: mergeObject and markProvenance.                                *)

BothObjects(d, s, k) == k \in Keys(d) /\ IsObject(d.of[k]) /\ IsObject(s.of[k])

RECURSIVE Merged(_, _)
Merged(d, s) ==
    Object([k \in Keys(d) \cup Keys(s) |->
        IF k \notin Keys(s) THEN d.of[k]
        ELSE IF BothObjects(d, s, k) THEN Merged(d.of[k], s.of[k])
        ELSE s.of[k]])

\* The paths where a source replaces what was there.
RECURSIVE Replaced(_, _, _)
Replaced(d, s, prefix) ==
    UNION {IF BothObjects(d, s, k) THEN Replaced(d.of[k], s.of[k], Append(prefix, k))
           ELSE {[path |-> Append(prefix, k), node |-> s.of[k]]} : k \in Keys(s)}

RECURSIVE Marked(_, _)
Marked(n, path) ==
    IF Keys(n) = {} THEN {path} ELSE UNION {Marked(n.of[k], Append(path, k)) : k \in Keys(n)}

Begins(path, prefix) == Len(prefix) <= Len(path) /\ SubSeq(path, 1, Len(prefix)) = prefix

Recorded_Kept(record, replaced, layer) ==
    LET marks == UNION {Marked(r.node, r.path) : r \in replaced}
    IN [p \in DOMAIN record \cup marks |-> IF p \in DOMAIN record THEN record[p] ELSE layer]
Recorded(record, replaced, layer) ==
    LET marks == UNION {Marked(r.node, r.path) : r \in replaced}
        kept == {p \in DOMAIN record : \A r \in replaced : ~Begins(p, r.path)}
    IN [p \in kept \cup marks |-> IF p \in marks THEN layer ELSE record[p]]

RECURSIVE Layered(_)
Layered(layers) ==
    IF layers = << >> THEN [tree |-> Empty, record |-> << >>]
    ELSE LET below == Layered(SubSeq(layers, 1, Len(layers) - 1))
             top == layers[Len(layers)]
         IN [tree |-> Merged(below.tree, top),
             record |-> Recorded(below.record, Replaced(below.tree, top, << >>), Len(layers))]

-----------------------------------------------------------------------------
(* Loading.                                                                *)

Value(t, k) == IF k \in Keys(t) THEN t.of[k] ELSE Null
Text(t, k) == IF Value(t, k) = Null THEN "" ELSE Value(t, k).value

\* combineLegacyVariant: the variant joins the model, unless there is no model
\* yet or it has one already.
Conflict(t) == Text(t, "variant") # "" /\ Text(t, "model") \in Encoding
Model(t) ==
    IF Text(t, "model") = "" THEN << >>
    ELSE IF Text(t, "variant") = "" THEN <<Text(t, "model")>> ELSE <<Text(t, "model"), Text(t, "variant")>>

\* Strict decoding and validation: an alias has a usage.
Aliases(t) == Value(t, "aliases")
Valid(t) ==
    /\ \A k \in {"model", "variant"} \cap Keys(t) : t.of[k].kind = "leaf"
    /\ "variant" \in Keys(t) => t.of["variant"] # Null
    /\ Value(t, "rules").kind = "list" \/ Value(t, "rules") = Null
    /\ IsObject(Aliases(t)) \/ Aliases(t) = Null
    /\ \A a \in Keys(Aliases(t)) :
          LET alias == Aliases(t).of[a]
          IN IsObject(alias) /\ Text(alias, "usage") # ""

\* validateConfigTrust: some fields are the user's only.
Trusted(record) == \A p \in DOMAIN record : p[1] = "rules" => record[p] <= 2

VARIABLES
    file,      \* the user's file
    backup,    \* its backup
    project,   \* the files of the project
    pc,        \* writer to "idle", "backup", "read", "truncate", "write"
    job,       \* writer to its update
    copy,      \* writer to the document it read and will write, as a file
    promised,  \* ghost: the values updates have reported, by path
    met,       \* ghost: writer to whether another one was active meanwhile
    cut,       \* ghost: a writer in place was killed
    loaded,    \* the last start: [ok, config, record]
    updates, loads

vars == <<file, backup, project, pc, job, copy, promised, met, cut, loaded, updates, loads>>

NoJob == [op |-> "", path |-> << >>, value |-> Null]
Starter == Object([web |-> Leaf("off")])
NotLoaded == [ok |-> FALSE, config |-> Empty, model |-> << >>, record |-> << >>, layers |-> << >>]

Init ==
    /\ file \in {Absent} \cup {Whole(g) : g \in Globals} /\ project \in Projects
    /\ backup = Absent /\ loaded = NotLoaded
    /\ pc = [w \in Writers |-> "idle"] /\ job = [w \in Writers |-> NoJob]
    /\ copy = [w \in Writers |-> Absent] /\ met = [w \in Writers |-> FALSE]
    /\ promised = << >> /\ cut = FALSE /\ updates = 0 /\ loads = 0

\* Discover and Load.  A file without contents is no YAML object; when no file
\* is there a starter is written.
Load ==
    /\ loads < MaxLoads /\ loads' = loads + 1
    /\ file' = IF file = Absent /\ project = << >> THEN Whole(Starter) ELSE file
    /\ LET global == IF file' = Absent THEN Empty ELSE file'[1]
           layers == <<Defaults, global>> \o project
           all == Layered(layers)
           good == Valid(all.tree) /\ ~Conflict(all.tree) /\ Trusted(all.record)
       IN loaded' = IF file' # Torn /\ good
                    THEN [ok |-> TRUE, config |-> Without(all.tree, "variant"), model |-> Model(all.tree),
                          record |-> [p \in DOMAIN all.record \ {<<"variant">>} |-> all.record[p]], layers |-> layers]
                    ELSE NotLoaded
    /\ UNCHANGED <<backup, project, pc, job, copy, promised, met, cut, updates>>

-----------------------------------------------------------------------------
(* The updates of a document; no result is an error.                       *)

\* UpdateDefaultSelection; a change is needed.
SetSelection(n, value) ==
    {With(Without(n, "variant"), "model", value)}

\* UpdateModelAlias: only the selector of the alias.
SetAlias(n, path, value) ==
    LET aliases == IF "aliases" \in Keys(n) THEN n.of["aliases"] ELSE Empty
        alias == IF path[2] \in Keys(aliases) THEN aliases.of[path[2]] ELSE Empty
    IN IF IsObject(aliases) /\ IsObject(alias)
       THEN {With(n, "aliases", With(aliases, path[2], With(alias, "model", value)))} ELSE {}

\* setField makes what is on the way an object.
RECURSIVE SetField(_, _, _)
SetField(n, path, value) ==
    IF Len(path) = 1 THEN With(n, path[1], value)
    ELSE With(n, path[1],
              SetField(IF path[1] \in Keys(n) /\ IsObject(n.of[path[1]]) THEN n.of[path[1]] ELSE Empty,
                       Tail(path), value))

RECURSIVE DeleteField(_, _)
DeleteField(n, path) ==
    IF path[1] \notin Keys(n) THEN n
    ELSE IF Len(path) = 1 THEN Without(n, path[1])
    ELSE IF IsObject(n.of[path[1]]) THEN With(n, path[1], DeleteField(n.of[path[1]], Tail(path)))
    ELSE n

\* appendField and removeField want a list.
Lists(n, path) == {l \in Get(n, path) : l.kind = "list"}
AppendField(n, path, value) ==
    {SetField(n, path, List(Append(l.of, value))) : l \in Lists(n, path)}
FirstAt(l, value) == CHOOSE i \in DOMAIN l.of : l.of[i] = value /\ \A j \in 1..(i - 1) : l.of[j] # value
RemoveAt(q, i) == SubSeq(q, 1, i - 1) \o SubSeq(q, i + 1, Len(q))
RemoveField(n, path, value) ==
    {SetField(n, path, List(RemoveAt(l.of, FirstAt(l, value)))) :
        l \in {l \in Lists(n, path) : \E i \in DOMAIN l.of : l.of[i] = value}}

InPlace(o) == o.op \in {"set", "delete", "append", "remove"}

Updated(o, n) ==
    CASE o.op = "model" -> SetSelection(n, o.value)
      [] o.op = "alias" -> SetAlias(n, o.path, o.value)
      [] o.op = "set" -> {SetField(n, o.path, o.value)}
      [] o.op = "delete" -> {DeleteField(n, o.path)}
      [] o.op = "append" -> AppendField(n, o.path, o.value)
      [] OTHER -> RemoveField(n, o.path, o.value)

\* What an update makes of a file: the chat's take a file without contents, or
\* none, for an empty document, the tool's do not.
Results(o, f) ==
    IF f \in {Absent, Torn} THEN IF InPlace(o) THEN {} ELSE Updated(o, Empty)
    ELSE Updated(o, f[1])

-----------------------------------------------------------------------------
(* The writers.                                                            *)

Active == {w \in Writers : pc[w] # "idle"}
Rest == <<project, loaded, loads>>

Begin(w, o) ==
    /\ pc[w] = "idle" /\ updates < MaxUpdates /\ updates' = updates + 1
    /\ pc' = [pc EXCEPT ![w] = IF InPlace(o) THEN "backup" ELSE "read"]
    /\ job' = [job EXCEPT ![w] = o]
    /\ met' = [v \in Writers |-> IF v = w THEN Active # {} ELSE met[v] \/ v \in Active]
    /\ UNCHANGED <<file, backup, copy, promised, cut, Rest>>

\* BackupConfig: nothing to do without a file.
Backup(w) ==
    /\ pc[w] = "backup" /\ pc' = [pc EXCEPT ![w] = "read"]
    /\ backup' = IF file = Absent THEN backup ELSE file
    /\ UNCHANGED <<file, job, copy, promised, met, cut, updates, Rest>>

Done(w) ==
    /\ pc' = [pc EXCEPT ![w] = "idle"] /\ job' = [job EXCEPT ![w] = NoJob]
    /\ copy' = [copy EXCEPT ![w] = Absent] /\ met' = [met EXCEPT ![w] = FALSE]

Related(p, q) == Begins(p, q) \/ Begins(q, p)

\* What an update reports to have done, by path.
Reports(o) ==
    CASE o.op = "model" -> (<<"model">> :> o.value) @@ (<<"variant">> :> Gone)
      [] o.op = "alias" -> Append(o.path, "model") :> o.value
      [] o.op = "set" -> o.path :> o.value
      [] o.op = "delete" -> o.path :> Gone
      [] OTHER -> << >>
Touched(o) == DOMAIN Reports(o) \cup (IF o.op = "model" THEN {} ELSE {o.path})

\* An update that met no other is promised, and what it does not touch stays.
\* Updates that meet may undo each other, not earlier ones.
Promise(w) ==
    LET kept == {p \in DOMAIN promised : \A q \in Touched(job[w]) : ~Related(p, q)}
    IN promised' = (IF met[w] THEN << >> ELSE Reports(job[w])) @@ [p \in kept |-> promised[p]]

\* The chat's updates write nothing when nothing changes.
Read(w) ==
    /\ pc[w] = "read" /\ UNCHANGED <<file, backup, updates, cut, Rest>>
    /\ LET results == {Whole(r) : r \in Results(job[w], file)} IN
       IF results = {} THEN Done(w) /\ UNCHANGED promised
       ELSE IF ~InPlace(job[w]) /\ results = {file} THEN Done(w) /\ Promise(w)
       ELSE /\ copy' = [copy EXCEPT ![w] = CHOOSE r \in results : TRUE]
            /\ pc' = [pc EXCEPT ![w] = IF InPlace(job[w]) THEN "truncate" ELSE "write"]
            \* What was read from a file without contents forgets the rest.
            /\ promised' = IF file = Torn THEN << >> ELSE promised
            /\ UNCHANGED <<job, met>>

\* os.WriteFile empties the file first.
Truncate(w) ==
    /\ pc[w] = "truncate" /\ pc' = [pc EXCEPT ![w] = "write"] /\ file' = Torn
    /\ UNCHANGED <<backup, job, copy, promised, met, cut, updates, Rest>>

Write(w) ==
    /\ pc[w] = "write" /\ file' = copy[w] /\ Done(w) /\ Promise(w)
    /\ UNCHANGED <<backup, cut, updates, Rest>>

\* A call fails, or the process is killed.
Stop(w) ==
    /\ pc[w] # "idle" /\ Done(w) /\ cut' = (cut \/ (pc[w] = "write" /\ InPlace(job[w])))
    /\ UNCHANGED <<file, backup, promised, updates, Rest>>

Next ==
    \/ Load
    \/ \E w \in Writers : Backup(w) \/ Read(w) \/ Truncate(w) \/ Write(w) \/ Stop(w)
    \/ \E w \in Writers, o \in Operations : Begin(w, o)

Spec == Init /\ [][Next]_vars

-----------------------------------------------------------------------------
TypeOK ==
    /\ \A w \in Writers : pc[w] \in {"idle", "backup", "read", "truncate", "write"}
    /\ \A w \in Writers : pc[w] = "idle" <=> job[w] = NoJob
    /\ updates \in 0..MaxUpdates /\ loads \in 0..MaxLoads

\* A layer decides a path when it has something there, or a value above.
RECURSIVE Decides(_, _)
Decides(n, path) ==
    IF ~IsObject(n) \/ path = << >> THEN TRUE
    ELSE Head(path) \in Keys(n) /\ Decides(n.of[Head(path)], Tail(path))

Values(n) == {p \in Marked(n, << >>) : p # << >> /\ \A v \in Get(n, p) : ~IsObject(v)}

\* The configuration has, where some layer has a value, what the last layer that
\* decides it says, and the record names that layer.
LayersHold ==
    loaded.ok =>
        \A p \in UNION {Values(loaded.layers[i]) : i \in DOMAIN loaded.layers} \ {<<"variant">>} :
            LET deciding == {i \in DOMAIN loaded.layers : Decides(loaded.layers[i], p)}
                last == CHOOSE i \in deciding : \A j \in deciding : j <= i
                said == Get(loaded.layers[last], p)
            IN (\A v \in said : ~IsObject(v)) =>
                   /\ Get(loaded.config, p) = said
                   /\ said # {} => loaded.record[p] = last

\* What updates reported stays in the file until it is updated again.
UpdatesKept ==
    file # Torn => \A p \in DOMAIN promised :
        file # Absent /\ Get(file[1], p) = {promised[p]} \ {Gone}

\* The file is without contents only while a tool writes it, or when that was
\* cut off.
TornOnlyInPlace ==
    file = Torn => cut \/ \E w \in Writers : pc[w] = "write" /\ InPlace(job[w])

\* A model the user chose is the one the next start begins with, unless the
\* project says otherwise.
ChoiceLoads ==
    /\ loaded.ok /\ Len(loaded.layers) = 2 /\ file = Whole(loaded.layers[2])
    /\ {<<"model">>, <<"variant">>} \subseteq DOMAIN promised /\ promised[<<"variant">>] = Gone
    => loaded.model = <<promised[<<"model">>].value>>

\* The configuration as a whole.
ConfigHolds == LayersHold /\ UpdatesKept /\ TornOnlyInPlace /\ ChoiceLoads
=============================================================================
