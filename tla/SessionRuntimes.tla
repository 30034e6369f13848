--------------------------- MODULE SessionRuntimes ---------------------------
(***************************************************************************)
(* The repository that owns the one runtime object of every persisted      *)
(* session (agentSessionRepository): Get and bind with their waiting       *)
(* callers, the creation of children with its rollbacks, deletion, and the *)
(* snapshot with which the user session shuts down.  One caller makes one  *)
(* call; a binding is known by the caller that performs it.                *)
(***************************************************************************)
EXTENDS Naturals, FiniteSets

CONSTANTS
    Callers,        \* goroutines, each making one call
    Root,           \* a session that exists at the start
    Children,       \* identifiers of children that may be created under Root
    MaxChildTasks,  \* the limit of managed children
    None,
    Failed, Missing  \* what a call returns instead of an object

Sessions == {Root} \cup Children
Objects == Callers \X Sessions      \* the object a caller builds for a session

VARIABLES
    durable,    \* sessions with a store on disk
    dtos,       \* r.dtos
    relations,  \* r.children
    sessions,   \* r.sessions: session -> object or None
    binding,    \* r.bindings: session -> the caller that binds it or None
    closed,     \* userSession.closed and r.closed
    managed,    \* objects whose managedTask is set
    childMu,    \* holder of userSession.childMu or None
    snapshot,   \* the objects closeAndSnapshot returned, None before
    rpc, op, goal, cur,  \* per caller: step, call, session asked for, session at hand
    awaits,     \* the caller whose binding a caller waits for
    outcome,    \* "ok" or "failed" once a caller's binding has ended
    got         \* what the call has returned

repo == <<durable, dtos, relations, sessions, binding>>
calls == <<rpc, op, goal, cur, awaits, outcome, got>>
vars == <<repo, closed, managed, childMu, snapshot, calls>>

Init ==
    /\ durable = {Root} /\ dtos = {Root} /\ relations = {}
    /\ sessions = [s \in Sessions |-> None] /\ binding = [s \in Sessions |-> None]
    /\ closed = [user |-> FALSE, repository |-> FALSE]
    /\ managed = {} /\ childMu = None /\ snapshot = None
    /\ rpc = [u \in Callers |-> "idle"] /\ op = [u \in Callers |-> None]
    /\ goal = [u \in Callers |-> Root] /\ cur = [u \in Callers |-> Root]
    /\ awaits = [u \in Callers |-> None]
    /\ outcome = [u \in Callers |-> None] /\ got = [u \in Callers |-> None]

Go(u, step) == rpc' = [rpc EXCEPT ![u] = step]
Keep == UNCHANGED <<repo, closed, managed, childMu, snapshot, op, goal, cur, awaits, outcome, got>>

\* What follows the runtime of the session at hand: the child whose parent it
\* is, the deletion, the admission of the new child's prompt, or the return.
Continue(u, result) ==
    IF cur[u] # goal[u]
    THEN /\ rpc' = [rpc EXCEPT ![u] = IF result = Failed THEN "done" ELSE "bind"]
         /\ cur' = [cur EXCEPT ![u] = goal[u]]
         /\ got' = [got EXCEPT ![u] = IF result = Failed THEN result ELSE @]
    ELSE /\ rpc' = [rpc EXCEPT ![u] = IF result = Failed /\ op[u] # "create" THEN "done"
                                     ELSE IF op[u] = "delete" THEN "erase"
                                     ELSE IF op[u] = "create" /\ result # Failed THEN "admit"
                                     ELSE IF op[u] = "create" THEN "release" ELSE "done"]
         /\ got' = [got EXCEPT ![u] = result]
         /\ UNCHANGED cur

\* Get of a session, from any of the handlers that look sessions up.
CallGet(u, s) ==
    /\ rpc[u] = "idle" /\ op' = [op EXCEPT ![u] = "get"] /\ Go(u, "look")
    /\ goal' = [goal EXCEPT ![u] = s] /\ cur' = [cur EXCEPT ![u] = s]
    /\ UNCHANGED <<repo, closed, managed, childMu, snapshot, awaits, outcome, got>>

\* DeleteSession gets the session before it deletes it.
CallDelete(u, s) ==
    /\ rpc[u] = "idle" /\ op' = [op EXCEPT ![u] = "delete"] /\ Go(u, "look")
    /\ goal' = [goal EXCEPT ![u] = s] /\ cur' = [cur EXCEPT ![u] = s]
    /\ UNCHANGED <<repo, closed, managed, childMu, snapshot, awaits, outcome, got>>

\* userSession.CreateChild by a turn of Root: the reservation, the lookup of
\* the parent's runtime, the lock of creations, the closed flag, the limit.
CallCreate(u) ==
    /\ rpc[u] = "idle" /\ sessions[Root] # None /\ Go(u, "lock")
    /\ op' = [op EXCEPT ![u] = "create"]
    /\ UNCHANGED <<repo, closed, managed, childMu, snapshot, goal, cur, awaits, outcome, got>>

Registered == {s \in Sessions : sessions[s] \in managed}

LockCreate(u) ==
    /\ rpc[u] = "lock" /\ childMu = None
    /\ IF closed.user \/ Cardinality(Registered) >= MaxChildTasks
       THEN Go(u, "done") /\ UNCHANGED childMu
       ELSE Go(u, "persist") /\ childMu' = u
    /\ UNCHANGED <<repo, closed, managed, snapshot, op, goal, cur, awaits, outcome, got>>

\* createSelected writes the session under a fresh identifier; this or the
\* reading of the parent's record may fail.
Persist(u) ==
    /\ rpc[u] = "persist"
    /\ \/ \E c \in Children \ (durable \cup {goal[v] : v \in Callers}) :
             /\ Root \in durable /\ durable' = durable \cup {c} /\ Go(u, "relate")
             /\ goal' = [goal EXCEPT ![u] = c] /\ cur' = [cur EXCEPT ![u] = c]
       \/ Go(u, "release") /\ UNCHANGED <<durable, goal, cur>>
    /\ UNCHANGED <<dtos, relations, sessions, binding, closed, managed, childMu, snapshot,
                   op, awaits, outcome, got>>

\* The relation is set before the runtime is bound: anybody may find the child.
Relate(u) ==
    /\ rpc[u] = "relate" /\ Go(u, "bind")
    /\ dtos' = dtos \cup {cur[u]} /\ relations' = relations \cup {cur[u]}
    /\ UNCHANGED <<durable, sessions, binding, closed, managed, childMu, snapshot,
                   op, goal, cur, awaits, outcome, got>>

\* Get under the lock: the runtime, or what is known of the session.
Look(u) ==
    /\ rpc[u] = "look"
    /\ \/ sessions[cur[u]] # None /\ Continue(u, sessions[cur[u]])
       \/ /\ sessions[cur[u]] = None /\ UNCHANGED got
          /\ \/ cur[u] \notin dtos /\ Go(u, "load") /\ UNCHANGED cur
             \/ cur[u] \in dtos \ relations /\ Go(u, "bind") /\ UNCHANGED cur
             \/ cur[u] \in dtos \cap relations /\ Go(u, "look")
                /\ cur' = [cur EXCEPT ![u] = Root]
    /\ UNCHANGED <<repo, closed, managed, childMu, snapshot, op, goal, awaits, outcome>>

\* Get loads an unknown session from its store, and records a child's relation
\* under the lock afterwards.
Load(u) ==
    /\ rpc[u] = "load"
    /\ \/ cur[u] \notin durable /\ Continue(u, Failed)
       \/ cur[u] \in durable /\ UNCHANGED <<cur, got>>
          /\ Go(u, IF cur[u] = Root THEN "bind" ELSE "record")
    /\ UNCHANGED <<repo, closed, managed, childMu, snapshot, op, goal, awaits, outcome>>

Record(u) ==
    /\ rpc[u] = "record" /\ Go(u, "look")
    /\ dtos' = dtos \cup {cur[u]} /\ relations' = relations \cup {cur[u]}
    /\ cur' = [cur EXCEPT ![u] = Root]
    /\ UNCHANGED <<durable, sessions, binding, closed, managed, childMu, snapshot,
                   op, goal, awaits, outcome, got>>

Rolls(u) == op[u] = "create"    \* bind was given a rollback

\* bind under the lock: refused when closed, the existing object, a wait for
\* another's binding, or a binding of its own.
Bind_Alone(u) ==
    /\ rpc[u] = "bind" /\ ~closed.repository /\ binding[cur[u]] = None
    /\ Go(u, "build") /\ binding' = [binding EXCEPT ![cur[u]] = u]
    /\ UNCHANGED <<durable, dtos, relations, sessions, closed, managed, childMu, snapshot,
                   op, goal, cur, awaits, outcome, got>>

Bind(u) ==
    /\ rpc[u] = "bind"
    /\ \/ /\ closed.repository
          /\ IF Rolls(u) THEN Go(u, "rollback") /\ UNCHANGED <<cur, got>>
             ELSE Continue(u, Failed)
          /\ UNCHANGED <<binding, awaits>>
       \/ /\ ~closed.repository /\ sessions[cur[u]] # None
          /\ Continue(u, sessions[cur[u]]) /\ UNCHANGED <<binding, awaits>>
       \/ /\ ~closed.repository /\ sessions[cur[u]] = None /\ binding[cur[u]] # None
          /\ Go(u, "wait") /\ awaits' = [awaits EXCEPT ![u] = binding[cur[u]]]
          /\ UNCHANGED <<binding, cur, got>>
       \/ /\ ~closed.repository /\ sessions[cur[u]] = None /\ binding[cur[u]] = None
          /\ Go(u, "build") /\ binding' = [binding EXCEPT ![cur[u]] = u]
          /\ UNCHANGED <<awaits, cur, got>>
    /\ UNCHANGED <<durable, dtos, relations, sessions, closed, managed, childMu, snapshot,
                   op, goal, outcome>>

\* The other's binding is done: its error, or what the map holds by now.
Awake(u) ==
    /\ rpc[u] = "wait" /\ binding[cur[u]] # awaits[u]
    /\ Continue(u, IF outcome[awaits[u]] = "failed" THEN Failed
                   ELSE IF sessions[cur[u]] = None THEN Missing ELSE sessions[cur[u]])
    /\ UNCHANGED <<repo, closed, managed, childMu, snapshot, op, goal, awaits, outcome>>

\* RepairActive opens the store, the tools and the system prompt are made;
\* any of it may fail, and does without a store.
Build(u) ==
    /\ rpc[u] = "build"
    /\ \/ cur[u] \in durable /\ Go(u, "publish")
       \/ Go(u, IF Rolls(u) THEN "rollback" ELSE "unbind")
    /\ Keep

\* The end of a binding under the lock.
Publish(u) ==
    /\ rpc[u] = "publish"
    /\ sessions' = [sessions EXCEPT ![cur[u]] = <<u, cur[u]>>]
    /\ dtos' = dtos \cup {cur[u]} /\ binding' = [binding EXCEPT ![cur[u]] = None]
    /\ outcome' = [outcome EXCEPT ![u] = "ok"] /\ Continue(u, <<u, cur[u]>>)
    /\ UNCHANGED <<durable, relations, closed, managed, childMu, snapshot, op, goal, awaits>>

Unbind(u) ==
    /\ rpc[u] = "unbind"
    /\ binding' = [binding EXCEPT ![cur[u]] = None]
    /\ outcome' = [outcome EXCEPT ![u] = "failed"] /\ Continue(u, Failed)
    /\ UNCHANGED <<durable, dtos, relations, sessions, closed, managed, childMu, snapshot,
                   op, goal, awaits>>

\* The rollback deletes the store and then, if that succeeded, what the
\* repository knows of the session; without a binding when it was closed.
Rollback(u) ==
    /\ rpc[u] = "rollback"
    /\ \/ durable' = durable \ {cur[u]} /\ Go(u, "forget")
       \/ Go(u, IF binding[cur[u]] = u THEN "unbind" ELSE "release") /\ UNCHANGED durable
    /\ UNCHANGED <<dtos, relations, sessions, binding, closed, managed, childMu, snapshot,
                   op, goal, cur, awaits, outcome, got>>

Forget(u) ==
    /\ rpc[u] = "forget" /\ Go(u, "release")
    /\ relations' = relations \ {cur[u]} /\ dtos' = dtos \ {cur[u]}
    /\ IF binding[cur[u]] = u
       THEN /\ sessions' = [sessions EXCEPT ![cur[u]] = None]
            /\ binding' = [binding EXCEPT ![cur[u]] = None]
            /\ outcome' = [outcome EXCEPT ![u] = "failed"]
       ELSE UNCHANGED <<sessions, binding, outcome>>
    /\ UNCHANGED <<durable, closed, managed, childMu, snapshot, op, goal, cur, awaits, got>>

\* The new child's prompt is admitted and its task registered, or one of the
\* two fails and the child is discarded.
Admit(u) ==
    /\ rpc[u] = "admit"
    /\ \/ Go(u, "release") /\ managed' = managed \cup {got[u]}
       \/ Go(u, "discard") /\ UNCHANGED managed
    /\ UNCHANGED <<repo, closed, childMu, snapshot, op, goal, cur, awaits, outcome, got>>

\* DiscardChild: the store first; a failure retains the hierarchy.
Discard(u) ==
    /\ rpc[u] = "discard"
    /\ \/ durable' = durable \ {cur[u]} /\ Go(u, "detach")
       \/ Go(u, "release") /\ UNCHANGED durable
    /\ UNCHANGED <<dtos, relations, sessions, binding, closed, managed, childMu, snapshot,
                   op, goal, cur, awaits, outcome, got>>

Detach(u) ==
    /\ rpc[u] = "detach" /\ Go(u, "release")
    /\ sessions' = [sessions EXCEPT ![cur[u]] = None]
    /\ relations' = relations \ {cur[u]} /\ dtos' = dtos \ {cur[u]}
    /\ UNCHANGED <<durable, binding, closed, managed, childMu, snapshot,
                   op, goal, cur, awaits, outcome, got>>

ReleaseCreate(u) ==
    /\ rpc[u] = "release" /\ childMu' = None /\ Go(u, "done")
    /\ UNCHANGED <<repo, closed, managed, snapshot, op, goal, cur, awaits, outcome, got>>

\* userSession.Delete after the interrupt: the store, then Remove, which
\* refuses while a turn runs or a child is being created.
Erase(u) ==
    /\ rpc[u] = "erase"
    /\ IF cur[u] \in durable
       THEN \/ durable' = durable \ {cur[u]} /\ Go(u, "remove")
            \/ Go(u, "done") /\ UNCHANGED durable
       ELSE Go(u, "done") /\ UNCHANGED durable
    /\ UNCHANGED <<dtos, relations, sessions, binding, closed, managed, childMu, snapshot,
                   op, goal, cur, awaits, outcome, got>>

Creating == \E u \in Callers : op[u] = "create" /\ rpc[u] # "done"

Remove(u) ==
    /\ rpc[u] = "remove" /\ Go(u, "done")
    /\ \/ ~(cur[u] = Root /\ Creating) /\ sessions' = [sessions EXCEPT ![cur[u]] = None]
       \/ UNCHANGED sessions
    /\ UNCHANGED <<durable, dtos, relations, binding, closed, managed, childMu, snapshot,
                   op, goal, cur, awaits, outcome, got>>

\* Shutdown sets the flag of the user session, then the repository's, and
\* waits for the bindings under way before it takes the runtimes.
CallShutdown(u) ==
    /\ rpc[u] = "idle" /\ Go(u, "close") /\ op' = [op EXCEPT ![u] = "shutdown"]
    /\ closed' = [closed EXCEPT !.user = TRUE]
    /\ UNCHANGED <<repo, managed, childMu, snapshot, goal, cur, awaits, outcome, got>>

Bound == {sessions[s] : s \in Sessions} \ {None}

CloseAndSnapshot(u) ==
    /\ rpc[u] = "close" /\ closed' = [closed EXCEPT !.repository = TRUE]
    /\ IF \A s \in Sessions : binding[s] = None
       THEN snapshot' = Bound /\ Go(u, "done")
       ELSE /\ \/ Go(u, "close") /\ ~closed.repository  \* await them, look again
               \/ Go(u, "done")                         \* the context ends
            /\ UNCHANGED snapshot
    /\ UNCHANGED <<repo, managed, childMu, op, goal, cur, awaits, outcome, got>>

AllDone == (\A u \in Callers : rpc[u] = "done") /\ UNCHANGED vars

Next ==
    \/ \E u \in Callers :
          \/ \E s \in Sessions : CallGet(u, s) \/ CallDelete(u, s)
          \/ CallCreate(u) \/ LockCreate(u) \/ Persist(u) \/ Relate(u)
          \/ Look(u) \/ Load(u) \/ Record(u) \/ Bind(u) \/ Awake(u) \/ Build(u)
          \/ Publish(u) \/ Unbind(u) \/ Rollback(u) \/ Forget(u) \/ Admit(u)
          \/ Discard(u) \/ Detach(u) \/ ReleaseCreate(u) \/ Erase(u) \/ Remove(u)
          \/ CallShutdown(u) \/ CloseAndSnapshot(u)
    \/ AllDone

Spec == Init /\ [][Next]_vars

-----------------------------------------------------------------------------
\* Shutdown stops every runtime: none is bound behind the snapshot that
\* closeAndSnapshot returned.
ShutdownSeesAll == snapshot # None => Bound \subseteq snapshot

\* "A persisted child never becomes unreachable from its parent" (DiscardChild):
\* once related, a child whose store exists has its relation.
ChildReachable ==
    \A c \in Children \cap durable :
        c \in relations \/ \E u \in Callers : rpc[u] = "relate" /\ cur[u] = c

\* userSession.childMu makes the count and the creation one step: the limit of
\* managed children holds.
TasksWithinLimit == Cardinality(Registered) <= MaxChildTasks

\* A caller that waited for another's binding gets a runtime or an error.  It
\* does not hold: the session may be removed before the caller wakes.
NeverNil == \A u \in Callers : got[u] # Missing

\* Runtimes and children are accounted for, whatever is bound, created, discarded
\* and shut down at the same time; and a session has one runtime object, which
\* nobody replaces by another, so that all who got it before a removal share it
\* (agentSessionRepository: "owns the one runtime AgentSession object").
OneRuntime == \A s \in Sessions : sessions[s] # None => sessions'[s] \in {sessions[s], None}

RuntimesAccounted ==
    /\ [](ShutdownSeesAll /\ ChildReachable /\ TasksWithinLimit)
    /\ [][OneRuntime]_vars
=============================================================================
