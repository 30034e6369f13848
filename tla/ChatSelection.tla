--------------------------- MODULE ChatSelection ---------------------------
(***************************************************************************)
(* The selection of a chat: which mode and model its session uses, as the  *)
(* chat shows it, as the session on the server has it, and as the          *)
(* configuration file keeps it for the next start.  A command of the user  *)
(* is a list of steps, each of which calls the server and may fail, which  *)
(* drops the rest; between them another client may change or delete the    *)
(* session, and the catalogue may change.  A model string is the tuple of  *)
(* its segments, without the provider; "fast" is an alias.                 *)
(***************************************************************************)
EXTENDS Naturals, Sequences, FiniteSets

CONSTANTS
    Commands,    \* what the user enters, each a sequence of steps
    Options,     \* the command lines of a start
    MaxCommands, \* commands of a run
    MaxOthers    \* what others do

NoModel == << >>
Alias == <<"fast">>
Item(id, variants) == [id |-> id, variants |-> variants]
\* In the second catalogue of the local server "n" is gone, and a model is
\* called as a variant of "m" was.
Catalogs ==
    [local |-> {<<Item(<<"m">>, <<"lo", "hi">>), Item(<<"n">>, << >>)>>,
                <<Item(<<"m">>, <<"hi">>), Item(<<"m", "lo">>, << >>)>>},
     remote |-> {<<Item(<<"r">>, <<"hi">>)>>}]
Modes == [local |-> <<"build", "plan">>, remote |-> <<"build">>]
SessionsAt == [local |-> {1, 2}, remote |-> {3}]

VARIABLES
    plain,     \* the chat has no enhanced terminal
    catalog,   \* per server, its models
    sessions,  \* per session, [agent, model], or None
    file,      \* the model in the configuration file
    running,   \* the chat runs
    api,       \* chatShell.api
    claims,    \* chatShell.claimRequest is set
    current,   \* chatShell.current.ID, or 0
    sel,       \* chatShell.selection
    models,    \* chatShell.models
    info,      \* chatShell.modelInfo, the id of a model
    todo,      \* the steps left of the command
    said,      \* ghost: the last string of a model the user chose and the chat confirmed
    drift,     \* ghost: why the session may differ from what is shown
    stale,     \* ghost: the file could not be written since the model was looked up
    sent,      \* ghost: [shown, used] of the last prompt
    commands, others

world == <<catalog, sessions, commands, others>>
vars == <<plain, world, file, running, api, claims, current, sel, models, info, todo, said, drift, stale, sent>>

None == [agent |-> "", model |-> NoModel]
NoSelection == [agent |-> "", model |-> NoModel, variant |-> ""]
AllSessions == SessionsAt.local \cup SessionsAt.remote
Server(id) == IF id \in SessionsAt.local THEN "local" ELSE "remote"

Canonical(s) == IF s.variant = "" THEN s.model ELSE Append(s.model, s.variant)
Ids(items) == {items[i].id : i \in DOMAIN items}
Variants(items, id) ==
    IF id \in Ids(items) THEN (CHOOSE x \in {items[i] : i \in DOMAIN items} : x.id = id).variants ELSE << >>
Offers(items, id, v) == \E i \in DOMAIN Variants(items, id) : Variants(items, id)[i] = v
Front(s) == SubSeq(s, 1, Len(s) - 1)

\* decodeCanonicalModel: an exact id, else an id with one of its variants.
Decodes(value, items) ==
    \/ value \in Ids(items)
    \/ Len(value) > 1 /\ Offers(items, Front(value), value[Len(value)])
Decode(value, items) ==
    IF value \in Ids(items) \/ value = NoModel THEN [agent |-> "", model |-> value, variant |-> ""]
    ELSE [agent |-> "", model |-> Front(value), variant |-> value[Len(value)]]

\* The server resolves aliases too.
Valid(server, s) ==
    /\ \E i \in DOMAIN Modes[server] : Modes[server][i] = s.agent
    /\ Decodes(s.model, catalog[server]) \/ (server = "local" /\ s.model = Alias)

\* UpdateSelection: the patch over what the session has.
Patched(id, agent, model) ==
    [agent |-> IF agent = "" THEN sessions[id].agent ELSE agent,
     model |-> IF model = NoModel THEN sessions[id].model ELSE model]

\* applySelection: the outcomes of a patch of the current session; it fails for
\* a session that is gone or busy, or an invalid selection, and it may be
\* applied and the call fail.
Outcomes(id, agent, model) ==
    {[ok |-> FALSE, at |-> sessions]} \cup
    IF sessions[id] = None \/ ~Valid(Server(id), Patched(id, agent, model)) THEN {}
    ELSE {[ok |-> ok, at |-> [sessions EXCEPT ![id] = Patched(id, agent, model)]] : ok \in BOOLEAN}

\* selectionFromSession: a string the catalogue does not know is kept whole;
\* one that has no provider is an error.
Readable(m) == m # Alias
FromSession(m, agent, items) ==
    [(IF Decodes(m, items) THEN Decode(m, items) ELSE [agent |-> "", model |-> m, variant |-> ""])
        EXCEPT !.agent = agent]

\* refreshModelInfo: unless it describes the model already; a failed lookup
\* leaves nothing.
Infos(s, server, old) ==
    IF s.model = NoModel THEN {NoModel} ELSE IF old = s.model THEN {old}
    ELSE {NoModel} \cup (IF s.model \in Ids(catalog[server]) THEN {s.model} ELSE {})

\* resolveVariant keeps a variant the model offers, else takes its first.
ResolveVariant(v, variants) ==
    IF variants = << >> THEN "" ELSE IF \E i \in DOMAIN variants : variants[i] = v THEN v ELSE variants[1]

-----------------------------------------------------------------------------
Init ==
    /\ plain \in BOOLEAN
    /\ catalog \in [local : Catalogs.local, remote : Catalogs.remote]
    /\ sessions = [id \in AllSessions |->
          CASE id = 1 -> [agent |-> "plan", model |-> <<"m", "lo">>]
            [] id = 2 -> None
            [] OTHER -> [agent |-> "build", model |-> <<"r">>]]
    /\ file \in {NoModel, <<"m", "hi">>}
    /\ running = FALSE /\ api = "local" /\ claims = FALSE /\ current = 0
    /\ sel = NoSelection /\ models = << >> /\ info = NoModel /\ todo = << >>
    /\ said = NoModel /\ drift = {} /\ stale = FALSE
    /\ sent = [shown |-> NoModel, used |-> NoModel] /\ commands = 0 /\ others = 0

\* ClaimSession and CreateSession: a session that is there, with the selection
\* it has, or a new one with the selection asked for.
Claimed(server, agent, model, forceNew) ==
    LET new == {id \in SessionsAt[server] : sessions[id] = None}
        want == [agent |-> agent, model |-> model]
    IN {[id |-> id, at |-> sessions] : id \in IF forceNew THEN {} ELSE SessionsAt[server] \ new}
       \cup (IF Valid(server, want)
             THEN {[id |-> id, at |-> [sessions EXCEPT ![id] = want]] : id \in new} ELSE {})

\* promptCommand: the one prompt of another process, in a session of its own or
\* with a patch of one that is there; its model may be an alias.
RunPrompt ==
    /\ others < MaxOthers /\ others' = others + 1
    /\ \E id \in SessionsAt.local, m \in {<<"m", "hi">>, Alias}, a \in {"build", "plan"} :
          /\ Valid("local", [agent |-> a, model |-> m])
          /\ sessions' = [sessions EXCEPT ![id] = [agent |-> a, model |-> m]]
          /\ drift' = IF id = current THEN drift \cup {"other"} ELSE drift
    /\ UNCHANGED <<plain, catalog, commands, file, running, api, claims, current, sel, models, info, todo, said, stale, sent>>

Removed ==
    /\ others < MaxOthers /\ others' = others + 1
    /\ \E id \in AllSessions : sessions[id] # None /\ sessions' = [sessions EXCEPT ![id] = None]
    /\ UNCHANGED <<plain, catalog, commands, file, running, api, claims, current, sel, models, info, todo, said, drift, stale, sent>>

-----------------------------------------------------------------------------
(* The start of the chat.                                                  *)

\* Open: the default model, from the command line or the file, must resolve;
\* without one the last selection of the project is restored if it does.
Defaults(opt) ==
    LET m == IF opt.model # NoModel THEN opt.model ELSE file
    IN IF m # NoModel THEN {m}
       ELSE {NoModel} \cup {sessions[id].model : id \in {id \in SessionsAt.local : Decodes(sessions[id].model, catalog.local)}}

\* command: the session asked for, patched with the options, or one it claims
\* for the default selection; the selection is then that of the session.
Start(opt) ==
    /\ ~running /\ commands < MaxCommands /\ commands' = commands + 1
    /\ \E m \in Defaults(opt), agent \in {IF opt.agent = "" THEN "build" ELSE opt.agent} :
         /\ m = NoModel \/ Decodes(m, catalog.local)
         /\ \E got \in IF opt.session # 0 THEN {[id |-> opt.session, at |-> sessions]}
                       ELSE IF m = NoModel THEN {[id |-> 0, at |-> sessions]}
                       ELSE Claimed("local", agent, m, FALSE) :
              LET item == IF got.id = 0 THEN None ELSE got.at[got.id]
                  patched == IF got.id = 0 THEN None
                             ELSE [agent |-> IF opt.agent = "" THEN item.agent ELSE opt.agent,
                                   model |-> IF opt.session = 0 \/ opt.model = NoModel THEN item.model ELSE opt.model]
              IN /\ got.id # 0 => item # None /\ Readable(patched.model) /\ Valid("local", patched)
                 /\ current' = got.id
                 /\ sessions' = IF got.id = 0 THEN sessions ELSE [got.at EXCEPT ![got.id] = patched]
                 /\ sel' = IF got.id = 0 THEN [Decode(m, catalog.local) EXCEPT !.agent = agent]
                           ELSE FromSession(patched.model, patched.agent, catalog.local)
    /\ running' = TRUE /\ api' = "local" /\ claims' = TRUE
    /\ models' = catalog.local /\ info' \in Infos(sel', "local", NoModel)
    /\ drift' = {} /\ stale' = FALSE
    /\ UNCHANGED <<plain, catalog, others, file, todo, said, sent>>

Exit ==
    /\ running /\ todo = << >> /\ running' = FALSE
    /\ current' = 0 /\ sel' = NoSelection /\ models' = << >> /\ info' = NoModel /\ drift' = {}
    /\ UNCHANGED <<plain, world, file, api, claims, todo, said, stale, sent>>

-----------------------------------------------------------------------------
(* The commands.                                                           *)

Enter(c) ==
    /\ running /\ todo = << >> /\ commands < MaxCommands
    /\ commands' = commands + 1 /\ todo' = c
    /\ UNCHANGED <<plain, catalog, sessions, others, file, running, api, claims, current, sel, models, info, said, drift, stale, sent>>

At(kind) == running /\ todo # << >> /\ Head(todo)[1] = kind
Arg == Head(todo)[2]
Rest == todo' = Tail(todo)
Fail == todo' = << >>

\* persistSelection, then what follows it: the file may not be written, and the
\* step then ends with an error.
Persist(s, refresh) ==
    \/ /\ file' = Canonical(s) /\ said' = Canonical(s) /\ Rest
       /\ IF refresh THEN info' \in Infos(s, api, info) /\ stale' = FALSE ELSE UNCHANGED <<info, stale>>
    \/ stale' = TRUE /\ Fail /\ UNCHANGED <<file, said, info>>

\* Patches the current session, if there is one, and goes on with what it did.
Patch(agent, model, Ok, Failed) ==
    IF current = 0 THEN Ok /\ UNCHANGED <<sessions, drift>>
    ELSE \E r \in Outcomes(current, agent, model) :
           /\ sessions' = r.at
           /\ IF r.ok THEN Ok /\ UNCHANGED drift
              ELSE /\ Failed
                   /\ drift' = IF r.at = sessions THEN drift ELSE drift \cup {"lost"}

Kept == UNCHANGED <<sel, file, said, info, stale>> /\ Fail

\* /model: the catalogue is listed, the string decoded, its variant carried
\* over; the session is patched before the chat's own selection changes.
Chosen(value, items) ==
    LET d == Decode(value, items)
    IN [d EXCEPT !.agent = sel.agent,
                 !.variant = IF @ # "" THEN @ ELSE ResolveVariant(sel.variant, Variants(items, d.model))]
ApplyModel_First(s) ==
    Patch("", Canonical(s), sel' = s /\ Persist(s, TRUE), sel' = s /\ Fail /\ UNCHANGED <<file, said, info, stale>>)
ApplyModel(s) ==
    Patch("", Canonical(s), sel' = s /\ Persist(s, TRUE), Kept)

SelectModel ==
    /\ At("model") /\ models' = catalog[api]
    /\ IF Decodes(Arg, models') THEN ApplyModel(Chosen(Arg, models'))
       ELSE Kept /\ UNCHANGED <<sessions, drift>>
    /\ UNCHANGED <<plain, catalog, commands, others, running, api, claims, current, sent>>

\* A prompt without a model asks for one first.
NeedModel ==
    /\ At("needmodel")
    /\ IF sel.model # NoModel THEN Rest /\ UNCHANGED models
       ELSE \/ Fail /\ UNCHANGED models
            \/ models' = catalog[api] /\ todo' = <<(<<"model", models'[1].id>>)>> \o Tail(todo)
    /\ UNCHANGED <<plain, world, file, running, api, claims, current, sel, info, said, drift, stale, sent>>

\* /effort
SelectEffort ==
    /\ At("effort") /\ models' = catalog[api]
    /\ IF sel.model # NoModel /\ Offers(models', sel.model, Arg)
       THEN LET s == [sel EXCEPT !.variant = Arg]
            IN Patch("", Canonical(s), sel' = s /\ Persist(s, FALSE), Kept)
       ELSE Kept /\ UNCHANGED <<sessions, drift>>
    /\ UNCHANGED <<plain, catalog, commands, others, running, api, claims, current, sent>>

\* /mode, the mode of a custom command and of a finished plan.
ApplyAgent ==
    /\ At("agent")
    /\ IF \E i \in DOMAIN Modes[api] : Modes[api][i] = Arg
       THEN Patch(Arg, NoModel, sel' = [sel EXCEPT !.agent = Arg] /\ Rest /\ UNCHANGED <<file, said, info, stale>>, Kept)
       ELSE Kept /\ UNCHANGED <<sessions, drift>>
    /\ UNCHANGED <<plain, catalog, commands, others, running, api, claims, current, models, sent>>

\* The selection after the chat turns to a session: setCurrent of the enhanced
\* chat takes the session even if it cannot read its model, and then keeps the
\* selection it had.
Differs(s, item) == Canonical(s) # item.model \/ s.agent # item.agent
SetCurrent(id, item) ==
    /\ current' = id
    /\ IF Readable(item.model)
       THEN /\ sel' = FromSession(item.model, item.agent, models)
            /\ info' \in Infos(sel', api, info) /\ stale' = FALSE
       ELSE UNCHANGED <<sel, info, stale>>
    /\ drift' = IF Readable(item.model) THEN {} ELSE {"adopted"}

\* /resume ID: the plain chat changes nothing unless it can read the model.
Resume ==
    /\ At("resume")
    /\ \/ /\ Arg \in SessionsAt[api] /\ sessions[Arg] # None
          /\ plain => Readable(sessions[Arg].model)
          /\ SetCurrent(Arg, sessions[Arg]) /\ Rest
       \/ Fail /\ UNCHANGED <<current, drift, sel, info, stale>>
    /\ UNCHANGED <<plain, world, file, running, api, claims, models, said, sent>>

\* createSession, for /new and for a prompt without a session.  The plain chat
\* does not take over the selection of the session it gets; a new one has that
\* of the chat.
Create ==
    /\ At("new") \/ At("need")
    /\ IF At("need") /\ current # 0 THEN Rest /\ UNCHANGED <<sessions, current, sel, info, drift, stale>>
       ELSE \/ /\ sel.model # NoModel /\ Rest
               /\ \E got \in Claimed(api, sel.agent, Canonical(sel), At("new") \/ ~claims) :
                    LET item == got.at[got.id] IN
                    /\ sessions' = got.at
                    /\ IF plain \/ At("new")
                       THEN /\ current' = got.id /\ UNCHANGED <<sel, info, stale>>
                            /\ drift' = IF Differs(sel, item) THEN {"adopted"} ELSE {}
                       ELSE SetCurrent(got.id, item)
            \/ Fail /\ UNCHANGED <<sessions, current, sel, info, drift, stale>>
    /\ UNCHANGED <<plain, catalog, commands, others, file, running, api, claims, models, said, sent>>

Send ==
    /\ At("send")
    /\ IF sessions[current] # None
       THEN sent' = IF drift = {} THEN [shown |-> Canonical(sel), used |-> sessions[current].model] ELSE sent
       ELSE UNCHANGED sent
    /\ Rest
    /\ UNCHANGED <<plain, world, file, running, api, claims, current, sel, models, info, said, drift, stale>>

\* /session delete ID
Delete ==
    /\ At("delete")
    /\ IF Arg \in SessionsAt[api] /\ sessions[Arg] # None
       THEN \/ /\ sessions' = [sessions EXCEPT ![Arg] = None] /\ Rest
               /\ current' = IF current = Arg THEN 0 ELSE current
            \/ Fail /\ UNCHANGED <<sessions, current>>
       ELSE Fail /\ UNCHANGED <<sessions, current>>
    /\ drift' = IF current' = 0 THEN {} ELSE drift
    /\ UNCHANGED <<plain, catalog, commands, others, file, running, api, claims, sel, models, info, said, stale, sent>>

\* /connect: the chat starts over on the other server, its mode kept if that
\* has it.
Forgotten == 0
Connect ==
    /\ At("connect")
    /\ \/ /\ api' = "remote" /\ claims' = FALSE /\ current' = Forgotten
          /\ sel' = [NoSelection EXCEPT !.agent =
                       IF \E i \in DOMAIN Modes.remote : Modes.remote[i] = sel.agent THEN sel.agent
                       ELSE Modes.remote[1]]
          /\ info' = NoModel /\ models' = catalog.remote /\ drift' = {} /\ stale' = FALSE /\ Rest
       \/ Fail /\ UNCHANGED <<api, claims, current, sel, info, models, drift, stale>>
    /\ UNCHANGED <<plain, world, file, running, said, sent>>

\* /auth: the local catalogue may change; the chat lists it again, or fails to.
Reload ==
    /\ At("reload")
    /\ \E c \in Catalogs.local :
          /\ catalog' = [catalog EXCEPT !.local = c]
          /\ models' \in {models, catalog'[api]}
    /\ Rest
    /\ UNCHANGED <<plain, sessions, commands, others, file, running, api, claims, current, sel, info, said, drift, stale, sent>>

Next ==
    \/ \E opt \in Options : Start(opt)
    \/ \E c \in Commands : Enter(c)
    \/ SelectModel \/ NeedModel \/ SelectEffort \/ ApplyAgent \/ Resume \/ Create
    \/ Send \/ Delete \/ Connect \/ Reload \/ Exit \/ RunPrompt \/ Removed

Spec == Init /\ [][Next]_vars

-----------------------------------------------------------------------------
TypeOK ==
    /\ api \in {"local", "remote"} /\ current \in {0} \cup AllSessions
    /\ sel.agent \in {"", "build", "plan"} /\ drift \subseteq {"other", "lost", "adopted"}

\* What the chat shows is what its session has, unless another client changed
\* it, the answer to a change was lost, or the plain chat was given a session
\* that was there.
SelectionIsShown ==
    running /\ current # 0 /\ drift = {} /\ sessions[current] # None =>
        /\ Server(current) = api
        /\ Canonical(sel) = sessions[current].model /\ sel.agent = sessions[current].agent

\* The context window shown is that of the model selected, unless the file
\* could not be written.
InfoIsShown == running /\ info # NoModel => info = sel.model \/ stale

\* A prompt runs with the model shown.
PromptUses == sent.shown = sent.used

\* The file has what the user chose last.
ChoiceIsKept == said # NoModel => file = said

SelectionIsTrue == SelectionIsShown /\ InfoIsShown /\ PromptUses /\ ChoiceIsKept
=============================================================================
