---------------------------- MODULE ModelCatalog ----------------------------
(***************************************************************************)
(* The catalogue of models: what the configuration declares, a preset      *)
(* knows and an endpoint serves become the models of a provider; the       *)
(* registry resolves selectors and aliases among them.  A start of the     *)
(* program builds the providers, a change of a credential in the chat      *)
(* rebuilds them, and /model-alias changes an alias in the registry, the   *)
(* configuration file, the prompt and the chat; each of these steps may    *)
(* fail.  A selector or an id is the tuple of its segments.                *)
(***************************************************************************)
EXTENDS Naturals, Sequences, FiniteSets

CONSTANTS
    Aliases,   \* names of model aliases
    Targets,   \* selectors the user gives to /model-alias
    Files,     \* configuration files: aliases with their selectors, << >> for none, and the default model
    MaxBuilds, \* how often providers are built
    MaxEdits   \* how often an alias is changed

Empty == << >>
Model(id, window, variants) == [id |-> id, window |-> window, variants |-> variants]
Entry(id, listed, window, efforts, preferred, thinks) ==
    [id |-> id, listed |-> listed, window |-> window, efforts |-> efforts,
     preferred |-> preferred, thinks |-> thinks]

\* Presets, by what tells them apart: which decoder reads the endpoint's list,
\* and which models the preset describes.
Presets ==
    [openrouter |-> [decoder |-> "openrouter", defaults |-> {}],
     kimi |-> [decoder |-> "kimi", defaults |-> {}],
     opencode |-> [decoder |-> "standard",
                   defaults |-> {Model(<<"b">>, 2, <<"hi", "lo">>), Model(<<"c">>, 2, << >>)}]]
OptionalIDs == DOMAIN Presets

\* The configuration declares one provider, "own", with one model.
Declared(p) == IF p = "own" THEN {Model(<<"a">>, 2, <<"lo">>)} ELSE {}
Defaults(p) == IF p \in OptionalIDs THEN Presets[p].defaults ELSE {}
Decoder(p) == IF p \in OptionalIDs THEN Presets[p].decoder ELSE "standard"
Bundled == {Model(<<"a">>, 1, <<"lo", "hi">>)}

\* What an endpoint may answer: the second list has an unusable entry, a
\* duplicate and an id that looks like a variant of "b"; the third is empty of
\* usable entries.
Served == {
    <<Entry(<<"b">>, TRUE, 1, <<"lo", "hi">>, "hi", TRUE), Entry(<<"a">>, TRUE, 1, <<"hi">>, "", FALSE)>>,
    <<Entry(Empty, FALSE, 1, << >>, "", FALSE), Entry(<<"b">>, TRUE, 1, << >>, "", TRUE),
      Entry(<<"b">>, TRUE, 2, <<"hi">>, "hi", TRUE), Entry(<<"b", "hi">>, TRUE, 1, << >>, "", FALSE)>>,
    <<Entry(Empty, FALSE, 0, << >>, "", FALSE)>> }

VARIABLES
    vendor,    \* the preset provider the user has an account with
    stored,    \* providers with a stored credential
    environ,   \* providers whose key is in the environment
    file,      \* the configuration file
    pc,        \* "down", "building", "chat", "install", "persist"
    job,       \* "start" or "reload", or the alias being changed and its target
    building,  \* the providers under construction: id to set of models
    left,      \* those whose catalogue is still being fetched
    cancelled, \* the caller's context has ended
    fetched,   \* ghost: providers whose catalogue was fetched, under construction and live
    registry,  \* ProviderRegistry.providers: id to set of models
    aliases,   \* ProviderRegistry.aliases
    config,    \* App.Config's aliases
    prompt,    \* the aliases in the system prompt
    chat,      \* chatShell.modelAliases
    models,    \* chatShell.models: the catalogue the chat listed last
    remote,    \* chatShell.api is a remote server
    builds, edits

store == <<vendor, stored, environ, file>>
live == <<registry, aliases, config, prompt, chat, models>>
vars == <<store, pc, job, building, left, cancelled, fetched, live, remote, builds, edits>>

NoProviders == << >>

-----------------------------------------------------------------------------
(* Decoding the list of an endpoint; no usable model is an error.          *)

\* The first of the entries with an id, among those at the positions I.
Firsts(w, I) == {i \in I : w[i].id # Empty /\ \A j \in I : j < i => w[j].id # w[i].id}

OrderedEfforts(efforts, preferred) ==
    IF \E i \in DOMAIN efforts : efforts[i] = preferred
    THEN LET i == CHOOSE i \in DOMAIN efforts : efforts[i] = preferred
         IN [efforts EXCEPT ![1] = preferred, ![i] = efforts[1]]
    ELSE efforts

DecodeStandardModels(w) ==
    {Model(w[i].id, w[i].window, << >>) : i \in Firsts(w, DOMAIN w)}
DecodeOpenRouterModels(w) ==
    {Model(w[i].id, w[i].window, OrderedEfforts(w[i].efforts, w[i].preferred)) : i \in Firsts(w, DOMAIN w)}
DecodeKimiModels(w) ==
    {Model(w[i].id, w[i].window,
           IF w[i].thinks THEN OrderedEfforts(w[i].efforts, w[i].preferred) ELSE << >>) : i \in Firsts(w, DOMAIN w)}

\* Codex: entries that are not listed are left out, a listed one without an id
\* or a context window is an error.
DecodeChatGPTModels(w) ==
    LET listed == {i \in DOMAIN w : w[i].listed}
    IN IF \E i \in listed : w[i].id = Empty \/ w[i].window = 0 THEN {}
       ELSE {Model(w[i].id, w[i].window, w[i].efforts) : i \in Firsts(w, listed)}

Decode(p, w) ==
    CASE Decoder(p) = "openrouter" -> DecodeOpenRouterModels(w)
      [] Decoder(p) = "kimi" -> DecodeKimiModels(w)
      [] OTHER -> DecodeStandardModels(w)

Of(models_, id) == {m \in models_ : m.id = id}
One(models_) == CHOOSE m \in models_ : TRUE
Described(p, id) == IF Of(Declared(p), id) # {} THEN Of(Declared(p), id) ELSE Of(Defaults(p), id)

\* mergeModels: a description wins, the list fills its gaps; what is declared
\* is always there.
Filled(p, m) ==
    IF Described(p, m.id) = {} THEN m
    ELSE LET d == One(Described(p, m.id))
         IN Model(d.id, IF d.window = 0 THEN m.window ELSE d.window,
                  IF d.variants = << >> THEN m.variants ELSE d.variants)
MergeModels_NoDeclared(p, list) == {Filled(p, m) : m \in list}
MergeModels(p, list) ==
    {Filled(p, m) : m \in list} \cup {m \in Declared(p) : Of(list, m.id) = {}}

\* NewOpenAICompatible: until a list is fetched the descriptions stand in.
Offline(p) == Declared(p) \cup {m \in Defaults(p) : Of(Declared(p), m.id) = {}}

-----------------------------------------------------------------------------
(* The registry.                                                           *)

Suffix(s) == SubSeq(s, 1, Len(s) - 1)
HasVariant(m, v) == \E i \in DOMAIN m.variants : m.variants[i] = v

\* resolveProvider: a model of that id, else the one model with that variant;
\* the set is empty for a selector that is unknown or ambiguous.
Resolve(providers, selector) ==
    IF Len(selector) < 2 \/ selector[1] \notin DOMAIN providers THEN {}
    ELSE LET id == Tail(selector)
             exact == Of(providers[selector[1]], id)
             \* A variant's name has one segment here.
             matches == {m \in Of(providers[selector[1]], Suffix(id)) : HasVariant(m, id[Len(id)])}
         IN IF exact # {} THEN {[provider |-> selector[1], id |-> id, variant |-> ""]}
            ELSE IF Cardinality(matches) # 1 THEN {}
            ELSE {[provider |-> selector[1], id |-> Suffix(id), variant |-> id[Len(id)]]}

Installed(targets) == [n \in {n \in DOMAIN targets : targets[n] # Empty} |-> targets[n]]

\* validateAliasTargets
ValidAliases(targets, providers) ==
    \A n \in DOMAIN targets : targets[n] \notin {<<k>> : k \in DOMAIN targets}
                              /\ Resolve(providers, targets[n]) # {}

\* ResolveModel: an alias stands for its target.
ResolveModel(selector) ==
    IF Len(selector) = 1 /\ selector[1] \in DOMAIN aliases THEN Resolve(registry, aliases[selector[1]])
    ELSE Resolve(registry, selector)

-----------------------------------------------------------------------------
Init ==
    /\ vendor \in OptionalIDs /\ file \in Files
    /\ \/ stored = {"own"} /\ environ = {}
       \/ stored = {"chatgpt", vendor} /\ environ = {"own"}
    /\ pc = "down" /\ job = << >> /\ building = NoProviders /\ left = {} /\ cancelled = FALSE
    /\ fetched = [built |-> {}, live |-> {}]
    /\ registry = NoProviders /\ aliases = << >>
    /\ config = << >> /\ prompt = << >> /\ chat = << >> /\ models = NoProviders
    /\ remote = FALSE /\ builds = 0 /\ edits = 0

Needed == {"own"}

\* BuildProviders up to the refresh: ChatGPT needs no key, a configured provider
\* does, a preset nobody configured is built when it has one.
Build(kind) ==
    /\ builds < MaxBuilds /\ builds' = builds + 1
    /\ pc' = "building" /\ job' = <<kind>> /\ cancelled' = FALSE
    /\ LET ids == {"chatgpt"} \cup Needed \cup {p \in OptionalIDs : p \in stored'}
       IN /\ building' = [p \in ids |-> IF p = "chatgpt" THEN Bundled ELSE Offline(p)]
          /\ left' = ids
    /\ fetched' = [fetched EXCEPT !.built = {}]

Buildable == \A p \in Needed : p \in environ \cup stored'

Start ==
    /\ pc = "down"
    /\ UNCHANGED <<store, live, remote, edits>>
    /\ IF Buildable THEN Build("start")
       ELSE /\ builds < MaxBuilds /\ builds' = builds + 1
            /\ UNCHANGED <<pc, job, building, left, cancelled, fetched>>

\* /auth login and logout; storing the credential may fail, and so may the
\* build, which leaves the live providers.
Change(p, now) ==
    /\ pc = "chat" /\ stored' = now
    /\ UNCHANGED <<vendor, environ, file, live, remote, edits>>
    /\ \/ Buildable /\ Build("reload")
       \/ UNCHANGED <<pc, job, building, left, cancelled, fetched, builds>>
Login(p) == p \notin stored /\ Change(p, stored \cup {p})
Logout(p) == p \in stored /\ Change(p, stored \ {p})

\* RefreshModels: an answer without a usable model is an error, and ChatGPT
\* needs a credential.
FetchChatGPT ==
    IF "chatgpt" \in stored THEN {DecodeChatGPTModels(w) : w \in Served} \ {{}} ELSE {}
FetchCompatible(p) == {MergeModels(p, list) : list \in {Decode(p, w) : w \in Served} \ {{}}}

\* refreshProviderModels: each provider by itself; a failure keeps its catalogue.
Refresh(p) ==
    /\ pc = "building" /\ p \in left /\ left' = left \ {p}
    /\ \/ UNCHANGED <<building, fetched>>
       \/ /\ ~cancelled
          /\ \E list \in IF p = "chatgpt" THEN FetchChatGPT ELSE FetchCompatible(p) :
                /\ building' = [building EXCEPT ![p] = list]
                /\ fetched' = [fetched EXCEPT !.built = @ \cup {p}]
    /\ UNCHANGED <<store, pc, job, cancelled, live, remote, builds, edits>>

Cancel ==
    /\ pc = "building" /\ ~cancelled /\ left # {} /\ cancelled' = TRUE
    /\ UNCHANGED <<store, pc, job, building, left, fetched, live, remote, builds, edits>>

\* Open: the aliases, then the default model, must resolve.
Starts ==
    LET installed == Installed(file.aliases) IN
    /\ ~cancelled /\ ValidAliases(installed, building)
    /\ \/ file.model = Empty
       \/ Resolve(building, file.model) # {}
       \/ Len(file.model) = 1 /\ file.model[1] \in DOMAIN installed

Open ==
    /\ pc = "building" /\ left = {} /\ job = <<"start">>
    /\ IF Starts
       THEN /\ pc' = "chat" /\ registry' = building /\ models' = building
            /\ aliases' = Installed(file.aliases)
            /\ config' = file.aliases /\ prompt' = file.aliases /\ chat' = file.aliases
            /\ fetched' = [fetched EXCEPT !.live = fetched.built]
       ELSE pc' = "down" /\ UNCHANGED <<live, fetched>>
    /\ job' = << >> /\ building' = NoProviders
    /\ UNCHANGED <<store, left, cancelled, remote, builds, edits>>

\* Replace: the aliases must resolve among the new providers.
Replaces == ~cancelled /\ ValidAliases(aliases, building)

\* The chat then lists the models again, from where it is connected; that may
\* fail.
Remote == [remote |-> {Model(<<"a">>, 1, <<"hi">>)}]
Listed == IF remote THEN Remote ELSE registry
Reload ==
    /\ pc = "building" /\ left = {} /\ job = <<"reload">>
    /\ IF Replaces
       THEN /\ registry' = building
            /\ models' \in {models, IF remote THEN Remote ELSE building}
            /\ fetched' = [fetched EXCEPT !.live = fetched.built]
       ELSE UNCHANGED <<registry, models, fetched>>
    /\ pc' = "chat" /\ job' = << >> /\ building' = NoProviders
    /\ UNCHANGED <<store, left, cancelled, aliases, config, prompt, chat, remote, builds, edits>>

\* /connect: the chat reads another server's models from now on.
Connect ==
    /\ pc = "chat" /\ ~remote /\ remote' = TRUE /\ models' = Remote
    /\ UNCHANGED <<store, pc, job, building, left, cancelled, fetched, registry, aliases, config, prompt, chat, builds, edits>>

\* decodeCanonicalModel: the chat's own resolution, over the models it lists.
DecodeCanonicalModel(value, items) ==
    LET bases == {[provider |-> p, id |-> m.id, variant |-> ""] : p \in DOMAIN items, m \in UNION {items[q] : q \in DOMAIN items}}
        known == {b \in bases : Of(items[b.provider], b.id) # {}}
        exact == {b \in known : value = <<b.provider>> \o b.id}
        suffix == {[b EXCEPT !.variant = value[Len(value)]] :
                     b \in {b \in known : /\ Suffix(value) = <<b.provider>> \o b.id
                                          /\ HasVariant(One(Of(items[b.provider], b.id)), value[Len(value)])}}
    IN IF exact # {} THEN exact ELSE IF Cardinality(suffix) = 1 THEN suffix ELSE {}

\* /model-alias NAME SELECTOR: the selector must be one of the listed models.
Choose(name, target) ==
    /\ pc = "chat" /\ edits < MaxEdits /\ edits' = edits + 1
    /\ models' = Listed
    /\ IF DecodeCanonicalModel(target, Listed) # {}
       THEN pc' = "install" /\ job' = <<name, target>>
       ELSE UNCHANGED <<pc, job>>
    /\ UNCHANGED <<store, building, left, cancelled, fetched, registry, aliases, config, prompt, chat, remote, builds>>

With(targets) == [targets EXCEPT ![job[1]] = job[2]]

\* ConfigureModelAlias: the registry first, then the file, whose failure takes
\* the registry back.
Install ==
    /\ pc = "install"
    /\ LET next == Installed(With(config)) IN
       IF ValidAliases(next, registry)
       THEN aliases' = next /\ pc' = "persist" /\ UNCHANGED job
       ELSE pc' = "chat" /\ job' = << >> /\ UNCHANGED aliases
    /\ UNCHANGED <<store, building, left, cancelled, fetched, registry, config, prompt, chat, models, remote, builds, edits>>

Restored == IF ValidAliases(Installed(config), registry) THEN Installed(config) ELSE aliases

Persist ==
    /\ pc = "persist" /\ pc' = "chat" /\ job' = << >>
    /\ \/ /\ file' = [file EXCEPT !.aliases = With(@)]
          /\ config' = With(config) /\ prompt' = With(config) /\ chat' = With(chat)
          /\ UNCHANGED aliases
       \/ aliases' = Restored /\ UNCHANGED <<file, config, prompt, chat>>
    /\ UNCHANGED <<vendor, stored, environ, building, left, cancelled, fetched, registry, models, remote, builds, edits>>

Exit ==
    /\ pc = "chat" /\ pc' = "down"
    /\ registry' = NoProviders /\ aliases' = << >> /\ models' = NoProviders
    /\ config' = << >> /\ prompt' = << >> /\ chat' = << >> /\ remote' = FALSE
    /\ fetched' = [fetched EXCEPT !.live = {}]
    /\ UNCHANGED <<store, job, building, left, cancelled, builds, edits>>

Next ==
    \/ Start \/ Cancel \/ Open \/ Reload \/ Connect \/ Install \/ Persist \/ Exit
    \/ \E p \in {"chatgpt", "own", vendor} : Login(p) \/ Logout(p) \/ Refresh(p)
    \/ \E n \in Aliases, t \in Targets : Choose(n, t)

Spec == Init /\ [][Next]_vars

-----------------------------------------------------------------------------
TypeOK ==
    /\ pc \in {"down", "building", "chat", "install", "persist"}
    /\ DOMAIN building \subseteq {"chatgpt", "own"} \cup OptionalIDs /\ left \subseteq DOMAIN building
    /\ DOMAIN file.aliases = Aliases /\ DOMAIN aliases \subseteq Aliases
    /\ remote \in BOOLEAN /\ cancelled \in BOOLEAN /\ builds \in 0..MaxBuilds /\ edits \in 0..MaxEdits

Running == registry # NoProviders

\* An alias never stops resolving while the program runs, not between the steps
\* of a change either, and names a model whatever was reloaded.
AliasesResolve ==
    \A n \in DOMAIN aliases : ResolveModel(<<n>>) # {}

\* Outside a change, the registry, the configuration, its file, the prompt and
\* the chat agree about the aliases, whichever step of a change failed.
AliasesAgree ==
    Running /\ pc \in {"chat", "building"} =>
        /\ aliases = Installed(config)
        /\ config = file.aliases /\ prompt = config /\ chat = config

\* What the user declared is there with its own description; what only a preset
\* describes is there only until a list was fetched; ids are unique.
CatalogTrue ==
    \A p \in DOMAIN registry :
        /\ \A d \in Declared(p) : Of(registry[p], d.id) = {d}
        /\ \A m \in registry[p] : Of(registry[p], m.id) = {m}
        /\ p \notin fetched.live => registry[p] = IF p = "chatgpt" THEN Bundled ELSE Offline(p)
        /\ p \in fetched.live => \A m \in registry[p] :
              m \in Declared(p) \/ \E w \in Served : \E i \in DOMAIN w : w[i].id = m.id
        /\ p = "chatgpt" => \A m \in registry[p] : m.window > 0

\* The chat reads a selector as the registry does, when it lists the same
\* models.
SameReading ==
    models = registry =>
        \A t \in Targets : DecodeCanonicalModel(t, models) = Resolve(registry, t)

\* The catalogue as a whole.
CatalogHolds == AliasesResolve /\ AliasesAgree /\ CatalogTrue /\ SameReading
=============================================================================
