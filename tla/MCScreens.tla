----------------------------- MODULE MCScreens ------------------------------
(***************************************************************************)
(* What the user sees and sets, each on an instance of its own: the tree   *)
(* of activities, the transcript of a turn, the live region of the         *)
(* terminal, what is entered, the line editor and its keys, the selection  *)
(* of mode and model, and the configuration in its files. `which` is       *)
(* chosen at the start and says whose steps are taken; the variables of    *)
(* the others keep their initial values.                                   *)
(***************************************************************************)
EXTENDS ActivityTree

VARIABLES which, at, emitted, parts, repository, durable, live, active, adopted,
          deferred, wire, stream, streamed, summarized, toolInput, idle, known, xRows,
          tools, outputs, completed, over, transcript, late, width, resizes, failures,
          screen, cursor, columns, yRows, place, rendered, yStream, committed, gap,
          block, closed, message, units, reports, shown, finals, broken, task, turn,
          zTurns, inbox, log, zLive, attempt, ended, here, entered, busy, idleSeen,
          presses, zStream, after, pending, zShown, calling, serves, buffer,
          tombstones, zRows, reported, zFailures, history, eBuffer, eCursor,
          historyIndex, historyDraft, selected, menuClosed, tabMatches, tabIndex,
          submits, draft, stale, script, read, part, keys, torn, plain, catalog,
          sessions, file, running, api, claims, current, sel, models, info, todo, said,
          drift, hStale, sent, commands, others, gFile, backup, project, pc, job, copy,
          promised, met, cut, loaded, updates, loads

\* Documents of the configuration, from the layers of YAML files.
MCNode(k, v, members) == [kind |-> k, value |-> v, of |-> members]
MCLeaf(v) == MCNode("leaf", v, << >>)
MCObject(fields) == MCNode("object", "", fields)
MCList(items) == MCNode("list", "", items)
MCAlias(alias) == MCObject([fast |-> alias])

MCDefaults ==
    MCObject([model |-> MCLeaf(""), rules |-> MCList(<< >>),
              aliases |-> MCAlias(MCObject([model |-> MCLeaf(""), usage |-> MCLeaf("u")]))])
MCGlobal ==
    MCObject([web |-> MCLeaf("off"), model |-> MCLeaf("m"), variant |-> MCLeaf("hi"),
              rules |-> MCList(<<MCLeaf("r")>>)])

\* Nothing; an alias taken away and given again; a field that is the user's
\* only; the usage changed, then the alias taken away.
MCProjects ==
    {<< >>,
     <<MCObject([model |-> MCLeaf("n"), aliases |-> MCLeaf("null")]),
       MCObject([aliases |-> MCAlias(MCObject([model |-> MCLeaf("n"), usage |-> MCLeaf("v")]))])>>,
     <<MCObject([rules |-> MCList(<< >>)])>>,
     <<MCObject([aliases |-> MCAlias(MCObject([usage |-> MCLeaf("v")]))]),
       MCObject([aliases |-> MCAlias(MCLeaf("null"))])>>}

MCUpdate(op, path, v) == [op |-> op, path |-> path, value |-> MCLeaf(v)]
MCOperations ==
    {MCUpdate("model", <<"model">>, "m"), MCUpdate("model", <<"model">>, "m/hi"),
     MCUpdate("alias", <<"aliases", "fast">>, "n"),
     MCUpdate("set", <<"aliases", "fast", "usage">>, "w"), MCUpdate("set", <<"aliases">>, "x"),
     MCUpdate("delete", <<"aliases", "fast">>, "null"),
     MCUpdate("append", <<"rules">>, "q"), MCUpdate("remove", <<"rules">>, "r")}

Transcript == INSTANCE ChatTranscript
    WITH Messages <- 2, MaxDeltas <- << 2, 1 >>, rows <- xRows
Render == INSTANCE LiveRender
    WITH Script <- << << "fence", "code", "fence" >>, << "wide" >> >>,
         Extras <- << "user", "error" >>, MaxRows <- 2, MaxResizes <- 1,
         MaxFailures <- 1, rows <- yRows, stream <- yStream
Input == INSTANCE ChatInput
    WITH Tasks <- {[prompts |-> 2, notices |-> {3}, attempts |-> 0], [prompts |-> 1, notices |-> {}, attempts |-> 2]},
         MaxTurns <- 2, MaxFailures <- 1, turns <- zTurns, live <- zLive,
         stream <- zStream, shown <- zShown, rows <- zRows, failures <- zFailures
Edit == INSTANCE LineEditor
    WITH Runes <- {"/", "\n"},
         Completions <- << << "/", "a" >>, << "/", "a", "a" >> >>,
         Past <- << << "a" >>, << "a", "a" >> >>, MaxRunes <- 2, MaxHistory <- 2,
         MaxSubmits <- 1, buffer <- eBuffer, cursor <- eCursor
Keys == INSTANCE KeyInput
    WITH Pressed <- {"rune", "wide", "malformed", "enter", "escape", "up", "delete", "page", "alt", "function", "paste", "control", "large"},
         MaxPressed <- 3, MaxPaste <- 2
Selection == INSTANCE ChatSelection
    WITH Commands <- {<< << "model", << "m" >> >> >>, << << "model", << "m", "lo" >> >> >>, << << "model", << "n" >> >> >>, << << "model", << "r" >> >> >>, << << "effort", "hi" >> >>, << << "agent", "plan" >> >>, << << "resume", 1 >> >>, << << "new" >> >>, << << "delete", 1 >> >>, << << "connect" >> >>, << << "reload" >> >>, << << "needmodel" >>, << "need" >>, << "send" >> >>, << << "agent", "build" >>, << "model", << "m" >> >>, << "needmodel" >>, << "need" >>, << "send" >> >>},
         Options <- [session : {0, 1}, model : {<< >>, << "m" >>}, agent : {""}],
         MaxCommands <- 3, MaxOthers <- 1, stale <- hStale
Layers == INSTANCE ConfigLayers
    WITH Writers <- {"w1", "w2"}, Operations <- MCOperations, Projects <- MCProjects,
         Globals <- {MCGlobal}, Defaults <- MCDefaults, Encoding <- {"m/hi"},
         MaxUpdates <- 2, MaxLoads <- 1, file <- gFile

transcriptVars == <<at, emitted, parts, repository, durable, live, active, adopted,
                    deferred, wire, stream, streamed, summarized, toolInput, idle,
                    known, xRows, tools, outputs, completed, over, transcript, late>>
renderVars == <<width, resizes, failures, screen, cursor, columns, yRows, place,
                rendered, yStream, committed, gap, block, closed, message, units,
                reports, shown, finals, broken>>
inputVars == <<task, turn, zTurns, inbox, log, zLive, attempt, ended, here, entered,
               busy, idleSeen, presses, zStream, after, pending, zShown, calling,
               serves, buffer, tombstones, zRows, reported, zFailures>>
editorVars == <<history, eBuffer, eCursor, historyIndex, historyDraft, selected,
                menuClosed, tabMatches, tabIndex, submits, draft, stale>>
keysVars == <<script, read, part, keys, torn>>
selectionVars == <<plain, catalog, sessions, file, running, api, claims, current, sel,
                   models, info, todo, said, drift, hStale, sent, commands, others>>
configVars == <<gFile, backup, project, pc, job, copy, promised, met, cut, loaded,
                updates, loads>>

MCAbove == [p |-> Root, c |-> "p", sh |-> "p"]

\* A shell beside a child with three turns; a child that calls tools.
MCLoads ==
    {[talkers |-> {}, shells |-> {"sh"}, turns |-> [p |-> 1, c |-> 3], spent |-> 1],
     [talkers |-> {"c"}, shells |-> {}, turns |-> [p |-> 1, c |-> 2], spent |-> 0]}

AllInit ==
    /\ which \in {"activity", "transcript", "render", "input", "editor", "keys",
                  "selection", "config"}
    /\ Init /\ (which # "activity" => load = CHOOSE l \in Loads : TRUE)
    /\ Transcript!Init
    /\ Render!Init
    /\ Input!Init /\ (which # "input" => task = [prompts |-> 2, notices |-> {3}, attempts |-> 0])
    /\ Edit!Init
    /\ Keys!Init /\ (which # "keys" => script = << >>)
    /\ Selection!Init /\ (which # "selection" => ~plain /\ catalog.local[1].variants = << "hi" >> /\ file = << >>)
    /\ Layers!Init /\ (which # "config" => project = << >> /\ gFile = << MCGlobal >>)

AllNext ==
    \/ which = "activity" /\ Next /\ UNCHANGED <<which, transcriptVars, renderVars,
                                                 inputVars, editorVars, keysVars,
                                                 selectionVars, configVars>>
    \/ which = "transcript" /\ Transcript!Next /\ UNCHANGED <<which, vars, renderVars,
                                                              inputVars, editorVars,
                                                              keysVars, selectionVars,
                                                              configVars>>
    \/ which = "render" /\ Render!Next /\ UNCHANGED <<which, vars, transcriptVars,
                                                      inputVars, editorVars, keysVars,
                                                      selectionVars, configVars>>
    \/ which = "input" /\ Input!Next /\ UNCHANGED <<which, vars, transcriptVars,
                                                    renderVars, editorVars, keysVars,
                                                    selectionVars, configVars>>
    \/ which = "editor" /\ Edit!Next /\ UNCHANGED <<which, vars, transcriptVars,
                                                    renderVars, inputVars, keysVars,
                                                    selectionVars, configVars>>
    \/ which = "keys" /\ Keys!Next /\ UNCHANGED <<which, vars, transcriptVars,
                                                  renderVars, inputVars, editorVars,
                                                  selectionVars, configVars>>
    \/ which = "selection" /\ Selection!Next /\ UNCHANGED <<which, vars,
                                                            transcriptVars, renderVars,
                                                            inputVars, editorVars,
                                                            keysVars, configVars>>
    \/ which = "config" /\ Layers!Next /\ UNCHANGED <<which, vars, transcriptVars,
                                                      renderVars, inputVars,
                                                      editorVars, keysVars,
                                                      selectionVars>>

AllSpec == AllInit /\ [][AllNext]_<<which, vars, transcriptVars, renderVars, inputVars,
                                    editorVars, keysVars, selectionVars, configVars>>

\* TranscriptIsWhole of ChatTranscript: the transcript is in the order of the
\* turn, each part once (handleEvent, commitCompletedAssistants).
TranscriptIsWhole == which = "transcript" => Transcript!TranscriptIsWhole

\* ScreenIsTrue of LiveRender: what the terminal shows is what was committed,
\* whole and once, and the live region below it, through resizes and failed
\* writes (promoteAndRedraw, commitStream).
ScreenIsTrue == which = "render" => Render!ScreenIsTrue

\* InputIsTracked of ChatInput: what was entered is pending or shown, once,
\* and compactions are reported once (promotePending, settleIdle,
\* settleCompaction).
InputIsTracked == which = "input" => Input!InputIsTracked

\* DraftIsKept of LineEditor: what was typed and not submitted comes back from
\* the history, whatever the menu does (EditorState.Handle).
DraftIsKept == which = "editor" => Edit!DraftIsKept

\* KeysAreWhole of KeyInput: a key is what was pressed, however its bytes
\* arrive (KeyDecoder.ReadKey).
KeysAreWhole == which = "keys" => Keys!KeysAreWhole

\* SelectionIsTrue of ChatSelection: mode and model shown are those of the
\* session, and what prompts use (applyModel, command, createSession).
SelectionIsTrue == which = "selection" => Selection!SelectionIsTrue

\* ConfigHolds of ConfigLayers: the merged configuration is what the last
\* layer that decides a field says, and updates stay (mergeObject,
\* UpdateDefaultSelection, UpdateConfigField).
ConfigHolds == which = "config" => Layers!ConfigHolds
=============================================================================
