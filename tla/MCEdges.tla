------------------------------ MODULE MCEdges -------------------------------
(***************************************************************************)
(* The edges of the process in one run, each on an instance of its own:    *)
(* MCP servers, tool calls between plan and execution, provider streams    *)
(* and the tool calls in them, credentials, the line client, the output    *)
(* of commands. `which` is chosen at the start and says whose steps are    *)
(* taken; the variables of the others keep their initial values.           *)
(***************************************************************************)
EXTENDS McpServer

CONSTANTS
    NoTarget, Execs, Sends, Waits, Stops, MaxTurns, MaxMoves,  \* see ToolCalls; Execs are
                                        \* its Commands, NoTarget its None
    Callers, MaxIssued,                 \* see Credentials
    Capacity, MaxNotices, MaxAsks       \* see TurnStream

\* A call is of one kind; no caller is the other process, or nobody.
ASSUME EdgesAssumption ==
    /\ NoTarget \notin {"one", "two", "error", "finished", "interrupted"}
    /\ Execs \cap Sends = {} /\ Waits \cap Stops = {}
    /\ MaxTurns \in Nat /\ MaxMoves \in Nat
    /\ "cli" \notin Callers /\ "nobody" \notin Callers /\ MaxIssued \in Nat \ {0}
    /\ Capacity \in Nat /\ MaxNotices \in Nat /\ MaxAsks \in Nat

VARIABLES which, denotes, moves, plan, permission, ran, turn, running, reason, tPc,
          observed, signal, answered, stopped, ctx, phase, why, attempt, timeouts,
          timer, answer, bodies, read, emitted, buffered, queued, remaining, taken,
          ended, delivered, wire, sent, closing, tools, aliases, finish, terminal,
          ending, out, file, stored, issued, accepted, used, lost, fresh, kEnded, kPc,
          value, view, mutex, flight, joined, kResult, command, callback, listening,
          lTurn, pending, serves, lAnswered, outcome, notices, lPermission, asks,
          stream, connected, lPc, before, asked, failed, interrupts, halting, late,
          lResult, kind, text, alive, stubborn, written, pRead, reading, pStored,
          broken, buffer, pTaken, lines, pPending, carriage, call, pStream, since,
          results, waiter, vendor, qStored, environ, qFile, qPc, job, building, left,
          cancelled, fetched, registry, qAliases, config, prompt, chat, models, remote,
          builds, edits

Tool == INSTANCE ToolCalls
    WITH Commands <- Execs, None <- NoTarget, pc <- tPc
Provider == INSTANCE ProviderStream
    WITH StreamRetries <- 1, OverloadRetries <- 1, MaxTimeouts <- 1, MaxEvents <- 3
Parts == INSTANCE ToolAssembly
    WITH Calls <- {1, 2}, MaxParts <- 2
Credential == INSTANCE Credentials
    WITH ended <- kEnded, pc <- kPc, result <- kResult
Line == INSTANCE TurnStream
    WITH turn <- lTurn, answered <- lAnswered, permission <- lPermission, pc <- lPc,
         result <- lResult
Output == INSTANCE ProcessOutput
    WITH MaxBytes <- 4, HeadBudget <- 1, TailBudget <- 1, Budget <- 2, MaxLines <- 1,
         MaxCalls <- 2, read <- pRead, stored <- pStored, taken <- pTaken,
         pending <- pPending, stream <- pStream
Catalog == INSTANCE ModelCatalog
    WITH Aliases <- {"fast", "deep"},
         Targets <- {<< "own", "a" >>, << "opencode", "b", "hi" >>, << "remote", "a" >>},
         Files <- {[aliases |-> [fast |-> << "own", "a" >>, deep |-> << >>], model |-> << "fast" >>], [aliases |-> [fast |-> << "opencode", "b", "hi" >>, deep |-> << "own", "a", "lo" >>], model |-> << >>]},
         MaxBuilds <- 2, MaxEdits <- 1, stored <- qStored, file <- qFile, pc <- qPc,
         aliases <- qAliases

toolsVars == <<denotes, moves, plan, permission, ran, turn, running, reason, tPc,
               observed, signal, answered, stopped>>
streamVars == <<ctx, phase, why, attempt, timeouts, timer, answer, bodies, read,
                emitted, buffered, queued, remaining, taken, ended, delivered>>
partsVars == <<wire, sent, closing, tools, aliases, finish, terminal, ending, out>>
credentialsVars == <<file, stored, issued, accepted, used, lost, fresh, kEnded, kPc,
                     value, view, mutex, flight, joined, kResult, command, callback,
                     listening>>
lineVars == <<lTurn, pending, serves, lAnswered, outcome, notices, lPermission, asks,
              stream, connected, lPc, before, asked, failed, interrupts, halting, late,
              lResult>>
outputVars == <<kind, text, alive, stubborn, written, pRead, reading, pStored, broken,
                buffer, pTaken, lines, pPending, carriage, call, pStream, since,
                results, waiter>>
catalogVars == <<vendor, qStored, environ, qFile, qPc, job, building, left, cancelled,
                 fetched, registry, qAliases, config, prompt, chat, models, remote,
                 builds, edits>>

AllInit ==
    /\ which \in {"mcp", "tools", "stream", "parts", "credentials", "line", "output",
                  "catalog"}
    /\ Init /\ (which # "mcp" => transport = "http")
    /\ Tool!Init /\ (which # "tools" => denotes["path"] = "one" /\ denotes["name"] = "one")
    /\ Provider!Init
    /\ Parts!Init /\ (which # "parts" => wire = "chat")
    /\ Credential!Init
    /\ Line!Init
    /\ Output!Init /\ (which # "output" => /\ kind = "managed" /\ alive = {"shell"} /\ stubborn = {})
    /\ Catalog!Init /\ (which # "catalog" => /\ vendor = "kimi" /\ qStored = {"own"} /\ qFile.model = << "fast" >>)

AllNext ==
    \/ which = "mcp" /\ Next /\ UNCHANGED <<which, toolsVars, streamVars, partsVars,
                                            credentialsVars, lineVars, outputVars,
                                            catalogVars>>
    \/ which = "tools" /\ Tool!Next /\ UNCHANGED <<which, vars, streamVars, partsVars,
                                                   credentialsVars, lineVars,
                                                   outputVars, catalogVars>>
    \/ which = "stream" /\ Provider!Next /\ UNCHANGED <<which, vars, toolsVars,
                                                        partsVars, credentialsVars,
                                                        lineVars, outputVars,
                                                        catalogVars>>
    \/ which = "parts" /\ Parts!Next /\ UNCHANGED <<which, vars, toolsVars, streamVars,
                                                    credentialsVars, lineVars,
                                                    outputVars, catalogVars>>
    \/ which = "credentials" /\ Credential!Next /\ UNCHANGED <<which, vars, toolsVars,
                                                               streamVars, partsVars,
                                                               lineVars, outputVars,
                                                               catalogVars>>
    \/ which = "line" /\ Line!Next /\ UNCHANGED <<which, vars, toolsVars, streamVars,
                                                  partsVars, credentialsVars,
                                                  outputVars, catalogVars>>
    \/ which = "output" /\ Output!Next /\ UNCHANGED <<which, vars, toolsVars,
                                                      streamVars, partsVars,
                                                      credentialsVars, lineVars,
                                                      catalogVars>>
    \/ which = "catalog" /\ Catalog!Next /\ UNCHANGED <<which, vars, toolsVars,
                                                        streamVars, partsVars,
                                                        credentialsVars, lineVars,
                                                        outputVars>>

AllSpec == AllInit /\ [][AllNext]_<<which, vars, toolsVars, streamVars, partsVars,
                                    credentialsVars, lineVars, outputVars,
                                    catalogVars>>

\* PlanHolds of ToolCalls: what was planned is executed, and what was observed
\* is awaited (Executor.Execute, managedChildTurn).
PlanHolds == which = "tools" => Tool!PlanHolds

\* StreamIsWhole of ProviderStream: a stream is that of one whole attempt
\* (retryStream.Next, startStream).
StreamIsWhole == which = "stream" => Provider!StreamIsWhole

\* CallsAreWhole of ToolAssembly: tool calls are complete, once, before the
\* response finishes (Parser.finalize, Parser.finalizeTools).
CallsAreWhole == which = "parts" => Parts!CallsAreWhole

\* CredentialsKept of Credentials: credentials are refreshed once and handed
\* out when they are stored (TokenSource.Token).
CredentialsKept == which = "credentials" => Credential!CredentialsKept

\* PromptIsAnswered of TurnStream: a client that was not interrupted prints
\* the answer to its own prompt (streamTurn).
PromptIsAnswered == which = "line" => Line!PromptIsAnswered

\* OutputAccounted of ProcessOutput: what a command writes is streamed,
\* chunked, stored and shown once (persistentOutputWriter, headTailBuffer,
\* lineTail).
OutputAccounted == which = "output" => Output!OutputAccounted

\* CatalogHolds of ModelCatalog: aliases resolve and agree wherever they are
\* kept, and the catalogue says what was declared and served, whichever step
\* failed (ConfigureModelAlias, ReloadProviders, mergeModels).
CatalogHolds == which = "catalog" => Catalog!CatalogHolds
=============================================================================
