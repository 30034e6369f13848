------------------------------ MODULE LineEditor ------------------------------
(***************************************************************************)
(* The editor of the prompt: a draft with a cursor, the history it is left   *)
(* for and returned to, and the menu of slash commands.  A dialog edits its  *)
(* answer in a session of its own, with the history of the same editor,      *)
(* while the draft waits.                                                    *)
(***************************************************************************)
EXTENDS Naturals, Sequences, SequencesExt, FiniteSets

CONSTANTS
    Runes,        \* typed one by one: "/", "\n", "a"
    Past,         \* the history to start with
    Completions,  \* slash commands, sorted
    MaxRunes,     \* maxInputRunes
    MaxHistory,   \* maxHistory
    MaxSubmits    \* bound on submissions

VARIABLES
    history,      \* of the editor, oldest first
    buffer, cursor, historyIndex, historyDraft, selected, menuClosed, tabMatches, tabIndex,
    submits,
    draft,        \* what the user typed last
    stale         \* the history has grown while the draft was open

state == <<buffer, cursor, historyIndex, historyDraft, selected, menuClosed, tabMatches, tabIndex>>
vars == <<history, state, submits, draft, stale>>

Fresh(text) ==
    /\ buffer' = text /\ cursor' = Len(text) /\ historyIndex' = Len(history') /\ historyDraft' = << >>
    /\ selected' = 0 /\ menuClosed' = FALSE /\ tabMatches' = << >> /\ tabIndex' = 0
    /\ draft' = text /\ stale' = FALSE

Init ==
    /\ history = Past /\ buffer = << >> /\ cursor = 0 /\ historyIndex = Len(Past) /\ historyDraft = << >>
    /\ selected = 0 /\ menuClosed = FALSE /\ tabMatches = << >> /\ tabIndex = 0
    /\ submits = 0 /\ draft = << >> /\ stale = FALSE

-----------------------------------------------------------------------------
\* AddHistory
Remembered(value) ==
    IF value = << >> \/ (history # << >> /\ Last(history) = value) THEN history
    ELSE LET all == Append(history, value) IN
         IF Len(all) > MaxHistory THEN Tail(all) ELSE all

\* completionMatches: the exact one comes first
Matches(input) ==
    IF input = << >> \/ Head(input) # "/" \/ "\n" \in Range(input) THEN << >>
    ELSE SelectSeq(Completions, LAMBDA c : c = input)
         \o SelectSeq(Completions, LAMBDA c : c # input /\ IsPrefix(input, c))
Visible == IF menuClosed THEN << >> ELSE IF tabMatches # << >> THEN tabMatches ELSE Matches(buffer)

\* What is drawn after each key (PromptState)
Selected(visible) == IF selected < Len(visible) THEN selected ELSE IF visible = << >> THEN 0 ELSE Len(visible) - 1

\* hasCommandArguments
Arguments(input) ==
    \E i \in DOMAIN Completions :
        LET c == Completions[i] IN
        /\ IsPrefix(c, input) /\ Len(input) > Len(c) /\ input[Len(c) + 1] \in {" ", "\n"}
        /\ \E j \in (Len(c) + 1)..Len(input) : input[j] \notin {" ", "\n"}

LineStart == LET before == {i \in 1..cursor : buffer[i] = "\n"} IN
             IF before = {} THEN 0 ELSE CHOOSE i \in before : \A j \in before : j <= i
LineEnd == LET behind == {i \in (cursor + 1)..Len(buffer) : buffer[i] = "\n"} IN
           IF behind = {} THEN Len(buffer) ELSE (CHOOSE i \in behind : \A j \in behind : j >= i) - 1

Cut(from, to) == SubSeq(buffer, 1, from) \o SubSeq(buffer, to + 1, Len(buffer))

-----------------------------------------------------------------------------
(* Keys.                                                                   *)

Quiet == UNCHANGED <<history, submits, stale>>

\* An edit leaves the history and the menu.
Edited(text, at) ==
    /\ buffer' = text /\ cursor' = at /\ draft' = text
    /\ historyIndex' = Len(history) /\ menuClosed' = FALSE /\ tabMatches' = << >> /\ selected' = 0
    /\ stale' = FALSE
    /\ UNCHANGED <<history, historyDraft, tabIndex, submits>>

\* Runes and newlines; a paste is one insertion of several.  An insertion that
\* is too long ends the session with an error, and the draft is reset.
Insert ==
    \E runes \in {<<r>> : r \in Runes} \cup {<<"a", "a">>} :
        /\ Len(buffer) + Len(runes) <= MaxRunes
        /\ Edited(SubSeq(buffer, 1, cursor) \o runes \o SubSeq(buffer, cursor + 1, Len(buffer)), cursor + Len(runes))

Reset == UNCHANGED <<history, submits>> /\ Fresh(<< >>)
TooLong == Len(buffer) + 2 > MaxRunes /\ Reset

Move ==
    /\ cursor' \in {IF cursor > 0 THEN cursor - 1 ELSE 0, IF cursor < Len(buffer) THEN cursor + 1 ELSE cursor,
                    LineStart, LineEnd}
    /\ Quiet /\ UNCHANGED <<buffer, historyIndex, historyDraft, selected, menuClosed, tabMatches, tabIndex, draft>>

Backspace == cursor > 0 /\ Edited(Cut(cursor - 1, cursor), cursor - 1)
\* Also what ^D does while there is a draft.
Delete == cursor < Len(buffer) /\ Edited(Cut(cursor, cursor + 1), cursor)
KillLine ==
    LET end == IF LineEnd = cursor /\ LineEnd < Len(buffer) THEN LineEnd + 1 ELSE LineEnd IN
    cursor < end /\ Edited(Cut(cursor, end), cursor)

\* Up and down move in the menu while there is one.
Menu ==
    /\ Visible # << >>
    /\ LET n == Len(Visible)  s == Selected(Visible) IN selected' \in {(s + n - 1) % n, (s + 1) % n}
    /\ Quiet /\ UNCHANGED <<buffer, cursor, historyIndex, historyDraft, menuClosed, tabMatches, tabIndex, draft>>

Recall(index, text) ==
    /\ historyIndex' = index /\ buffer' = text /\ cursor' = Len(text) /\ selected' = Selected(Visible)
    /\ Quiet /\ UNCHANGED <<menuClosed, tabMatches, tabIndex, draft>>

Up_Forgets ==
    /\ Visible = << >> /\ historyIndex > 0
    /\ historyDraft' = buffer
    /\ Recall(historyIndex - 1, history[historyIndex])
Up ==
    /\ Visible = << >> /\ historyIndex > 0
    /\ historyDraft' = IF historyIndex = Len(history) THEN buffer ELSE historyDraft
    /\ Recall(historyIndex - 1, history[historyIndex])

Down ==
    /\ Visible = << >> /\ historyIndex < Len(history) /\ UNCHANGED historyDraft
    /\ Recall(historyIndex + 1,
              IF historyIndex + 1 = Len(history) THEN historyDraft ELSE history[historyIndex + 2])

Tab ==
    LET again == tabMatches # << >>
        found == IF again THEN tabMatches ELSE Matches(buffer)
        index == IF again THEN (tabIndex + 1) % Len(found) ELSE Selected(Visible)
        at == IF index < Len(found) THEN index ELSE 0
    IN /\ Quiet /\ UNCHANGED <<historyIndex, historyDraft>> /\ tabMatches' = found /\ tabIndex' = index
       /\ IF found = << >> THEN UNCHANGED <<buffer, cursor, selected, menuClosed, draft>>
          ELSE /\ selected' = at /\ buffer' = found[at + 1] /\ cursor' = Len(found[at + 1])
               /\ menuClosed' = FALSE
               /\ draft' = IF historyIndex = Len(history) THEN buffer' ELSE draft

\* Escape closes the menu, or gives the draft up.
Escape ==
    IF Visible # << >>
    THEN menuClosed' = TRUE /\ tabMatches' = << >> /\ Quiet
         /\ UNCHANGED <<buffer, cursor, historyIndex, historyDraft, selected, tabIndex, draft>>
    ELSE Reset

\* Enter completes a command that is not complete, or submits.
Completes == Visible # << >> /\ buffer # Visible[Selected(Visible) + 1] /\ ~Arguments(buffer)
Complete ==
    /\ Completes
    /\ buffer' = Append(Visible[Selected(Visible) + 1], " ") /\ cursor' = Len(buffer')
    /\ selected' = Selected(Visible) /\ menuClosed' = TRUE /\ tabMatches' = << >>
    /\ draft' = IF historyIndex = Len(history) THEN buffer' ELSE draft
    /\ Quiet /\ UNCHANGED <<historyIndex, historyDraft, tabIndex>>

\* A submission that fails stays in the editor.
Submit ==
    /\ ~Completes /\ submits < MaxSubmits /\ submits' = submits + 1
    /\ history' = Remembered(buffer)
    /\ \/ Fresh(<< >>)
       \/ draft' = buffer /\ stale' = (stale \/ historyIndex # Len(history'))
          /\ selected' = Selected(Visible)
          /\ UNCHANGED <<buffer, cursor, historyIndex, historyDraft, menuClosed, tabMatches, tabIndex>>

\* The answer of a dialog.
Answer ==
    /\ submits < MaxSubmits /\ submits' = submits + 1
    /\ history' = Remembered(<<"a">>)
    /\ stale' = (stale \/ Len(history') # Len(history)) /\ UNCHANGED <<state, draft>>

Next ==
    \/ Insert \/ TooLong \/ Move \/ Backspace \/ Delete \/ KillLine
    \/ Menu \/ Up \/ Down \/ Tab \/ Escape \/ Complete \/ Submit \/ Answer

Spec == Init /\ [][Next]_vars

-----------------------------------------------------------------------------
TypeOK ==
    /\ cursor \in 0..Len(buffer) /\ historyIndex \in 0..Len(history) /\ Len(history) <= MaxHistory
    /\ \A i \in 1..(Len(history) - 1) : history[i] # history[i + 1]
    /\ tabMatches # << >> => tabIndex < Len(tabMatches)

\* Behind the history is the draft that was left for it.  (A failed submission or
\* the answer of a dialog adds to the history, and the draft is not at its end any
\* more.)
DraftWaits ==
    ~stale => IF historyIndex = Len(history) THEN buffer = draft ELSE historyDraft = draft

\* What was typed and not submitted comes back from the history, whatever the menu
\* does, and every position stays within what it points into (EditorState.Handle).
DraftIsKept == TypeOK /\ DraftWaits
=============================================================================
