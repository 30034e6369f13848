------------------------------ MODULE KeyInput ------------------------------
(***************************************************************************)
(* Keys from bytes.  What the user presses arrives as a stream of bytes, in *)
(* pieces, with pauses that end a read, and reads that are given up while a  *)
(* dialog changes hands.                                                    *)
(***************************************************************************)
EXTENDS Naturals, Sequences, SequencesExt

CONSTANTS
    Pressed,    \* what is pressed, see Bytes
    MaxPressed, \* bound on how often
    MaxPaste    \* maxPaste

VARIABLES
    script,     \* what is pressed
    read,       \* bytes that were read
    part,       \* bytes of the key that is being read
    keys,       \* keys so far
    torn        \* a pause, a hurry or a given-up read has torn one apart

vars == <<script, read, part, keys, torn>>

End == <<"esc", "[", "2", "0", "1", "~">>
Paste(content) == <<"esc", "[", "2", "0", "0", "~">> \o content \o End
Content(press) == CASE press = "paste" -> <<"x", "cr">>
                    [] press = "control" -> <<"esc">>
                    [] press = "large" -> <<"x", "esc", "[", "2", "x">>

\* "modified" is an arrow with a modifier.
Bytes(press) ==
    CASE press = "rune" -> <<"x">>
      [] press = "wide" -> <<"lead", "more">>
      [] press = "malformed" -> <<"lead", "x">>
      [] press = "enter" -> <<"cr">>
      [] press = "escape" -> <<"esc">>
      [] press = "up" -> <<"esc", "[", "A">>
      [] press = "delete" -> <<"esc", "[", "3", "~">>
      [] press = "page" -> <<"esc", "[", "5", "~">>
      [] press = "alt" -> <<"esc", "x">>
      [] press = "function" -> <<"esc", "O", "x">>
      [] press = "modified" -> <<"esc", "[", "1", ";", "5", "A">>
      [] OTHER -> Paste(Content(press))

\* Keys that are not bound, and malformed or unfit input, are ignored.
Meaning(press) ==
    CASE press \in {"malformed", "page", "alt", "function", "modified", "control"} -> << >>
      [] press = "large" -> <<"reference">>
      [] OTHER -> <<press>>

Stream == FlattenSeq([i \in DOMAIN script |-> Bytes(script[i])])
Ends(i) == Len(FlattenSeq([j \in 1..i |-> Bytes(script[j])]))
Between == read \in {Ends(i) : i \in 0..Len(script)}

Init ==
    /\ script \in UNION {[1..n -> Pressed] : n \in 0..MaxPressed}
    /\ read = 0 /\ part = << >> /\ keys = << >> /\ torn = FALSE

-----------------------------------------------------------------------------
(* The decoder.  The bytes of a key decide when it is complete, and what it  *)
(* is: Incomplete, or at most one key.                                      *)

Incomplete == <<"incomplete">>
Ignored == << >>

\* readOversizedPaste: the rest is read up to the end marker and stored, and a
\* reference is pasted in its place.
Stored == <<"reference">>

\* readPaste: all bytes up to the end marker
Pasted(data) ==
    IF ~IsSuffix(End, data) THEN Incomplete
    ELSE LET content == SubSeq(data, 1, Len(data) - Len(End)) IN
         IF Len(content) > MaxPaste THEN Stored
         ELSE IF "esc" \in Range(content) THEN Ignored ELSE <<"paste">>

\* An unknown sequence goes on to its final byte.
Unknown_Short(bytes) == Ignored
Unknown(bytes) == IF Last(bytes) \in {"A", "x", "~"} THEN Ignored ELSE Incomplete

Numbered(bytes) ==
    LET n == Len(bytes) IN
    IF n = 3 THEN Incomplete
    ELSE IF bytes[4] = "~" THEN CASE bytes[3] = "3" -> <<"delete">>
                                  [] bytes[3] = "1" -> <<"home">>
                                  [] bytes[3] = "4" -> <<"end">>
                                  [] OTHER -> Ignored
    ELSE IF bytes[3] # "2" \/ bytes[4] # "0" THEN Ignored
    ELSE IF n = 4 THEN Incomplete
    ELSE IF bytes[5] # "0" THEN Ignored
    ELSE IF n = 5 THEN Incomplete
    ELSE IF bytes[6] # "~" THEN Ignored ELSE Pasted(SubSeq(bytes, 7, n))

\* readEscape
Sequence(bytes) ==
    IF Len(bytes) = 1 THEN Incomplete
    ELSE IF bytes[2] = "O" THEN IF Len(bytes) = 2 THEN Incomplete ELSE Ignored
    ELSE IF bytes[2] # "[" THEN Ignored
    ELSE IF Len(bytes) = 2 THEN Incomplete
    ELSE IF bytes[3] = "A" THEN <<"up">>
    ELSE IF bytes[3] \in {"1", "2", "3", "4"} THEN Numbered(bytes) ELSE Unknown(bytes)

\* ReadKey
Key(bytes) ==
    CASE bytes[1] = "esc" -> Sequence(bytes)
      [] bytes[1] = "lead" -> IF Len(bytes) = 1 THEN Incomplete
                              ELSE IF bytes[2] = "more" THEN <<"wide">> ELSE Ignored
      [] bytes[1] = "cr" -> <<"enter">>
      [] bytes[1] = "x" -> <<"rune">>
      [] OTHER -> <<bytes[1]>>

-----------------------------------------------------------------------------
(* Steps, until a key is torn.  Bytes may be late at every point.          *)

Took(bytes, key) ==
    IF key = Incomplete THEN part' = bytes /\ UNCHANGED keys
    ELSE part' = << >> /\ keys' = keys \o key

\* The byte behind a lone escape makes it a part of something else.
ReadByte ==
    /\ read < Len(Stream) /\ read' = read + 1
    /\ LET bytes == Append(part, Stream[read + 1]) IN Took(bytes, Key(bytes))
    /\ torn' = (torn \/ (part # << >> /\ Between)) /\ UNCHANGED script

\* readByteOnce: nothing has arrived for a while.  That makes an escape of what
\* may be the start of a sequence, and ends ESC O; other reads go on.
Pause ==
    /\ \/ part = <<"esc">> /\ Took(part, <<"escape">>)
       \/ part = <<"esc", "O">> /\ Took(part, Ignored)
    /\ torn' = (torn \/ ~Between) /\ UNCHANGED <<script, read>>

\* The context of a read is cancelled, and with it what it has read.
GiveUp ==
    /\ part # << >> /\ part' = << >> /\ torn' = TRUE
    /\ UNCHANGED <<script, read, keys>>

\* What follows a torn key may be anything.
Next == ~torn /\ (ReadByte \/ Pause \/ GiveUp)

Spec == Init /\ [][Next]_vars

-----------------------------------------------------------------------------
TypeOK == read \in 0..Len(Stream) /\ (part = << >> \/ Key(part) = Incomplete)

\* What was read whole.
Expected == LET whole == {i \in 0..Len(script) : Ends(i) <= read}
                n == CHOOSE i \in whole : \A j \in whole : j <= i
            IN FlattenSeq([i \in 1..n |-> Meaning(script[i])])

\* Unless it is torn, a key is what was pressed, however its bytes arrive, and none
\* of them is taken for another (KeyDecoder.ReadKey).
KeysAreWhole ==
    TypeOK /\ (torn \/ keys = Expected \/ (part = <<"esc">> /\ keys = Front(Expected)))
=============================================================================
