------------------------------- MODULE Inbox --------------------------------
(***************************************************************************)
(* What a session promises about the prompts it admits: every one waits    *)
(* until it is taken, they are taken in the order of admission, and none   *)
(* is taken twice.  Admitting a known prompt again changes nothing.        *)
(***************************************************************************)
EXTENDS Integers, Sequences, SequencesExt

CONSTANT Prompts

VARIABLES waiting,  \* admitted prompts nobody has taken, in order
          taken     \* prompts the model has been given, in order

TypeOK == waiting \in Seq(Prompts) /\ taken \in Seq(Prompts)

Init == waiting = << >> /\ taken = << >>

Admit(m) ==
    /\ ~Contains(waiting, m) /\ ~Contains(taken, m)
    /\ waiting' = Append(waiting, m)
    /\ UNCHANGED taken

Take(n) ==
    /\ taken' = taken \o SubSeq(waiting, 1, n)
    /\ waiting' = SubSeq(waiting, n + 1, Len(waiting))

Next ==
    \/ \E m \in Prompts : Admit(m)
    \/ \E n \in 1..Len(waiting) : Take(n)

Spec == Init /\ [][Next]_<<waiting, taken>>
=============================================================================
