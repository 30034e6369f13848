-------------------------- MODULE MCChildTurnQuota --------------------------
(***************************************************************************)
(* A small session tree for ChildTurnQuota.                                *)
(***************************************************************************)
EXTENDS ChildTurnQuota, TLC

CONSTANTS root, global, a, b, c

\* Two levels: a and b below the root, c below a.
TallChildren == {a, b, c}
TallParent == (a :> root) @@ (b :> root) @@ (c :> a)
=============================================================================
