---------------------------- MODULE MCAgentTurn ----------------------------
(***************************************************************************)
(* Symmetry for AgentTurn: turn slots, the callers that create no child,   *)
(* and the messages callers choose are alike.                              *)
(***************************************************************************)
EXTENDS AgentTurn, TLC

SlotSymmetry ==
    Permutations(Turns) \cup Permutations(Callers \ Creators)
        \cup Permutations(Messages \ {Prompt})
=============================================================================
