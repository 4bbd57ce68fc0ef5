---------------------------- MODULE MCCodexOutput ----------------------------
(* CodexOutput for TLC: texts are alike.                                       *)
EXTENDS CodexOutput, TLC

Symmetry == Permutations(Word)
=============================================================================
