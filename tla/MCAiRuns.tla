------------------------------ MODULE MCAiRuns ------------------------------
(* Small instances of AiRuns. *)
EXTENDS AiRuns, TLC

Symmetry == Permutations(Workers)
=============================================================================
