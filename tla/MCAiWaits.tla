------------------------------ MODULE MCAiWaits ------------------------------
(* AiWaits for TLC. *)
EXTENDS AiWaits, TLC

Symmetry ==
    Permutations(Workers) \cup Permutations(Pollers)
      \cup Permutations(Reconcilers)
=============================================================================
