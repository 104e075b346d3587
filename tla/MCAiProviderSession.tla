------------------------ MODULE MCAiProviderSession ------------------------
(* Small instances of AiProviderSession. *)
EXTENDS AiProviderSession, TLC

Symmetry == Permutations(Workers) \cup Permutations(Cleaners)
=============================================================================
