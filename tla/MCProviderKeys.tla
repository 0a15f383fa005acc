---------------------------- MODULE MCProviderKeys ----------------------------
(* ProviderKeys for TLC.                                                     *)
EXTENDS ProviderKeys, TLC

Symmetry == Permutations(Jobs) \cup Permutations(Callers)
=============================================================================
