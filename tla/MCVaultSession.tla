---------------------------- MODULE MCVaultSession ----------------------------
(* VaultSession for TLC.                                                     *)
EXTENDS VaultSession, TLC

Symmetry == Permutations(Tokens) \cup Permutations(Fetchers) \cup Permutations(Values)
=============================================================================
