---------------------------- MODULE MCTokenLimiter ----------------------------
(* TokenLimiter for TLC: one metered app and one that is not.                *)
EXTENDS TokenLimiter, TLC

CONSTANTS metered, free, Tokens, SlotCeiling

MCBudget  == [a \in Apps |-> IF a = metered THEN Tokens ELSE 0]
MCCeiling == [a \in Apps |-> IF a = metered THEN SlotCeiling ELSE 0]

\* What the theorem asks: the clocks are no further apart than the grace.
ASSUME MCAssumption == Fits(0)

Symmetry == Permutations(Requests) \cup Permutations(Replicas)
=============================================================================
