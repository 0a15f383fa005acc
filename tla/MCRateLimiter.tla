---------------------------- MODULE MCRateLimiter ----------------------------
(* RateLimiter for TLC: one metered app and one that is not.                 *)
EXTENDS RateLimiter, TLC

CONSTANTS metered, free, Quota

MCLimit == [a \in Apps |-> IF a = metered THEN Quota ELSE 0]

\* What the theorems ask: the clocks are no further apart than the grace, and
\* Lives is enough for the patience.
ASSUME MCAssumption == Fits(0) /\ WithinLives

Symmetry == Permutations(Requests) \cup Permutations(Replicas)
=============================================================================
