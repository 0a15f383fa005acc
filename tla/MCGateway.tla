------------------------------ MODULE MCGateway ------------------------------
(* Gateway for TLC: small routing tables and one policy of each kind.        *)
EXTENDS Gateway, TLC

CONSTANTS m1, m2, m3, p1, p2, p3, strict, picky, easy

R(m, p) == [model |-> m, provider |-> p]

\* m1 has a second host; m2 and m3 have one, m2 on a provider m1 also uses, so
\* that a plan for m2 names that provider twice in a row.
MCTable == <<R(m1, p1), R(m2, p1), R(m1, p2), R(m3, p3)>>
MCOrder == <<p1, p3>>

MCPolicyOf == [a \in Apps |->
  CASE a = strict -> SameModel
    [] a = picky  -> AllowlistOf(<<m2, m3>>)
    [] a = easy   -> AnyModel]

Symmetry == Permutations(Requests)

\* What a step of the gateway, or of its slots, can still depend on: nothing
\* reads the log, the faults, or how a request ended.
Progress(r) ==
  IF pc[r] = "done" THEN <<caller[r], "done">>
  ELSE <<caller[r], pc[r], trail[r], requested[r], cancelled[r], expired[r]>>

Contention == <<slotVars, [r \in Requests |-> Progress(r)]>>
=============================================================================
