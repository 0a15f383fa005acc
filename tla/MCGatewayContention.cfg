CONSTANTS
  m1 = m1
  m2 = m2
  m3 = m3
  p1 = p1
  p2 = p2
  p3 = p3
  strict = strict
  picky = picky
  easy = easy
  Requests = {r1, r2, r3}
  Apps = {picky, easy}
  Models = {m1, m2, m3, m4}
  Asked = {m1}
  Providers = {p1, p2, p3}
  Limits = {1, 2}
  Verdicts = {"allowed"}
  Faults = {"timeout"}
  Table <- MCTable
  Order <- MCOrder
  PolicyOf <- MCPolicyOf
SPECIFICATION Spec
SYMMETRY Symmetry
VIEW Contention
INVARIANTS
  SlotHeldWhileAdmitted
  HandlersWithinCeilings
PROPERTY SlotsSpec
\* Each request is handled once; when all are answered nothing is left to do.
CHECK_DEADLOCK FALSE
