CONSTANTS
  metered = metered
  free = free
  Apps = {metered, free}
  Replicas = {p1, p2}
  Skews = {0, 1}
  Window = 2
  Grace = 2
  MaxTime = 4
  Requests = {r1, r2, r3}
  Tokens = 2
  SlotCeiling = 1
  Budget <- MCBudget
  Ceiling <- MCCeiling
  Costs = {0, 2}
  Patience = 4
  Outages = TRUE
SPECIFICATION Spec
SYMMETRY Symmetry
PROPERTY VerdictsFollowSettledSpend
\* Time is bounded and each request is handled once.
CHECK_DEADLOCK FALSE
