CONSTANTS
  metered = metered
  free = free
  Apps = {metered, free}
  Replicas = {p1, p2}
  Skews = {0, 1}
  Window = 2
  Grace = 2
  MaxTime = 6
  Requests = {r1, r2, r3}
  Quota = 1
  Limit <- MCLimit
  Patience = 4
  Lives = 2
SPECIFICATION Spec
SYMMETRY Symmetry
INVARIANTS
  CountersOutliveTheirWindow
  QuotaHoldsWhileOpen
  LateAdmissionsBounded
  RefusalsAreEarned
\* Time is bounded and each request calls once.
CHECK_DEADLOCK FALSE
