CONSTANTS
  metered = metered
  free = free
  Apps = {metered}
  Replicas = {p1}
  Skews = {0}
  Window = 2
  Grace = 2
  MaxTime = 6
  Requests = {r1, r2}
  Quota = 1
  Limit <- MCLimit
  Patience = 4
  Lives = 2
SPECIFICATION Spec
INVARIANT RateQuotaHolds
CHECK_DEADLOCK FALSE
