CONSTANTS
  m1 = m1
  m2 = m2
  m3 = m3
  p1 = p1
  p2 = p2
  p3 = p3
  strict = strict
  picky = picky
  easy = easy
  Requests = {r1}
  Apps = {strict, picky, easy}
  Models = {m1, m2, m3, m4}
  Asked = {m1, m2, m3, m4}
  Providers = {p1, p2, p3}
  Limits = {0, 1}
  Verdicts = {"allowed", "refused", "error"}
  Faults = {"unreachable", "timeout", "server_error", "throttled", "bad_response", "rejected"}
  Table <- MCTable
  Order <- MCOrder
  PolicyOf <- MCPolicyOf
SPECIFICATION Spec
INVARIANT BillableAttemptsPriced
CHECK_DEADLOCK FALSE
