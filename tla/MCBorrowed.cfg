CONSTANTS
  Apps = {a1, a2}
  Ids = {1, 2, 3, 4}
  Limits = {0, 1, 2, 3}
  Calls = {k1, k2, k3, k4}
  Conns = {c1, c2, c3}
  Size = 1
  Passwords = {TRUE, FALSE}
  NoConn = NoConn
  Nothing = Nothing
  Failure = Failure
SPECIFICATION MCSpec
SYMMETRY Symmetry
INVARIANTS
  CountersAreExact
  CeilingsHold
  GuaranteedShare
  RepliesAreOwn
  ConnectionsAccounted
  AuthComesFirst
\* Each closure is issued once and each call is made once.
CHECK_DEADLOCK FALSE
