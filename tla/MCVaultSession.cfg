CONSTANTS
  Fetchers = {f1, f2}
  Values = {v1, v2}
  Tokens = {t1, t2, t3}
  none = none
SPECIFICATION VaultFairSpec
INVARIANTS
  FailureHasACause
PROPERTIES
  ImplementsSource
  SessionSettles
