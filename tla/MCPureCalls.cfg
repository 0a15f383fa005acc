CONSTANTS
  Models = {m1, m2, m3}
  Providers = {p1, p2, p3}
  MaxRoutes = 3
  MaxNames = 3
  NameOrder <- MCNameOrder
  AppOrder <- MCAppOrder
  Files <- MCFiles
  Names = {"f", "g"}
  MaxLen = 5
  MaxCalls = 2
SPECIFICATION MCSpec
INVARIANTS
  PlanMatchesReference
  ConstrainedIsExact
  LoadMatchesReference
  AnswersCanBeSentBack
  ResultsReachTheirCalls
  NothingIsLost
  OnlyBillableIsPriced
\* Each function is called once and returns; a transcript at its bound has no
\* next message.
CHECK_DEADLOCK FALSE
