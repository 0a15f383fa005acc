CONSTANTS
  Providers = {p1}
  Jobs = {j1, j2}
  Callers = {c1, c2}
  MaxVersion = 3
SPECIFICATION FairSpec
INVARIANT OneTriggerAtATime
PROPERTIES
  KeyNeverLost
  KeyGoesBackOnlyByOverlap
  EventuallyFresh
