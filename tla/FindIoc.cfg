SPECIFICATION FairSpec
CONSTANTS
  c1 = c1
  c2 = c2
  c3 = c3
  c4 = c4
  Channels = {c1, c2, c3, c4}
  NumTargets = 2
  BatchSize = 2
  InFlightMax = 2
  AnswerMax = 2
  Repeats = FALSE
INVARIANTS NoneLost ReportedOnce NoneForgotten
PROPERTY SearchEnds
CHECK_DEADLOCK FALSE
