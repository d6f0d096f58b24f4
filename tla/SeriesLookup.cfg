SPECIFICATION Spec
CONSTANTS
  k1 = k1
  k2 = k2
  s1 = s1
  s2 = s2
  s3 = s3
  Queries = {1, 2, 3}
  Keys = {k1, k2}
  KeyOf <- KeyOfQuery
  Series = {s1, s2, s3}
  NoSeries = NoSeries
  w1 = w1
  w2 = w2
  Workers = {w1, w2}
  InpCap = 2
  OutCap = 1
  Limit = 3
  MaxFaults = 2
PROPERTIES ImplementsLookup LossNeedsFault QueriesSettle
CHECK_DEADLOCK FALSE
