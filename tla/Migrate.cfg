SPECIFICATION SchemaSpec
CONSTANTS
  d1 = d1
  d2 = d2
  d3 = d3
  Daemons = {d1, d2, d3}
  Objects <- Schema
  Constraint = "nondup"
  MaxFaults = 2
INVARIANTS RunsWithSchema
PROPERTIES AllRun
CHECK_DEADLOCK FALSE
