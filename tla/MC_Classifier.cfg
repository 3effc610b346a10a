\* Two steps, four classifications, one configuration change, one restart.
SPECIFICATION FairSpec
CONSTANTS
  Steps = {s1, s2}
  TaskTypes = {"general", "coding", "data_analysis", "writing", "vision", "tool_use"}
  Patterns = {"fence", "stack", "sql", "table", "long"}
  Inputs <- MCInputs
  Outputs <- MCOutputs
  Threshold = 70
  Budget = 1
  Ttl = 1
  NoStep = NoStep
  NoEntry = NoEntry
  MaxRevision = 2
  MaxTime = 3
  MaxClassify = 4
  MaxRestarts = 1
INVARIANTS
  TypeOK
  OneCallPerKey
  AnswersAreFresh
  FailuresAreNotReused
PROPERTIES
  ClassificationsEnd
