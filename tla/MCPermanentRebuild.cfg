\* One writer and one failing request.
SPECIFICATION L1Spec
CONSTANTS
  Tasks = {t1}
  Writers = {t1}
  Keys = {k1}
  FactsCap = 1
  MaxAgents = 4
  MaxOps = 2
  MaxFails = 1
  NoId = NoId
PROPERTY RebuildKeepsFacts
CHECK_DEADLOCK FALSE
