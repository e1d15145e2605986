CONSTANTS
  d1 = d1
  d2 = d2
  c1 = c1
  c2 = c2
  Dag = {d1, d2}
  Chat = {c1, c2}
  Starters = {c1, c2}
  Stoppers = {c1, c2}
  MaxRuns = 2
  MaxStops = 2
  MaxFaults = 2
SPECIFICATION SceneSpec
CHECK_DEADLOCK FALSE
SYMMETRY DagSymmetry
INVARIANTS
  ChatSerialized
  NeverFalseDone
  VerdictKept
  StoppedRunWindsDown
