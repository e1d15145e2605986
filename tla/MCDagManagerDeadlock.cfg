CONSTANTS
  d1 = d1
  d2 = d2
  c1 = c1
  c2 = c2
  Dag = {d1}
  Chat = {c1}
  Starters = {c1}
  Stoppers = {c1}
  MaxRuns = 1
  MaxStops = 1
  MaxFaults = 0
SPECIFICATION Spec
INVARIANT NoDeadlock
