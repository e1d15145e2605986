CONSTANTS
  d1 = d1
  d2 = d2
  c1 = c1
  c2 = c2
  Dag = {d1}
  Chat = {c1, c2}
  Starters = {c1}
  Stoppers = {c2}
  MaxRuns = 2
  MaxStops = 2
  MaxFaults = 1
SPECIFICATION FairSpec
PROPERTIES
  RunsAndStopsEnd
  ChatIsTold
