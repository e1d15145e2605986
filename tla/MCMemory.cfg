\* Two writers of the permanent memory, four turns of the working memory, two
\* entries of the episodic memory over two starts; one failure in each.
SPECIFICATION Spec
CONSTANTS
  Tasks = {t1, t2}
  Writers = {t1, t2}
  Keys = {k1, k2}
  FactsCap = 1
  MaxAgents = 5
  MaxOps = 3
  MaxFails = 1
  NoId = NoId
  MaxKept = 2
  MinSurplus = 2
  ChunkSize = 1
  MaxAppends = 4
  MaxUpsets = 1
  MaxEntries = 2
  MaxTrims = 1
  MaxStarts = 2
  MaxFaults3 = 1
  CatchUpMax = 1
INVARIANTS
  PromotedKept
  HistoryKept
  IndexKept
  DrainComplete
  CacheFresh
CHECK_DEADLOCK FALSE
