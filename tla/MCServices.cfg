\* One turn's loops; three updates, two versions and a crash; three messages on
\* the hub, of which two fit a batch; three edits of two plugins.
SPECIFICATION ServicesSpec
CONSTANTS
  MaxIterations = 3
  MaxContinuation = 2
  MaxOutput = 7
  Sizes = {1, 8}
  MaxBatch = 2
  MaxStores = 2
  MaxUpdates = 3
  MaxVersion = 2
  MaxKills = 1
  MaxCli = 1
  MaxBreaks = 1
  MaxPosts = 3
  Batch = 2
  DigestMax = 2
  MaxTurns = 1
  MaxStops = 1
  MaxFailures = 1
  Plugins = {p1, p2}
  MaxEdits = 3
  NoMod = NoMod
INVARIANTS
  LoopBounded
  ReplyIsClean
  EvidenceKept
PROPERTIES
  UpdatesSafe
  CoordHeard
  PluginsSound
CHECK_DEADLOCK FALSE
