\* Three nodes in every graph; an agent's two rounds of up to two calls; two
\* tasks with two calls of tools; five entries in two topics; five words.
SPECIFICATION PartsSpec
CONSTANTS
  Node = {n1, n2, n3}
  Graphs <- AllGraphs
  Task = {n1, n2, n3}
  Specs <- AllGraphs
  Aliased = {}
  MaxRounds = 2
  MaxCalls = 2
  Nodes = {t1, t2}
  NodeRoles = {"tool_caller", "coder"}
  Keys <- TwoKeys
  Shown = 1
  MaxUses = 2
  MaxSends = 2
  Entries = 5
  Topic <- FiveTopics
  Size <- FiveSizes
  Hits <- SomeHits
  Tiny = {5}
  Naming = {4}
  Logits <- SomeLogits
  Limit = 2
  TopK = 3
  ToolLimit = 1
  Seeds = 2
  PerSeed = 2
  Window = 2
  Significance = 2
  Budgets = {2, 4}
  Moments = {0, 3}
  Defaults <- Shipped
  TomlFiles <- SomeFiles
  Stamp = 20
  Cues = {0, 3}
  Lengths = {0, 100, 400}
  Mandatory = {300, 2500, 9000}
  Conversations <- Talks
  Texts <- ShortTexts
  Target = 4
  Overlap = 2
  Queries <- AllQueries
  Turns = {u1, u2}
  Courses <- SomeCourses
  Interval = 2
  Cases <- TwoCases
  Asked <- FewCourses
  Reaches = {2, 6}
  Rounds = 2
  Rows = {1, 2, 3, 4}
  Newcomers = {4}
  KeyOf <- Doubles
  StampOf <- Stamps
  Batch = 2
  MaxStarts = 2
  Providers = {"deepseek", "ollama"}
  Keyed = {"deepseek"}
  Services = {"redis"}
  Enabled = {"deepseek", "redis"}
  MaxSessions = 2
  MaxLen = 6
  Slack = 1
  Blocks <- SomeBlocks
  MostBlocks = 3
  Spots = {"note", "dir"}
  Place <- PlaceOf
  Writers = {1, 2, 3, 4}
  Readers = {7}
  At <- PathOf
  Mode <- ModeOf
  MaxKills = 1
INVARIANTS
  VerdictCorrect
  RestartSound
  ChatSound
  NodesSound
  RetrievalSound
  SharesKept
  SpansSound
  WindowIsMeant
  TurnsAccounted
  CasesAreTheirOwn
  RowsSurvive
  SetupKept
  RepliesWhole
  FilesWhole
CHECK_DEADLOCK FALSE
