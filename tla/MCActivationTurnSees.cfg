CONSTANTS
  MaxTurns = 3
  MaxFacts = 2
  Window = 2
  ArchiveMax = 3
SPECIFICATION Spec

INVARIANT NextTurnSees
