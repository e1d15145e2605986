CONSTANTS
  MaxTurns = 4
  MaxFacts = 2
  Window = 2
  ArchiveMax = 3
SPECIFICATION Spec
INVARIANTS
  NeverClobbered
  ActivationSound
