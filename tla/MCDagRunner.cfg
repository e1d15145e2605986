CONSTANTS
  n1 = n1
  n2 = n2
  n3 = n3
  Node <- ThreeNodes
  Graphs <- SmallGraphs
  MaxConcurrent = 2
  Retries <- OneRetry
  Delayed = {n3}
  Conditional = {n2}
  Runnerless = {}
  Sandboxed = TRUE
SPECIFICATION FairSpec
INVARIANTS
  SemaphoreConserved
  DependencyInputs
  VerdictIsQuiet
  ResultSound
PROPERTIES
  AbortIsFinal
  ImplementsExecution
  Termination
