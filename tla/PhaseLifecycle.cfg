CONSTANTS
  A = A
  B = B
  C = C
  a = a
  b = b
  c = c
  d = d
  s1 = s1
  s2 = s2
  Phase = {A, B, C}
  PhaseDeps <- MCPhaseDeps
  Task = {a, b, c, d}
  PhaseOf <- MCPhaseOf
  DependsOn <- MCDependsOn
  Secondary = {s1, s2}
  NoSecondary = NoSecondary
  SetupTask = {d}
  RetryCap <- MCRetryCap
  SetupResults = {"ok"}
  Environment <- MCEnvironment
SPECIFICATION FairSpec
CHECK_DEADLOCK FALSE
INVARIANTS TypeOK CountMatchesHolders LiveTaskHasHome NoOrphanWait RunsInOrder EndedPhaseIsSettled NoSpuriousFailure CompleteMeansSettled
PROPERTY RunEnds
