SPECIFICATION Spec
CONSTANTS
    lib = lib  docs = docs  app = app  first = first  second = second  build = build  test = test  w0 = w0  w1 = w1
    Phase = {first, second}
    PhaseDeps <- MCPhaseDeps
    Task = {lib, docs, app}
    PhaseOf <- MCPhaseOf
    DependsOn <- MCDependsOn
    Worker = {w0, w1}
    Worker0 = w0
    Type = {build, test}
    TypeOf <- MCTypeOf
    Estimate <- MCEstimate
    Budget <- MCBudget
    MaxResources = 2
    ReuseWorkers = TRUE
    RetryPasses = 1
    Plans <- MCPlans
    NoTask = NoTask
    NoType = NoType
INVARIANTS LocalTypeOK EveryTaskInOnePlace InFlightIsExact RunsInItsType
PROPERTIES PhaseEndsWithItsTasks RunEnds
