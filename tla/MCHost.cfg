SPECIFICATION HostSpec
CONSTANTS
  Writers = {w1, w2, w3}
  Closers = {c1, c2}
  BufSize = 1
  MaxTurns = 4
  MaxCost = 3
  MaxLLMCalls = 5
  MaxToolCalls = 5
  RepeatedToolCallThreshold = 3
  NoProgressTurnThreshold = 5
  ThoughtOnlyTurnThreshold = 3
  Sigs = {"a", "b"}
  MaxBatch = 2
  Costs = {0, 1}
  Streaming = TRUE
  Detecting = TRUE
  Runs = {r1, r2}
  Cancels = {d1}
  MaxConcurrent = 1
  MaxFaults = 1
INVARIANTS
  WithinBudget
  HistoryPaired
  RepetitionCaught
  SlotsCounted
  RunningHasOwner
  DrainSettlesRuns
PROPERTIES
  ImplementsSink
  CallsReturn
  DeadlineHonoured
  Terminates
  CancelStopsRun
  ShutdownEnds
CHECK_DEADLOCK FALSE
