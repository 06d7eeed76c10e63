CONSTANTS
    MaxTurns = 3
    MaxCost = 0
    MaxLLMCalls = 0
    MaxToolCalls = 2
    RepeatedToolCallThreshold = 3
    NoProgressTurnThreshold = 5
    ThoughtOnlyTurnThreshold = 3
    Sigs = {"a", "b"}
    MaxBatch = 2
    Costs = {0}
    Streaming = FALSE
    Detecting = FALSE
SPECIFICATION Spec
INVARIANTS ToolCallsBounded
CHECK_DEADLOCK FALSE
