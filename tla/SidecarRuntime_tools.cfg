CONSTANTS
    ScRequests = {r}
    ScTools = {"f", "g"}
    ScAnswers <- Answers
    ScMaxTurns = 2
SPECIFICATION ScSpec
INVARIANT ScAskedToolsRun
CHECK_DEADLOCK FALSE
