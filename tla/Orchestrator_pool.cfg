CONSTANTS
    Delegates = {d1, d2}
    ToolCalls = {}
    Budgeted = {d1}
    MaxProcs = 2
    MaxConcurrent = 2
    QuietShutdown = FALSE
    Main = main
SPECIFICATION Spec
INVARIANT RetryOnFreshSidecar
 
CHECK_DEADLOCK FALSE
