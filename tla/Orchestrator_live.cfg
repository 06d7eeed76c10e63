CONSTANTS
    Delegates = {d1, d2}
    ToolCalls = {t1}
    Budgeted = {d1}
    MaxProcs = 3
    MaxConcurrent = 1
    QuietShutdown = TRUE
    Main = main
SPECIFICATION FairSpec
INVARIANTS OneLiveSidecar
PROPERTIES DeadlineReleasesCaller ShutSidecarIsReaped
CHECK_DEADLOCK FALSE
