CONSTANTS
    LsMessages <- Messages
    LsOpensEmpty = FALSE
    LsProviders = {"anthropic"}
SPECIFICATION LsSpec
INVARIANT LsUsageReported
CHECK_DEADLOCK FALSE
