CONSTANTS
    Calls = {a, b}
    PeerReqs = {}
    Closers = {k}
    CancelIds = {}
    Window = 1
    MaxAnswers = 1
    MaxSeq = 2
SPECIFICATION FairSpec
INVARIANT DoneClosedOnce
PROPERTIES CloseReleasesCalls DeadlineReleasesCall
CHECK_DEADLOCK FALSE
