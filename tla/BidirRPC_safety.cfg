CONSTANTS
    Calls = {a, b}
    PeerReqs = {q}
    Closers = {}
    CancelIds = {1}
    Window = 2
    MaxAnswers = 2
    MaxSeq = 2
SPECIFICATION Spec
INVARIANTS SlotsAreInFlightCalls OwnResponse NothingLeftBehind PreciseCancel
CHECK_DEADLOCK FALSE
