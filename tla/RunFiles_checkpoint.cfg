SPECIFICATION Spec
CONSTANTS
  Runners = {r1}
  Cancels = {c1}
  Forces = {}
  Resumes = {}
  Overlap = TRUE
INVARIANT CancelUpdatesCheckpoint
CHECK_DEADLOCK FALSE
