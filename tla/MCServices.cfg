SPECIFICATION ServicesSpec
CONSTANTS
  Runners = {r1, r2}
  Cancels = {c1}
  Forces = {f1}
  Resumes = {c1}
  Overlap = FALSE
  FsKinds = {"mem", "file"}
  FsCallers = {c, d}
  FsRuns = {r}
  FsTurns = {t, u}
  FsKeys = {k, l}
  FsRefs = {f}
  FsMaxAttempts = 2
  FsTopics = {"plans", "ledger", "resume", "artifacts"}
  FsMaxOps = 4
  FsMaxFailures = 1
  FsMaxCrashes = 2
  VaCallers = {c, d}
  VaKeys = {"k"}
  VaValues = {"v"}
  VaAllowed = {"k"}
  VaBadKeys = {"bad"}
  VaMaxCalls = 3
  VaMaxTime = 2
  TlProcs = {p, q}
  TlBatch = 2
  TlCapacity = 2
  TlLevels = {1, 2}
  TlMinLevel = 2
  TlMetrics = {"m", "n"}
  TlMaxSpans = 2
  TlMaxLogs = 4
  TlMaxAdds = 2
  TlMaxFailures = 1
  ErCodes = {"sidecar_hung", "llm_safety_refused", "llm_quota_exhausted_daily", "panicked", "ext_code", "invalid_params"}
  ErUnregistered = {"ext_code"}
  ErNumerics = {7}
  ErMaxHops = 2
  ErMaxTasks = 2
  CfKeys <- Keys
  CfInputs <- Inputs
  CfTools = {"t", "u"}
  CfKinds = {"code"}
  CfProcs = {"p"}
  CfOverlap = FALSE
  CfMaxCommands = 4
  CfMaxKills = 1
  WrFrames <- Frames
  WrMaxFrames = 2
  WrMaxBody = 3
  WrMessages <- Fragments
  WrControls <- ControlFrames
  WrLengths = {0, 1, 125, 126, 255, 256, 65535, 65536, 16777216}
  HbMiss = 2
  HbMaxTicks = 5
  HbWindow = 1
  HbThreshold = 2
  HbMaxStale = 2
  LsMessages <- Messages
  LsOpensEmpty = FALSE
  LsProviders = {"anthropic", "mock"}
  ScRequests = {r, s}
  ScTools = {"f", "g"}
  ScAnswers <- Answers
  ScMaxTurns = 2
  MaCallers = {"c", "d"}
  MaStopper = "z"
  MaLists <- ToolLists
  MaSerial = TRUE
  MaMaxProcs = 2
  MaMaxCalls = 4
  BbRequests = {"r", "s"}
  BbChosen = {"click", "drag", "type", "switch_tab"}
  BbMaxTools = 2
  BbMaxFaults = 1
  GdOrder <- Tree
  GdInside <- Inside
  GdContents = {"x", "y"}
  GdPolicies <- Policies
  GdModes = {"default", "auto"}
  GdMaxCalls = 2
  GdMaxEdits = 1
  ChMaxInputs = 3
  ChMaxEscapes = 1
  ChMaxAsks = 1
  LeKeys = {"a", " ", "wide", "left", "wordleft", "wordright", "bs", "delete", "ctrl+u", "ctrl+k", "ctrl+b", "up", "down", "paste", "endpaste", "enter", "home", "end", "right"}
  LeMaxKeys = 3
  LeHistory <- History
  DfLines = {a, b}
  DfMaxLines = 3
  DfTable = 6
  DfRooms = {0, 1, 2, 4}
  RepeatedToolCallThreshold = 3
  NoProgressTurnThreshold = 4
  ThoughtOnlyTurnThreshold = 3
  Names = {"a", "b"}
  Hashes = {"x", "y"}
  MaxEvents = 5
  FkScripts <- Scripts
  FkReaders = {"a", "b"}
  FkCapacity = 2
  FkMaxReads = 4
  FkMaxSends = 1
  CsNames = {"n", "m"}
  CsEvents = {"e", "long"}
  CsLong = {"long"}
  CsMaxEvents = 2
  CsMaxSessions = 3
  CsMaxFailures = 1
INVARIANTS
  RecordNotAhead
  
  LedgersTruthful
  
  
  
  
  
  
  ChCancelKept
  

  
CHECK_DEADLOCK FALSE
