SPECIFICATION TradingSpec
CONSTANTS
  PxIntents <- Intents
  PxMarks = {1, 2}
  PxCallers = {"a", "b"}
  PxOverlap = FALSE
  PxMaxOrders = 3
  PxMaxTicks = 2
  QuAccounts <- Accounts
  QuSymbols = {"x"}
  QuCycles = {"c", "d"}
  QuControls = {"k"}
  QuSerial = TRUE
  QuFallback = TRUE
  QuMaxTraces = 2
  QuMaxRestarts = 1
  CeSymbols = {"x", "y"}
  CeHandlers = {"h"}
  CeOverlap = FALSE
  CeMaxRequests = 4
  CeMaxFailures = 1
  CeMaxRestarts = 2
  DaEvents <- ProviderEvents
  DaMonotonic = {"trade"}
  DaSameTs = TRUE
  DaCapacity = 2
  DaMaxRestarts = 2
  RgSignals <- Signals
  RgViews <- Views
  RgPrices = {100, 101}
  RgAccountCount = 3
  RgFactors = {0, 50, 100, 150}
  RgLimits <- Limits
  RgGuard <- GuardLimits
  RgSymbols = {"x", "y", "z"}
  RgGroups = {{"x", "y"}}
  RgStats <- Stats
  RgCircuits <- Circuits
  RgMaxSteps = 4
  TcInts <- Ints
  TcFloats <- Floats
  TcDurations <- Durations
  TcPrint <- Printed
  TcPaths <- Paths
  TcWritten <- Texts
  TcMaxEntries = 2
INVARIANTS
  
  
  RgWithinLimits
  
CHECK_DEADLOCK FALSE
