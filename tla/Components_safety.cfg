SPECIFICATION SafetySpec
CONSTANTS
  Prices = {80, 90, 100, 110, 120, 130}
  Atrs = {0, 2, 4}
  Entry = 100
  Risk = 10
  Rules = {"trailing", "breakeven", "volatility"}
  Callback = 10
  TriggerRr = 1
  Multiplier = 2
  CancelFails = TRUE
  Throttle = 1
  MaxClock = 5
  MaxOrders = 4
  BnQty = 2
  BnAttempts = 2
  BnTasks = 2
  ByQty = 2
  ByPrices = {1, 2}
  ByTasks = 3
  CxQty = 2
  CxAttempts = 3
  LgFills = 3
  LgFirstId = 8
  LgPrices <- MCPrices
  LgPage = 2
  LgMaxPages = 1
  IcPayments = 5
  IcPage = 2
  IcMaxPages = 2
  AcRequests = {1, 2}
  AcSecrets = 2
  AcTokens = 1
  AcMails = 1
  AcMaxFailed = 1
  AlPnls <- MCPnls
  AlTrades = 4
  AlWindow = 3
  AlZ = 8
  AlCooldown = 0
  AlTicks = 1
  AlMaxAge = 0
  PrConfigs <- MCConfigs
  PrGuarded <- MCGuarded
  PrSymbol <- MCSymbol
  PrSize <- MCSize
  PrOverCeiling = {"f"}
  PrWorkers = {1, 2}
  PrMaxOpen = 2
  PrMaxSymbol = 2
  PrCap = 4
  LpTrades <- MCTrades
  LpClock = 4
  LpRevisions = 3
  OvHistory = 2
  OvClock = 1
  OvMaxAge = 0
  OvStrengths = {0, 1}
  OvMinStrength = 1
  OvRange <- MCRange
  OvMaxShift = 5
  OvWatcher <- MCWatcher
INVARIANTS
  LadderBooksAgree AdaptersTellTheTruth  BooksHaveNoHoles
   AlertsAreEarned  PaperBooksComplete OneTrendPerEntry
PROPERTIES LoosenedOnceToEntry ProtectionNeverWeakens 
CHECK_DEADLOCK FALSE
