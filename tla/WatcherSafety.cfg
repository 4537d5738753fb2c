SPECIFICATION FeedsSpec
CONSTANTS
  p1 = p1
  p2 = p2
  v1 = v1
  v2 = v2
  t1 = t1
  t2 = t2
  t3 = t3
  Process = {p1, p2}
  Watcher = {v1, v2}
  NoProcess = NoProcess
  NoWatcher = NoWatcher
  Tx = {t1}
  BlockOf <- Blocks
  BatchSize = 1
  MaxReplay = 1
  MaxLag = 1
  MaxBlock = 2
  MaxCrashes = 1
  marketList = marketList
  prices = prices
  fills = fills
  None = None
  Announced = {1, 2}
  Owner <- OwnerOfEach
  Slot <- SlotOfEach
  Lists = {{}, {"a"}, {"a", "b"}}
  PageSize = 1
  MaxPages = 2
  MaxSockets = 2
  MaxChanges = 1
  Wallet = {1, 2, 3}
  Tracked = {{}, {1, 2, 3}, {2, 3}}
  PerSocket = 2
  MaxSwitches = 2
  MaxFailures = 2
  Endpoint = {1, 2}
  Method = {"getLogs"}
  Call = {"first", "second"}
  RateLimitRest = 2
  MonthlyRest = 2
  Caller = {"first", "second"}
  Body = {marketList, prices, fills}
  Kept = {marketList, prices}
  Market = marketList
  Ttl = 1
  MaxAttempts = 2
  MaxTime = 2
  MaxVersion = 1
  MaxCalls = 3
SYMMETRY WatcherSymmetry
INVARIANTS NoOrphanWatcher CursorCovers ReplayIsComplete SettledIsSubscribed SettledMeansSubscribed GaveUpMeansTried AnswersAreCurrent
CHECK_DEADLOCK FALSE
