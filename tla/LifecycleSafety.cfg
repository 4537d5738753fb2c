SPECIFICATION LiveSpec
CONSTANTS
  h1 = h1
  h2 = h2
  o1 = o1
  o2 = o2
  chain1 = chain1
  chain2 = chain2
  Handler = {h1, h2}
  Order = {o1}
  Chain = {chain1}
  NoOrder = NoOrder
  NoChain = NoChain
  Recovery = Recovery
  Operator = Operator
  ChainOf <- OnlyChain
  Kind <- HyperCoreOnly
  MaxCrashes = 1
  Test = {"first", "second"}
  MaxLots = 2
  Asset = {"x", "y"}
  Wallet = {"w"}
  NoWallet = "manual"
  BuyRequest = {"first", "second"}
  Equity = {0, 6}
  TradeAmount = {2}
  MaxFee = 1
  MaxOpenPositions = 1
  GlobalPositions = 3
  MinPosition = 60
  CashReserve = 10
  LossLimit = 10
  TokenExposure = 50
  WalletExposure = 50
  MinTrade = 1
  MaxCost = 5
  MaxMet = 1
  Trade = {"first", "second"}
  MaxSize = 2
  MaxHeld = 3
  MaxReads = 2
  MaxOutside = 1
SYMMETRY HandlerSymmetry
INVARIANTS AtMostOneSubmission ReconciledMeansBooked PassedWasTraded SpotMeasuredAlone
PROPERTIES FailedVerdictHalts ImplementsLedger OverLimitByOthersOnly ClosesNeverReverse
CHECK_DEADLOCK FALSE
