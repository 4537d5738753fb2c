SPECIFICATION ServicesSpec
CONSTANTS
  sale = sale
  purchase = purchase
  order = order
  mirror = mirror
  rival = rival
  source = source
  NoWallet = NoWallet
  Swap = {sale, purchase}
  Side <- SideOfEach
  Amount <- OneUnit
  Held = 2
  Coins = 4
  Networks = {"evm", "robinhood", "solana", "hypercore"}
  MaxYield = 9
  MaxSupply = 9
  Rounds = 3
  Doublings = 3
  MaxBlock = 5
  MaxTimestamp = 2
  Window = 1
  Chunk = 2
  Request = {order}
  PoolTtl = 2
  ExitTtl = 2
  MaxAge = 1
  MaxChanges = 2
  Op = {mirror, rival}
  Wallet = {source}
  Money = 2
  MaxGas = 1
  MaxGain = 1
  MaxTrades = 3
  Worker = {mirror, rival}
  Source = {source}
  NoSource = NoSource
  ShadowMoney = 2
  MaxSize = 2
  Fee = 1
  SaleProceeds = 1
  MaxLotTrades = 2
  MaxDeparted = 1
INVARIANTS MeasuredAlone OneSwapUnlessLost SubmittedIsRecorded LargestMinimum OnlyFarPoolsMissed BoughtCouldBeSold CashMatchesTrades HeldMatchesTrades BooksMatchTrades LotsAreCovered
CHECK_DEADLOCK FALSE
SYMMETRY Interchangeable
