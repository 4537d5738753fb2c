SPECIFICATION SignalsSpec
CONSTANTS
  w1 = w1
  w2 = w2
  w3 = w3
  r1 = r1
  r2 = r2
  r3 = r3
  r4 = r4
  Wallet = {w1, w2, w3}
  Reference = {r1, r2, r3, r4}
  WalletOf <- ThreeWallets
  MaxCrashes = 1
  chat1 = chat1
  chat2 = chat2
  caller1 = caller1
  caller2 = caller2
  token = token
  ticker = ticker
  signal1 = signal1
  signal2 = signal2
  Chat = {chat1, chat2}
  Known = {chat1}
  Caller = {caller1, caller2}
  Token = {token}
  Signal = {ticker, signal1, signal2}
  Ticker = {ticker}
  Outdated = {signal1}
  ChatOf <- OneChat
  TokenOf <- OneToken
  Cooldown = 2
  DailyLimit = 2
  MaxClients = 2
  MaxChanges = 2
  MaxTime = 7
INVARIANTS OneBuyAtATime StageBookedOnce BookedWalletCounted OneOpinionUnlessOld
PROPERTIES PendingResolves ListenersSettle
CHECK_DEADLOCK FALSE
