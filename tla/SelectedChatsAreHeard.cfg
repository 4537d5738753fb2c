SPECIFICATION SocialFairSpec
CONSTANTS
  chat1 = chat1
  caller1 = caller1
  Chat = {chat1}
  Known = {chat1}
  Caller = {caller1}
  Token = {}
  Signal = {}
  Ticker = {}
  Outdated = {}
  ChatOf <- NoSignals
  TokenOf <- NoSignals
  Cooldown = 2
  DailyLimit = 2
  MaxClients = 2
  MaxChanges = 1
  MaxTime = 3
PROPERTIES SelectedChatsAreHeard
CHECK_DEADLOCK FALSE
