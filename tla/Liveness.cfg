SPECIFICATION EitherSpec
CONSTANTS
  h1 = h1
  h2 = h2
  o1 = o1
  o2 = o2
  chain1 = chain1
  chain2 = chain2
  Handler = {h1}
  Order = {o1}
  Chain = {chain1}
  NoOrder = NoOrder
  NoChain = NoChain
  Recovery = Recovery
  Operator = Operator
  ChainOf <- OnlyChain
  Kind <- SolanaOnly
  MaxCrashes = 1
  p1 = p1
  p2 = p2
  v1 = v1
  NoProcess = NoProcess
  NoWatcher = NoWatcher
PROPERTIES SubmittingResolves AccountedGetsVerdict LoserStops WantedGetsWatched
CHECK_DEADLOCK FALSE
