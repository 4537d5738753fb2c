SPECIFICATION Spec
CONSTANTS
  h1 = h1
  h2 = h2
  o1 = o1
  o2 = o2
  chain1 = chain1
  chain2 = chain2
  Handler = {h1, h2}
  Order = {o1}
  Chain = {chain1}
  NoOrder = NoOrder
  NoChain = NoChain
  Recovery = Recovery
  Operator = Operator
  ChainOf <- OnlyChain
  Kind <- Evm
  MaxCrashes = 1
INVARIANTS FillNeverForgotten
