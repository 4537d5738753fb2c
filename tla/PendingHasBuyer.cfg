SPECIFICATION Spec
CONSTANTS
  w1 = w1
  w2 = w2
  w3 = w3
  r1 = r1
  r2 = r2
  r3 = r3
  r4 = r4
  Wallet = {w1, w2}
  Reference = {r1, r2, r3}
  WalletOf <- TwoWallets
  MaxCrashes = 1
INVARIANTS PendingHasBuyer
CHECK_DEADLOCK FALSE
