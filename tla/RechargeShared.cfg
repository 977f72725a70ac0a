SPECIFICATION Spec
CONSTANTS
  Coin = {1}
  User = {1, 2}
  Worker = {w1, w2}
  Quantity = 2
  SizeT = 16
  MaxFaults = 0
INVARIANT NoSharedAccount
