SPECIFICATION FairSpec
CONSTANTS
  Worker = {w1, w2}
  Order = {o1, o2}
  Amount <- MCAmount
  Fee <- MCFee
  Retried = {o1}
  SmallFee = {o2}
  Coins <- MCCoins
  FeeOutputs = 1
  ZoneOffset = 0
  MaxOpens = 1
  MaxFaults = 1
  MaxRestarts = 1
INVARIANTS ErrorMeansUnpaid TxidMeansPaid
PROPERTIES Settled
CHECK_DEADLOCK FALSE
