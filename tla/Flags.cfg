SPECIFICATION FlagsSpec
CONSTANTS
  own = own
  late = late
  other = other
  bare = bare
  Own = {own, late}
  Other = {other}
  FirstOwn = {own}
  NoAddress = bare
  Shapes <- MCShapes
  Every = 2
  Sharing = TRUE
  MaxTx = 3
  MaxFaults = 1
  MaxCrashes = 1
  Ledger = {"ETH", "ERC20", "XRP", "EOS", "OMNI"}
  Account <- MCAccount
  Stranger <- MCStranger
  Amount = {16, 48}
  Base = 16
  Kept = 256
  MaxBalance = 64
INVARIANTS SpendsRecorded OneFlag BalanceExplained
PROPERTY SpendNotDeposit
