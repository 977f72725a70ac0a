SPECIFICATION Spec
CONSTANTS
  Coin = {"BTC"}
  Kinds = {"own", "late"}
  OtherKinds = {}
  EveryN = 2
  Tx <- MCTx
  CoinOf <- MCCoinOf
  Address <- MCAddress
  AddressOf <- MCAddressOf
  Wallet <- MCWallet
  InitialAccount <- MCInitialAccount
  Every <- MCEvery
  EOSStart = 1
  Reorging = {}
  ConnectionDrops = TRUE
  MaxHeight = 3
  RowCap = 2
  MaxFaults = 2
  MaxCrashes = 2
INVARIANTS BTCDepositsRecorded ReportedBeforeRecorded RetriesKept
PROPERTIES PassMovesScanPoint KnownDepositsHeld
