SPECIFICATION Spec
CONSTANTS
  Coin = {"BTC", "XRP"}
  Kinds = {"own", "foreign"}
  OtherKinds = {"own"}
  EveryN = 2
  Tx <- MCTx
  CoinOf <- MCCoinOf
  Address <- MCAddress
  AddressOf <- MCAddressOf
  Wallet <- MCWallet
  InitialAccount <- MCInitialAccount
  Every <- MCEvery
  EOSStart = 1
  Reorging = {}
  ConnectionDrops = TRUE
  MaxHeight = 2
  RowCap = 2
  MaxFaults = 2
  MaxCrashes = 1
INVARIANTS RecordedOnce LossNeedsFault
PROPERTIES BTCLedger
