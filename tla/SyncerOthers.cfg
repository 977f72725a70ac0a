SPECIFICATION Spec
CONSTANTS
  Coin = {"ETH", "OMNI"}
  Kinds = {}
  OtherKinds = {"own"}
  EveryN = 2
  Tx <- MCTx
  CoinOf <- MCCoinOf
  Address <- MCAddress
  AddressOf <- MCAddressOf
  Wallet <- MCWallet
  InitialAccount <- NoOmniAccount
  Every <- MCEvery
  EOSStart = 1
  Reorging = {"OMNI"}
  ConnectionDrops = FALSE
  MaxHeight = 3
  RowCap = 1
  MaxFaults = 1
  MaxCrashes = 1
INVARIANTS TypeOK TimerKept ETHLossConfined
