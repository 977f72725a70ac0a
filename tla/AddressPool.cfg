SPECIFICATION FairSpec
CONSTANTS
  Coin = {"BTC", "ETH", "XRP", "EOS"}
  Quantity = 2
  MaxUsers = 1
  MaxReads = 1
  MaxFaults = 1
  MaxRestarts = 1
INVARIANTS KeyBeforeRow TagsGrow OneBase
PROPERTIES  StockKept
