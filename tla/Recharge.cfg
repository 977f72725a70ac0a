SPECIFICATION FairSpec
CONSTANTS
  Coin = {1}
  User = {1, 11}
  Worker = {w1, w2}
  Quantity = 2
  SizeT = 16
  MaxFaults = 1
INVARIANTS SharingNeedsRace SecondNeedsDoubt AnswersRecorded StarvingNeedsRace
PROPERTIES Served
