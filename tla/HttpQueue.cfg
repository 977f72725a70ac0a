SPECIFICATION FairSpec
CONSTANTS
  Commands = {c1}
  Kinds = {"refused", "nopath", "stop", "incomplete"}
  Worker = {w1, w2}
  MaxDepth = 2
  NoRequest = NoRequest
  Request <- MCRequest
  KindOf <- MCKindOf
INVARIANTS TypeOK OneReply NoSleeperNeeded
PROPERTY EveryRequestAnswered
