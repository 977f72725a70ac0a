SPECIFICATION SchedulerFairSpec
CONSTANTS
  Thread = {"t1", "t2"}
  Every <- MCEvery
  Delta = 1
  Once = {"o1"}
  Callback = {"c1","c2"}
  MaxThrows = 1
PROPERTIES InTurn OneJobAtATime AllStop RunsAgain
CHECK_DEADLOCK FALSE
