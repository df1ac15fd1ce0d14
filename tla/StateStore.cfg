SPECIFICATION FairSpec
CONSTANTS
  Calls = {c1, c2, c3}
  Instances = {i1, i2}
  Drivers = {"json", "pg"}
  MaxPool = 2
  Events = {"persist", "drop", "connect", "restart"}
  MaxBreaks = 2
  Logins <- MCLogins
  Answers <- MCAnswers
  Queries = 2
  Chunks = 2
INVARIANTS
  ReadYourWrites
  PoolCounts
  WireHolds
PROPERTIES
  KeepsPromise
  CallsEnd
CHECK_DEADLOCK FALSE
