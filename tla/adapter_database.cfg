SPECIFICATION AdapterSpec
CONSTANTS
  None = None
  x1 = x1
  x2 = x2
  d1 = d1
  Exchanges = {}
  Commands = {d1}
  Outcomes = {"completed"}
  HttpCapacity = 1
  DatabaseCapacity = 2
  MaxConnects = 2
  MaxHeartbeats = 1
INVARIANTS
  AdapterTypeOK
  OutcomesAreNotLost
CHECK_DEADLOCK FALSE
