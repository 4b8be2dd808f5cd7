SPECIFICATION AdapterSpec
CONSTANTS
  None = None
  x1 = x1
  x2 = x2
  d1 = d1
  Exchanges = {x1}
  Commands = {}
  Outcomes = {"completed"}
  HttpCapacity = 2
  DatabaseCapacity = 1
  MaxConnects = 2
  MaxHeartbeats = 0
INVARIANTS
  OutcomesAreNewest
CHECK_DEADLOCK FALSE
