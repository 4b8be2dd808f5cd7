SPECIFICATION HubSpec
CONSTANTS
  None = None
  s1 = s1
  s2 = s2
  Sources = {s1, s2}
  ExchangeKeys <- MCExchangeKeys
  CommandKeys <- MCNoKeys
  Times = {1}
  Metadata = {"roomy", "tight"}
  Extensions = {"kept"}
  Sizes = {1}
  Reasons = {0}
  MaxRevision = 2
  MaxSummaries = 1
  MaxCommands = 1
  MaxRetainedBytes = 3
  MaxArrivals = 3
INVARIANTS
  RetentionIsOrderly
  HubTypeOK
  ArrivalOrderAgrees
  BlockedExactlyWhenOverLimit
  PartsMatchStates
  NewerMessagesMergeSafely
PROPERTIES
  RevisionsOnlyGrow
