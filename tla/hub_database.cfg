SPECIFICATION HubSpec
CONSTANTS
  None = None
  s1 = s1
  s2 = s2
  Sources = {s1}
  ExchangeKeys <- MCNoKeys
  CommandKeys <- MCTwoKeys
  Times = {1}
  Metadata = {"roomy", "tight"}
  Extensions = {"kept", "roomy"}
  Sizes = {1}
  Reasons = {0, 3}
  MaxRevision = 3
  MaxSummaries = 1
  MaxCommands = 1
  MaxRetainedBytes = 4
  MaxArrivals = 3
INVARIANTS
  RetentionIsOrderly
  PartsMatchStates
PROPERTIES
  AccountFollowsCommands
