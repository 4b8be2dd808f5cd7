SPECIFICATION FairIngressSpec
CONSTANTS
  None = None
  s1 = s1
  s2 = s2
  c1 = c1
  c2 = c2
  Sources = {s1}
  ExchangeKeys <- MCOneKey
  CommandKeys <- MCNoKeys
  Times = {1}
  Metadata = {"roomy", "tight"}
  Extensions = {"kept"}
  Sizes = {1}
  Reasons = {0}
  MaxRevision = 2
  MaxSummaries = 1
  MaxCommands = 1
  MaxRetainedBytes = 2
  MaxArrivals = 2
  Connections = {c1, c2}
  QueueCapacity = 1
  Messages <- MCLifecycle
  CommandMessages <- MCNoMessages
PROPERTIES
  WaitersAreAnswered
  EndedConnectionsMarkTheirSource
