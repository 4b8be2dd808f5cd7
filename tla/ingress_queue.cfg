SPECIFICATION IngressSpec
CONSTANTS
  None = None
  s1 = s1
  s2 = s2
  c1 = c1
  c2 = c2
  Sources = {s1, s2}
  ExchangeKeys <- MCOneKey
  CommandKeys <- MCCommandKey
  Times = {1, 2}
  Metadata = {"roomy", "tight"}
  Extensions = {"kept"}
  Sizes = {1}
  Reasons = {0}
  MaxRevision = 1
  MaxSummaries = 2
  MaxCommands = 1
  MaxRetainedBytes = 2
  MaxArrivals = 3
  Connections = {c1, c2}
  QueueCapacity = 1
  Messages <- MCStarts
  CommandMessages <- MCCommandStart
INVARIANTS
  IngressTypeOK
  WaitersAreQueued
  GoneSourceHasNothingInFlight
SYMMETRY MCSymmetry
