SPECIFICATION UiSpec
CONSTANTS
  None = None
  s1 = s1
  Sources = {s1}
  ExchangeKeys <- MCKeys
  CommandKeys <- MCNoKeys
  Times = {1}
  Metadata = {"roomy"}
  Extensions = {"kept"}
  Sizes = {1}
  Reasons = {0}
  MaxRevision = 2
  MaxSummaries = 1
  MaxCommands = 1
  MaxRetainedBytes = 3
  MaxArrivals = 3
  Messages <- MCMessages
  ChannelCapacity = 1
  MaxMutations = 3
  MaxStreams = 2
  MaxTranslations = 2
CHECK_DEADLOCK FALSE
INVARIANT
  WindowMirrorsHub
