SPECIFICATION WindowSpec
CONSTANTS
  Null = Null
  Keys <- MCKeys
  MaxCommands = 1
  ChannelCapacity = 1
  MaxMutations = 2
  MaxStreams = 2
  MaxClicks = 2
CHECK_DEADLOCK FALSE
INVARIANTS
  WindowTypeOK
  QuietRowsAreTheHubs
PROPERTIES
  ImplementsLiveTable
