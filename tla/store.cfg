SPECIFICATION StoreSpec
CONSTANTS
  InvalidUrl = InvalidUrl
  Absent = Absent
  Exchanges <- MCExchanges
  Batches <- MCBatches
  Snapshots <- MCSnapshots
  Imported <- x1moved
  ReplayKey = 3
  Filters <- MCFilters
  MaxBatches = 2
  MaxClicks = 3
CHECK_DEADLOCK FALSE
INVARIANTS
  StoreTypeOK
  TreeMatchesRows
  OneSelection
  HiddenIsTold
  DraftTellsItsExecutions
