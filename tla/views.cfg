SPECIFICATION ViewsSpec
CONSTANTS
  Details <- MCDetails
  Placeholder <- MCPlaceholder
  Absent = Absent
  CacheLimit = 2
  RowsPerPage = 2
  MaxLooks = 3
  Requests <- MCRequests
  NoRecord = NoRecord
  MaxMapSteps = 3
  Alphabet <- MCAlphabet
  Openings <- MCOpenings
  Lower <- MCLower
  Queries <- MCQueries
  MaxMatches = 2
  MaxTyped = 5
  CapturedRequests <- MCCaptured
  Nothing = Nothing
  Decode <- MCDecode
  Encode <- MCEncode
  UrlSpelling <- MCSpelling
  AuthenticationNames = {"Cookie", "Authorization"}
  Absolute = {"/absolute"}
  MaxEdits = 4
  Columns <- MCColumns
  NoColumn = NoColumn
  Sizes = {0, 44}
  PaneRows = 2
  Overscan = 1
  MaxEntries = 5
  MaxGridSteps = 3
INVARIANTS
  SettledViewIsOfTheExchange
  SettledDiagramIsTheSources
  ScansKeepTheText
  FormKeepsTheCapture
  GridFollowsUntilLeft
  ReloadKeepsTheColumns
PROPERTIES
  ShownEventually
CHECK_DEADLOCK FALSE
