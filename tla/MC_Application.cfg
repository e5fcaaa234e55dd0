SPECIFICATION Spec
CONSTANTS
  acme = acme
  plant = plant
  u1 = u1
  u2 = u2
  gate = gate
  hall = hall
  nobody = nobody
  d1 = d1
  d2 = d2
  a1 = a1
  k1 = k1
  k2 = k2
  none = none
  w1 = w1
  Readers = {u1, u2}
  MaxVersion = 3
  Calls = {u1, u2}
  Customers = {acme, plant}
  NoCustomer = nobody
  Assets = {hall}
  Devices = {gate}
  Scope <- MCScope
  Profiles <- MCProfiles
  Rows = {acme, plant, u1}
  Goods = {d1, d2}
  Root = acme
  PageSize = 1
  MaxChanges = 1
  Users = {u1, u2}
  Sysadmins = {u1}
  NoUser = nobody
  MaxCalls = 2
  MaxTokens = 3
  Emails = {"e1"}
  NoEmail = "none"
  MaxUsers = 3
  Widgets = {w1, d1}
  MaxSaves = 1
  MaxOthers = 1
  Entities = {d1, d2, a1}
  PanelKeys = {k1, k2}
  NoEntity = none
  NoKey = none
  KindOf <- MCKindOf
  ReportedKeys <- MCReportedKeys
  Clients = {"c1", "c2"}
  NoClient = "none"
  AssetPool = {"s1", "s2"}
  Start <- MCStart
  Above <- MCAbove
  LevelsOf <- MCLevelsOf
  DefaultLevels = 2
  MaxRequests = 2
  MaxMoves = 3
  MaxAnswers = 1
  Names = {"site", "area"}
  BlankName = "blank"
  DefaultNames <- MCDefaultNames
  MaxLevels = 3
  MaxPosts = 2
  Cells = {"c1", "c2"}
  Boards <- MCBoards
  Fleet <- MCFleet
  NoDevice = "none"
  MaxSeries = 1
  MaxTiles = 2
  MaxRows = 2
  MaxCards = 2
  MaxClock = 1
  MaxPicks = 1
  PageKeys = {"temp", "rssi"}
  NoPageKey = "none"
  Alarms = {"low", "high"}
  MaxReadings = 1
  MaxFrames = 1
  Spans <- MCSpans
  Trails <- MCTrails
  Layouts <- MCLayouts
  Sizes <- MCSizes
  KeyLists <- MCKeyLists
  UnitTables <- MCUnitTables
  DataKeyLists <- MCDataKeyLists
  EntityReports <- MCEntityReports
  DayWindows <- MCDayWindows
  AlarmLists <- MCAlarmLists
  Heights <- MCHeights
INVARIANTS
  ApplicationTypeOK
  CacheSafe
  HandlersAreGuarded
  LostUpdateOnlyByOverlap
  WalkSafe
  SessionSafe
  EditsKept
  PanelSafe
  ConsoleSafe
  AccountsWork
  CellsSafe
  PageSafe
  AlgorithmsAgree
PROPERTIES
  NothingUndone
CHECK_DEADLOCK FALSE
