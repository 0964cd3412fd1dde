\* One General ticket submitted on a Saturday, users busy until Monday.
CONSTANTS
  System = System
  NoOne = NoOne
  Open = Open
  Alice = alice
  Dana = dana
  TheFlow = "General"
  PerDay = 3
  WarnDays = 1
  CriticalDays = 2
  Grace = 2
  FirstDay = 5
  LastBusyDay = 7
  LastDay = 11
  MaxTrail = 4
  MaxRound = 1
  MaxPauses = 1
  StaleDays = 2
  ReportDays = 3
SPECIFICATION Spec
INVARIANTS
  ChargedDays
  ReportsTrue
PROPERTIES
  UndoKeepsClock
  ScansReach
CHECK_DEADLOCK FALSE
