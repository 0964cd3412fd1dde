SPECIFICATION WebSpec
CONSTANTS
  System = System
  NoOne = NoOne
  Card = {c1, c2}
  MaxMoves = 2
  Ids = {1, 2, 3}
  Narrow = {1, 3}
  PageSize = 1
  LastInstant = 2
  MaxCalls = 2
  MaxBack = 1
  BellLoads = 2
  BellLimit = 2
  MaxNews = 2
  MaxLosses = 1
  Keep = 2
  MaxDumps = 3
  MaxWipes = 1
  MaxRows = 2
  Own = {o1, o2}
  Fixing = {o2}
  MaxEdits = 1
  MaxMisses = 1
  MaxSteps = 2
  MaxLoads = 1
  Extra = {"Annex"}
  Window = 0
  MaxTickets = 2
  MaxDrafts = 2
  MaxDays = 1
  MaxTyped = 2
  MaxLost = 1
  Stations = 2
  MostDays = 2
  Host = {"h1"}
  Secret = {"x"}
  Blank = Blank
  EnvHost = "env"
  EnvPass = "envpass"
  MaxTypes = 2
  MaxBad = 1
  Item = {"t1", "p1", "p2", "n1"}
  FirstTypes = {"t1"}
  FirstTeams = {"p1", "p2"}
  FirstCurrencies = {}
  Label = {"x"}
  MaxClicks = 2
  MaxStrange = 1
  MaxSnags = 1
  File = {"f1", "f2"}
  Crowd = {"ReceivedByDcc2"}
  Number = {"n1", "n2"}
  Nobody = Nobody
  MaxTaps = 2
  MaxOthers = 1
  MaxDrops = 1
INVARIANTS
  BulkSound
  NothingSkipped
  BellSound
  BackupsSound
  FormsHold
  ShownIsStored
  DeskSound
PROPERTIES
  FormsSurvive
  SettingsSound
CHECK_DEADLOCK FALSE
