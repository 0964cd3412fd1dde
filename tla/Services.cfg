SPECIFICATION ServicesSpec
CONSTANTS
  Intent = {i1, i2}
  Reminder = {i2}
  MaxAttempts = 2
  MaxMishaps = 2
  Process = {p1, p2}
  Person = {u1}
  DigestAttempts = 2
  MaxTrouble = 2
  Sid = {s1, s2}
  MaxRotations = 2
  MaxOutages = 2
  Sub = {ssa, u1, u2}
  Managers = {ssa, u1}
  LocalAdmin = ssa
  ByEmail = {}
  DccRoles = {"DCC1"}
  MaxChanges = 3
  TypeValue = {v1, v2}
  Builtin = {v1}
  Doc = {d1}
  Row = {r1, r2}
  NoText = NoText
  ViewLoad = {l1, l2}
  MaxCommits = 2
  MaxBreaks = 1
  Cookie = {c1}
  MaxEndings = 2
INVARIANTS
  ServicesTypeOK
  CopiesExplained
  DigestOnce
  TokenSpentOnce
  OneRoleInOneGroup
  FlowAgrees
  NoOrphans
PROPERTIES
  KeepsPromise
  DigestSettles
  EndedStaysEnded
  OffboardingHolds
  LastAdminFallsToARace
  RevocationTakesEffect
  LiveHolds
  ShellHolds
CHECK_DEADLOCK FALSE
