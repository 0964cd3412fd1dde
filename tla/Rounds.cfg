\* One ticket through two heavy rounds, every flow, one request in flight.
CONSTANTS
  System = System
  NoOne = NoOne
  NA = NA
  Ticket = {t1}
  Applicant = {alice}
  Dcc1 = {dana, dora}
  Dcc2 = {dirk}
  Dcc3 = {drew}
  Numbers = {n1}
  MaxRound = 2
  MaxInFlight = 1
SPECIFICATION Spec
SYMMETRY UserSymmetry
INVARIANTS
  OutcomeMailed
  BoardsHold
PROPERTIES
  CodeImmutable
  NumbersKept
  KeepsCustody
