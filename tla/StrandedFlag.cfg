\* The reconcile flag outlives the receipt it was raised at.
CONSTANTS
  System = System
  NoOne = NoOne
  NA = NA
  Ticket = {t1}
  Applicant = {alice}
  Dcc1 = {dana, dora}
  Dcc2 = {dirk}
  Dcc3 = {drew}
  Numbers = {n1}
  MaxRound = 1
  MaxInFlight = 1
SPECIFICATION Spec
SYMMETRY UserSymmetry
INVARIANTS
  FlagOnlyAtHandover
