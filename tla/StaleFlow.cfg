\* A late field edit changes the flow of a coded ticket.
CONSTANTS
  System = System
  NoOne = NoOne
  NA = NA
  Ticket = {t1}
  Applicant = {alice}
  Dcc1 = {dana, dora}
  Dcc2 = {dirk}
  Dcc3 = {drew}
  Numbers = {n1}
  MaxRound = 0
  MaxInFlight = 2
SPECIFICATION Spec
SYMMETRY UserSymmetry
INVARIANTS
  CodeEncodesFlow
