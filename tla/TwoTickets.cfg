\* Two tickets compete for codes.
CONSTANTS
  System = System
  NoOne = NoOne
  NA = NA
  Ticket = {t1, t2}
  Applicant = {alice}
  Dcc1 = {dana}
  Dcc2 = {dirk}
  Dcc3 = {drew}
  Numbers = {n1}
  MaxRound = 1
  MaxInFlight = 1
SPECIFICATION Spec
SYMMETRY TicketSymmetry
CONSTRAINT CodesAlone
INVARIANTS
  NumberingContiguous
