\* A ticket is taken in while another DCC1 holds it.
CONSTANTS
  System = System
  NoOne = NoOne
  NA = NA
  Ticket = {t1}
  Applicant = {alice}
  Dcc1 = {dana, dora}
  Dcc2 = {dirk}
  Dcc3 = {drew}
  Numbers = {n1}
  MaxRound = 0
  MaxInFlight = 2
SPECIFICATION Spec
SYMMETRY UserSymmetry
PROPERTIES
  TakenByLockHolder
