\* A second light return of one round sends no email.
CONSTANTS
  System = System
  NoOne = NoOne
  NA = NA
  Ticket = {t1}
  Applicant = {alice}
  Dcc1 = {dana, dora}
  Dcc2 = {dirk}
  Dcc3 = {drew}
  Numbers = {n1}
  MaxRound = 0
  MaxInFlight = 1
SPECIFICATION Spec
SYMMETRY UserSymmetry
PROPERTIES
  ReturnedAlwaysMails
