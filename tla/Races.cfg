\* One ticket, every flow, two DCC1 users, two requests in flight at once.
CONSTANTS
  System = System
  NoOne = NoOne
  NA = NA
  Ticket = {t1}
  Applicant = {alice}
  Dcc1 = {dana, dora}
  Dcc2 = {dirk}
  Dcc3 = {drew}
  Numbers = {n1}
  MaxRound = 1
  MaxInFlight = 2
SPECIFICATION Spec
SYMMETRY UserSymmetry
INVARIANTS
  TypeOK
  FlagBlocksReceipt
  NeverStranded
  CodeBeyondPool
  RoundZeroNumberless
  HolderFits
