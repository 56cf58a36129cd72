SPECIFICATION Spec
CONSTANTS
  ana = ana
  boss = boss
  adm = adm
  n1 = n1
  n2 = n2
  Calls = {c1, c2, c3}
  User = {ana, adm}
  Admins = {adm}
  Managers = {}
  TicksPerDay = 2
  Periods <- ShortPeriods
  Totals = {1, 2}
  NodeId = {n1, n2}
  ROOT = ROOT
  Trees <- NoTree
  NoSupervisor = NoSupervisor
  Before = Before
  Undefined = Undefined
  MaxInFlight = 3
  EventualReads = TRUE
  PageSize = 4
SYMMETRY CallSymmetry
INVARIANTS
  ReadsStillHold
PROPERTIES
  ImplementsLedger
  OverdrawnOnlyByAssignment
