SPECIFICATION Spec
CONSTANTS
  ana = ana
  boss = boss
  adm = adm
  n1 = n1
  n2 = n2
  Calls = {c1, c2, c3}
  User = {ana, boss, adm}
  Admins = {adm}
  Managers = {}
  TicksPerDay = 2
  Periods <- ConcurrentPeriods
  Totals <- ConcurrentTotals
  NodeId = {n1, n2}
  ROOT = ROOT
  Trees <- OneTree
  NoSupervisor = NoSupervisor
  Before = Before
  Undefined = Undefined
  MaxInFlight = 3
  EventualReads = TRUE
  PageSize = 1
SYMMETRY CallSymmetry
INVARIANTS
  TypeOK
  AuditIsTrue
  StatusIsAccountedFor
  AnswersAreHonest
  VersionsAgree
  ChargedDaysExact
PROPERTIES
  OutcomesLostOnlyLate
