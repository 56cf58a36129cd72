SPECIFICATION FairSpec
CONSTANTS
  ana = ana
  boss = boss
  adm = adm
  n1 = n1
  n2 = n2
  Calls = {c1, c2}
  User = {ana, boss, adm}
  Admins = {adm}
  Managers = {}
  TicksPerDay = 2
  Periods <- ShortPeriods
  Totals <- ConcurrentTotals
  NodeId = {n1, n2}
  ROOT = ROOT
  Trees <- TwoTrees
  NoSupervisor = NoSupervisor
  Before = Before
  Undefined = Undefined
  MaxInFlight = 3
  EventualReads = TRUE
  PageSize = 4
PROPERTIES
  EveryCallIsAnswered
