SPECIFICATION Spec
CONSTANTS
  na = na
  nb = nb
  ua = ua
  ub = ub
  uc = uc
  Calls = {c1, c2}
  Existing = {na, nb}
  User = {ua, ub, uc}
  Trees <- TwoNodeTrees
  MaxInFlight = 2
  EventualReads = FALSE
  ROOT = ROOT
  Undefined = Undefined
SYMMETRY CallSymmetry
INVARIANTS
  NoCycle
