SPECIFICATION Spec
CONSTANTS
  Id = {na, nb, nc, nd}
  ROOT = ROOT
  Undefined = Undefined
INVARIANTS
  IsAncestorAgrees
  LevelOfAgrees
  TreeShowsAll
  ReparentGuardsExact
