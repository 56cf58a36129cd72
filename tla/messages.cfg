SPECIFICATION Spec
CONSTANTS
  Calls = {c1, c2, c3, c4}
  Person = {ana, boss}
  Deleters = {boss}
  Report = {report}
  MaxInFlight = 3
  MaxAttempts = 2
  EventualReads = TRUE
  Undefined = Undefined
SYMMETRY CallSymmetry
INVARIANTS
  TypeOK
  ContentIntact
  ReadMeansOpened
  UnreadAgainOnlyByRepeat
  BackOnlyFromCopies
  AnswersAreHonest
