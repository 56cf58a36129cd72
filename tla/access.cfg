SPECIFICATION Spec
CONSTANTS
  root = root
  ana = ana
  b1 = b1
  b2 = b2
  Calls = {c1, c2, c3}
  Browser = {b1, b2}
  Username = {root, ana}
  Group = {Admins}
  ADMINS = Admins
  Directory <- Accounts
  SignedIn <- Sessions
  MaxInFlight = 3
  Undefined = Undefined
SYMMETRY CallSymmetry
INVARIANTS
  TypeOK
  SessionsAreFromLogins
  CookiesAreKept
  LogoutEndsSession
  ChangesByAdmins
  LogMatchesChanges
  PicturesAnnounced
