CONSTANTS
  User = {u1, u2}
  Email = {a, b}
  Link = {l1, l2}
  Call = {c1}
  NoUser = NoUser
  NoEmail = NoEmail
  NoLink = NoLink
  MaxVersion = 0
SPECIFICATION Spec
PROPERTIES
  WorkerSparesVerified
CHECK_DEADLOCK FALSE
