SPECIFICATION Spec
CONSTANTS
  None = None
  Users = {u1, u2}
  Clients = {w1, w2}
  Passwords = {p1, p2}
  GithubIds = {g}
  Codes = {c}
  Invites = {i}
  InviteLimit <- MCInviteLimit
  LoginLimit = 2
  AllowBootstrap = TRUE
  MaxChanges = 2
SYMMETRY Same
ACTION_CONSTRAINT Begun
INVARIANTS
  RolesAreGranted
  SessionsAreCurrent
CHECK_DEADLOCK FALSE
