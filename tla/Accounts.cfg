\* Two accounts and a session that serves two requests at a time.
CONSTANTS
  a1 = a1
  a2 = a2
  s1 = s1
  s2 = s2
  q1 = q1
  q2 = q2
  x1 = x1
  x2 = x2
  x3 = x3
  x4 = x4
  None = None
  Account <- TwoAccounts
  RoleId = {r1, r2, r3, r4}
  Trade <- OnlyManager
  Session <- OneSession
  Req <- TwoRequests
  Ref = {x1, x2, x3, x4}
SYMMETRY Symmetry
SPECIFICATION Spec
INVARIANTS TypeOK ActiveRoleIsHeld NewRolesAreUsable
PROPERTIES OnlyOwnRowsArePermitted OwnRowsAreNotRefused
