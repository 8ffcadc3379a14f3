SPECIFICATION Spec
CONSTANTS
  p1 = p1 p2 = p2 ada = ada ben = ben
  admin = admin member = member retired = retired
  Nil = Nil Bad = Bad NoJob = NoJob NoReply = NoReply
  Procs = {p1, p2} Users = {ada, ben} Founders = {ada}
  Roles = {admin, member, retired} ActiveRoles = {admin, member}
  Admin = admin Member = member
  TTL = 2
  Calls <- RoleCalls MaxCalls = 3 MaxTime = 2
SYMMETRY ProcSymmetry
INVARIANT MeIsFoundOrUnauthorized
