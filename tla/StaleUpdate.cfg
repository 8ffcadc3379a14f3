SPECIFICATION Spec
CONSTANTS
  p1 = p1 p2 = p2 p3 = p3
  k1 = k1 k2 = k2 lock = lock
  u1 = u1 u2 = u2
  text = text text2 = text2 done = done
  Nil = Nil Bad = Bad NoRow = NoRow NoJob = NoJob NoReply = NoReply
  Keys = {k1, k2} LockIds = {lock} HashText <- MCHashText
  Texts = {text, text2} Statuses = {backlog, done} Backlog = backlog
  Procs = {p1, p2} Users = {u1}
  Window = 1 Skew = 0 PoolSize = 2
  Calls <- WriteCalls MaxCalls = 4 MaxTime = 1
SYMMETRY ProcSymmetry
PROPERTY OnlyAssignAssigns
