SPECIFICATION Spec
CONSTANTS
  p1 = p1 p2 = p2 k1 = k1 ann = ann bob = bob
  backlog = backlog done = done admin = admin member = member
  Nil = Nil Bad = Bad NoRow = NoRow NoJob = NoJob NoReply = NoReply
  Procs = {p1, p2} Keys = {k1} Emails = {ann, bob}
  Statuses = {backlog, done} Labels = {admin, member}
  Window = 1
  Calls <- MCCalls MaxCalls = 3 MaxTime = 2
SYMMETRY ProcSymmetry
INVARIANT StoresWhatTheTableStores
