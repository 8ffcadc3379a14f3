SPECIFICATION Spec
CONSTANTS
  p1 = p1 p2 = p2 p3 = p3
  ann = ann bob = bob long = long old = old new = new
  Nil = Nil Bad = Bad NoRow = NoRow NoJob = NoJob NoReply = NoReply
  Emails = {ann, bob, long} LongEmails = {long} Passwords = {old, new}
  Procs = {p1, p2}
  Calls <- AccountCalls MaxCalls = 5
SYMMETRY ProcSymmetry
INVARIANT EmailsUnique
INVARIANT IInv
PROPERTY ConflictsAreReal
PROPERTY LifeCycle
INVARIANT TypeOK
