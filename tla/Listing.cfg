SPECIFICATION Spec
CONSTANTS
  u1 = u1 backlog = backlog done = done lower = lower garbage = garbage
  Nil = Nil Bad = Bad NoRow = NoRow NoReply = NoReply
  Ids = {1, 2, 3} Times = {1, 2} Statuses = {backlog, done} Users = {u1}
  Spellings = {lower, garbage} ParseTaskStatus <- MCParse
  DefaultPage = 1 DefaultLimit = 2 MaxLimit = 3 MaxInt = 31 MaxOffset = 7
  Queries <- MCQueries MaxWrites = 5
INVARIANT TypeOK
INVARIANT IInv
INVARIANT WalksMissFew
INVARIANT WalksRepeatFew
INVARIANT NothingPastTheEnd
