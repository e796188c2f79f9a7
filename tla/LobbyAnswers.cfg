CONSTANTS
  w1 = w1
  w2 = w2
  l1 = l1
  l2 = l2
  admin = admin
  u1 = u1
  u2 = u2
  Workers = {w1, w2}
  Lobbies = {l1, l2}
  Users = {admin, u1}
  Owner = admin
  InitialLobbies = {l1}
  Forms <- TwoForms
  Kinds <- Locking
  NoRow = NoRow
  NoEntry = NoEntry
  Nowhere = Nowhere
  Deleted = Deleted
  NoRequest = NoRequest
  NothingPending = NothingPending
  Unwritten = Unwritten
  MaxFaults = 0
  MaxRestarts = 0
SPECIFICATION FairSpec
CHECK_DEADLOCK FALSE
PROPERTY RequestsAnswered
