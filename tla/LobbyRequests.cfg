CONSTANTS
  w1 = w1
  w2 = w2
  l1 = l1
  l2 = l2
  admin = admin
  u1 = u1
  u2 = u2
  Workers = {w1, w2}
  Lobbies = {l1}
  Users = {admin, u1, u2}
  Owner = admin
  InitialLobbies = {}
  Forms <- OneForm
  Kinds <- AllKinds
  NoRow = NoRow
  NoEntry = NoEntry
  Nowhere = Nowhere
  Deleted = Deleted
  NoRequest = NoRequest
  NothingPending = NothingPending
  Unwritten = Unwritten
  MaxFaults = 1
  MaxRestarts = 1
SPECIFICATION Spec
CHECK_DEADLOCK FALSE
SYMMETRY Alike
INVARIANT TypeOK
INVARIANT MembersPlay
INVARIANT StartedHasEntry
INVARIANT CirclesHaveEntrants
PROPERTY RosterSpec
