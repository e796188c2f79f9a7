SPECIFICATION Spec
CONSTANTS
  l1 = l1
  two = two
  fair = fair
  Workers = {w1, w2}
  Templates = {t1, t2}
  Lobbies = {l1, l2}
  Admins = {a1}
  Owners = {a1, a2}
  Limits = {two, four}
  Setups = {fair, steep}
  InitialLobbies <- OneLobby
  NoRow = NoRow
  NoRequest = NoRequest
  NoAnswer = NoAnswer
  MaxRequests = 3
  MaxChanges = 2
SYMMETRY Symmetry
INVARIANT CopiesAreWhole
INVARIANT GoneForGood
CHECK_DEADLOCK FALSE
