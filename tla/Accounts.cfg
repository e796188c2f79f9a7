SPECIFICATION Spec
CONSTANTS
  i1 = i1
  n1 = n1
  p1 = p1
  Workers = {w1, w2}
  Ids = {i1, i2, i3}
  Names = {n1, n2}
  Passwords = {p1, p2, none}
  Empty = none
  InitialUsers <- OneAdmin
  Kinds = {"Create", "Register", "Password", "Delete", "Login"}
  NoRow = NoRow
  NoRequest = NoRequest
  NoAnswer = NoAnswer
  MaxRequests = 3
  MaxFaults = 1
SYMMETRY Symmetry
INVARIANT UniqueNames
INVARIANT RefusedIfTaken
INVARIANT TokensMatch
CHECK_DEADLOCK FALSE
