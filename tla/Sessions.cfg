SPECIFICATION FairSpec
CONSTANTS
  l1 = l1
  Connections = {c1}
  Users = {u1, u2}
  Lobbies = {l1}
  InitialMembers <- AllInFirst
  Capacity = 2
  Nowhere = Nowhere
  NoUser = NoUser
  Everyone = Everyone
  MaxNews = 1
  MaxOrders = 1
  MaxFaults = 1
INVARIANT TypeOK
INVARIANT NoGaps
INVARIANT AnswersArrive
PROPERTY OrdersAnswered
PROPERTY EverybodyKicked
PROPERTY CloseLeaves
CHECK_DEADLOCK FALSE
