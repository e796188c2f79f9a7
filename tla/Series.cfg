SPECIFICATION Spec
CONSTANTS
  Users = {u1, u2, u3}
  Movers = {u2, u3}
  Nil = Nil
  NoOrder = NoOrder
  NoClone = NoClone
  MaxRounds = 2
  MaxGames = 2
  MaxRestarts = 1
  MaxFaults = 1
SYMMETRY Symmetry
CONSTRAINT Followed
INVARIANT TypeOK
INVARIANT RoundsComplete
 
INVARIANT RoundsClose
 
CHECK_DEADLOCK FALSE
