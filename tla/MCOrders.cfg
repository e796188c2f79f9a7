CONSTANTS
  MaxUnits = 5
  Lists <- ThreeLists
  Bits = 6
  Styles <- RoundStyles
  Starts <- AllNumbers
  MaxRounds = 8
SPECIFICATION MCSpec
CHECK_DEADLOCK FALSE
INVARIANT SettleNets
INVARIANT ListDemandFreezes
INVARIANT AverageTruncates
INVARIANT EvenMultiplicationVanishes
PROPERTY DefaultNeverTurns
