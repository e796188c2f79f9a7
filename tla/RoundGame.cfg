CONSTANTS
  p1 = p1
  p2 = p2
  p3 = p3
  retail = retail
  factory = factory
  Players = {p1, p2, p3}
  Nil = Nil
  Chain <- Chain3
  Classes = {retail, factory}
  NoClass = NoClass
  ClassMaps <- NoMaps
  InitialClasses <- Classes1
  SettingsChoices <- Game2
  SettingsUpdates <- NoUpdates
  StartMoney <- Money6
  StartMagazine <- Stock2
  IncomingStart <- Incoming2
  RequestedStart <- Requested2
  InitialDemand = 0
  InitialSupply = 0
  EventsList <- Bonuses
  OrderValues = {1, 4}
  OrderCosts = {1}
  NoOrder = NoOrder
  NoSnapshot = NoSnapshot
  Impatient = {}
  MaxExtra = 0
  MaxFaults = 1
SPECIFICATION FairSpec
CHECK_DEADLOCK FALSE
INVARIANT FinishedCountsOrders
INVARIANT PipelineIsStack
INVARIANT SingleFinisher
INVARIANT RowsMatchRounds
INVARIANT NeverPastMaxRounds
INVARIANT StockSettled
INVARIANT OffRecordUnpaid
INVARIANT HangsForAReason
PROPERTY GameEndIsFinal
PROPERTY BarrierSpec
PROPERTY RoundProgress
