CONSTANTS
  p1 = p1
  p2 = p2
  p3 = p3
  retail = retail
  factory = factory
  Players = {p1, p2}
  Nil = Nil
  Chain <- Chain2
  Classes = {retail, factory}
  NoClass = NoClass
  ClassMaps <- NoMaps
  InitialClasses <- Classes1
  SettingsChoices <- Game2
  SettingsUpdates <- NoUpdates
  StartMoney <- Money6
  StartMagazine <- Stock2
  IncomingStart <- Incoming2
  RequestedStart <- Requested2
  InitialDemand = 0
  InitialSupply = 0
  EventsList <- Subsidies
  OrderValues = {1}
  OrderCosts = {1}
  NoOrder = NoOrder
  NoSnapshot = NoSnapshot
  Impatient = {p1}
  MaxExtra = 1
  MaxFaults = 0
SPECIFICATION Spec
CHECK_DEADLOCK FALSE
INVARIANT OrdersExpected
