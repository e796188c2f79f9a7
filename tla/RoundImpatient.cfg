CONSTANTS
  p1 = p1
  p2 = p2
  p3 = p3
  retail = retail
  factory = factory
  Players = {p1, p2}
  Nil = Nil
  Chain <- Chain2
  Classes = {retail, factory}
  NoClass = NoClass
  ClassMaps <- OneMap
  InitialClasses <- Classes1
  SettingsChoices <- Game2
  SettingsUpdates <- Game3
  StartMoney <- Money6
  StartMagazine <- Stock2
  IncomingStart <- TwoEach
  RequestedStart <- TwoEach
  InitialDemand = 0
  InitialSupply = 0
  EventsList <- Subsidies
  OrderValues = {1}
  OrderCosts = {1}
  NoOrder = NoOrder
  NoSnapshot = NoSnapshot
  Impatient = {p1, p2}
  MaxExtra = 2
  MaxFaults = 0
SPECIFICATION Spec
CHECK_DEADLOCK FALSE
INVARIANT TypeOK
INVARIANT BooksBalance
