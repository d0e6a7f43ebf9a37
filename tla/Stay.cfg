SPECIFICATION VoyageSpec
CHECK_DEADLOCK FALSE
CONSTANTS
    NumPorts = 3
    NumGoods = 2
    StartMoney = 5
    FuelCost = 2
    BasePrice <- TwoGoods
    Scale = 2
    MoneyCap = 8
    CostCap = 4
    PriceCap = 100
    CargoCap = 3
    RandomSteps = 10
    Draws = {5, 9}
    Quantities = {0, 1, 2}
    MaxPurchases = 2
INVARIANTS
    ScreenTypeOK
    CountMatchesVisited
    OutcomeJustified
    EveryArrivalHasItsTank
    OnlyCentsAreEarnedInPort
PROPERTIES
    TradesAtPostedPrice
