SPECIFICATION ScreenSpec
CHECK_DEADLOCK FALSE
CONSTANTS
    NumPorts = 2
    NumGoods = 1
    StartMoney = 12
    FuelCost = 4
    BasePrice <- OneGood
    Scale = 2
    MoneyCap = 24
    CostCap = 4
    PriceCap = 16
    CargoCap = 5
    RandomSteps = 2
    Draws = {0, 1}
    Quantities = {0, 1, 2, 4}
PROPERTIES
    PurchasesAreAfforded
