SPECIFICATION FairGameSpec
CONSTANTS
    NumPorts = 2
    NumGoods = 2
    StartMoney = 2
    FuelCost = 1
    BasePrice <- TwoGoods
    Scale = 1
    MoneyCap = 8
    CostCap = 8
    PriceCap = 16
    CargoCap = 2
    RandomSteps = 2
    Draws = {0}
    Quantities = {0, 1}
    NumSlots = 2
    NoFile = NoFile
    Torn = Torn
INVARIANTS
    GameTypeOK
    CountMatchesVisited
    OutcomeJustified
    SavesArePlayable
    EverySaveIsOffered
PROPERTIES
    ImplementsCheckpoints
    EndOfInputSettles
    EndOfInputShortens
