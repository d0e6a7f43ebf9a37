SPECIFICATION FreshBankSpec
CONSTANTS
    p1 = p1
    n1 = n1
    None = None
    Empty = Empty
    Procs = {p1}
    Programs = {"creation", "transfer"}
    Names = {n1}
    IdLimit = 5
    BalanceLimit = 4
    Amounts = {1}
    Orders <- DifferentPair
    Pressure = FALSE
    MayCrash = FALSE
    OpeningBook <- NoAccounts
    OpeningLog <- NoEntries
    OpeningCounter <- Unused
PROPERTIES
    TransfersAreAfforded
