SPECIFICATION BankSpec
CONSTANTS
    p1 = p1
    n1 = n1
    None = None
    Empty = Empty
    Procs = {p1}
    Programs = {"transfer"}
    Names = {n1}
    IdLimit = 4
    BalanceLimit = 4
    Amounts = {1}
    Orders <- AnyPair
    Pressure = FALSE
    MayCrash = FALSE
    OpeningBook <- TwoAccounts
    OpeningLog <- OneEntry
    OpeningCounter <- Used
INVARIANTS
    MoneyConserved
