SPECIFICATION BankSpec
CONSTANTS
    p1 = p1
    p2 = p2
    n1 = n1
    None = None
    Empty = Empty
    Procs = {p1, p2}
    Programs = {"transfer"}
    Names = {n1}
    IdLimit = 5
    BalanceLimit = 4
    Amounts = {1}
    Orders <- DifferentPair
    Pressure = FALSE
    MayCrash = FALSE
    OpeningBook <- TwoAccounts
    OpeningLog <- OneEntry
    OpeningCounter <- Used
INVARIANTS
    Reconciled
