SPECIFICATION FairBankSpec
CONSTANTS
    p1 = p1
    p2 = p2
    p3 = p3
    n1 = n1
    n2 = n2
    None = None
    Empty = Empty
    Procs = {p1, p2, p3}
    Programs = {"creation", "list", "search"}
    Names = {n1, n2}
    IdLimit = 6
    BalanceLimit = 4
    Amounts = {1}
    Orders <- AnyPair
    Pressure = TRUE
    MayCrash = TRUE
    OpeningBook <- TwoAccounts
    OpeningLog <- OneEntry
    OpeningCounter <- Used
PROPERTIES
    AccountsKept
    EveryRunEnds
