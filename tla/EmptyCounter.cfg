SPECIFICATION FreshBankSpec
CONSTANTS
    p1 = p1
    n1 = n1
    n2 = n2
    None = None
    Empty = Empty
    Procs = {p1}
    Programs = {"creation"}
    Names = {n1, n2}
    IdLimit = 4
    BalanceLimit = 4
    Amounts = {1}
    Orders <- AnyPair
    Pressure = FALSE
    MayCrash = TRUE
    OpeningBook <- NoAccounts
    OpeningLog <- NoEntries
    OpeningCounter <- Unused
INVARIANTS
    AddedMeansWritten
