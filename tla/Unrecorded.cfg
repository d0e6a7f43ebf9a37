SPECIFICATION FreshBankSpec
CONSTANTS
    p1 = p1
    n1 = n1
    None = None
    Empty = Empty
    Procs = {p1}
    Programs = {"creation", "transfer"}
    Names = {n1}
    IdLimit = 4
    BalanceLimit = 4
    Amounts = {1, 2}
    Orders <- AnyPair
    Pressure = FALSE
    MayCrash = TRUE
    OpeningBook <- NoAccounts
    OpeningLog <- NoEntries
    OpeningCounter <- Unused
INVARIANTS
    ReportedMeansRecorded
