SPECIFICATION EitherBankSpec
CONSTANTS
    p1 = p1
    n1 = n1
    None = None
    Empty = Empty
    Procs = {p1}
    Programs <- AllPrograms
    Names = {n1}
    IdLimit = 4
    BalanceLimit = 4
    Amounts = {1}
    Orders <- AnyPair
    Pressure = FALSE
    MayCrash = TRUE
    OpeningBook <- TwoAccounts
    OpeningLog <- OneEntry
    OpeningCounter <- Used
INVARIANTS
    BankTypeOK
PROPERTIES
    ImplementsLedger
    RunsShorten
