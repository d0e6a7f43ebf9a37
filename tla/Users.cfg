SPECIFICATION BankSpec
CONSTANTS
    p1 = p1
    p2 = p2
    n1 = n1
    None = None
    Empty = Empty
    Procs = {p1, p2}
    Programs = {"deletion", "transfer"}
    Names = {n1}
    IdLimit = 4
    BalanceLimit = 3
    Amounts = {1}
    Orders <- DifferentPair
    Pressure = FALSE
    MayCrash = TRUE
    OpeningBook <- FullAndEmpty
    OpeningLog <- OneEntry
    OpeningCounter <- Used
INVARIANTS
    MoneyConserved
    DebitThenCredit
    TransfersRecorded
PROPERTIES
    JournalKept
