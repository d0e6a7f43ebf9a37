SPECIFICATION BankSpec
CONSTANTS
    p1 = p1
    p2 = p2
    n1 = n1
    None = None
    Empty = Empty
    Procs = {p1, p2}
    Programs = {"creation", "deletion", "transfer"}
    Names = {n1}
    IdLimit = 5
    BalanceLimit = 2
    Amounts = {1}
    Orders <- FirstToSecond
    Pressure = TRUE
    MayCrash = FALSE
    OpeningBook <- TwoAccounts
    OpeningLog <- OneEntry
    OpeningCounter <- UsedWithGap
INVARIANTS
    AccountsBehindCounter
    NumbersAreFresh
