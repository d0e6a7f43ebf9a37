---------------------------- MODULE BankQueries -----------------------------
(* ACCOUNT-LIST, SEARCH-ACCOUNT-BALANCE and HISTORY-LIST.  They display     *)
(* and write nothing; but they open their file I-O and create it.           *)
EXTENDS BankFiles

ListOpen(p) == OpenAccounts(p, "l_open", "l_make", "l_read")
ListMake(p) == CreateAccounts(p, "l_make", "l_read")

SearchOpen(p) == OpenAccounts(p, "s_open", "s_make", "s_read")
SearchMake(p) == CreateAccounts(p, "s_make", "s_read")

HistoryOpen(p) == OpenTransactions(p, "h_open", "h_make", "h_read")
HistoryMake(p) == CreateTransactions(p, "h_make", "h_read")

\* The records are read and displayed, the file is closed, STOP RUN.
Display(p, here) ==
    /\ At(p, here)
    /\ StopRun(p)
    /\ UNCHANGED <<files, locks>>

ListAccounts(p) == Display(p, "l_read")
SearchBalance(p) == Display(p, "s_read")
ListHistory(p) == Display(p, "h_read")

QueryStep(p) ==
    \/ ListOpen(p) \/ ListMake(p) \/ ListAccounts(p)
    \/ SearchOpen(p) \/ SearchMake(p) \/ SearchBalance(p)
    \/ HistoryOpen(p) \/ HistoryMake(p) \/ ListHistory(p)
=============================================================================
