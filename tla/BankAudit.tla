------------------------------ MODULE BankAudit -----------------------------
(* What the balances add up to.                                            *)
EXTENDS Bank, Functions

\* The journal's effect on account i.  A transfer from an account to itself
\* adds to it, as the code does.
Effect(entry, i) ==
    IF entry = None THEN 0
    ELSE IF entry.destination = i THEN entry.amount
    ELSE IF entry.source = i THEN -entry.amount ELSE 0

Net(log, i) == SumFunctionOnSet([t \in Ids |-> Effect(log[t], i)], Ids)

OpeningBalance(i) ==
    IF OpeningBook[i] = None THEN 0 ELSE OpeningBook[i].balance

\* What the journal makes of the opening balance of account i.
Booked(log, i) == OpeningBalance(i) - Net(OpeningLog, i) + Net(log, i)

\* While no process runs, every balance is what the journal makes of it, but
\* for the digits its field has no room for (transfer-money.cbl:93-157).
Reconciled ==
    (\A p \in Procs : pc[p] = "idle") =>
        \A i \in Ids : OnDisk(accounts, EmptyBook)[i] # None =>
            (accounts[i].balance - Booked(OnDisk(journal, EmptyLog), i))
                % BalanceLimit = 0

Balance(account) == IF account = None THEN 0 ELSE account.balance
Total(book) == SumFunctionOnSet([i \in Ids |-> Balance(book[i])], Ids)

\* No account the bank opened with is missing.
Complete(book) == \A i \in Ids : OpeningBook[i] # None => book[i] # None

\* Transfers neither create nor lose money, however many run at once, are
\* killed, or bring back an account deleted meanwhile: while no account is
\* missing from the file, it holds what it held.  A balance that overflows
\* loses BalanceLimit, the weight of the digit its field has no room for, and
\* nothing else does (transfer-money.cbl:94, 105).
MoneyConserved ==
    Complete(accounts) =>
        (Total(accounts) - Total(OpeningBook)) % BalanceLimit = 0
=============================================================================
