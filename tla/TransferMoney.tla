--------------------------- MODULE TransferMoney ----------------------------
(***************************************************************************)
(* TRANSFER-MONEY: two accounts are read into buffers, the amount is       *)
(* asked for, both are written back from the buffers, and the transfer is  *)
(* written to the journal.                                                 *)
(***************************************************************************)
EXTENDS BankFiles

TransferOpen(p) == OpenAccounts(p, "t_open", "t_make", "t_source")
TransferMake(p) == CreateAccounts(p, "t_make", "t_source")

\* ACCEPT of the source and READ; the run ends if there is no such account.
ReadSource(p) ==
    /\ At(p, "t_source")
    /\ \E order \in Orders :
         \/ /\ View(p)[order[1]] # None
            /\ Use(p)
            /\ record' = [record EXCEPT ![p] = ToBuffer(View(p), order[1])]
            /\ Goto(p, "t_destination")
            /\ UNCHANGED <<logPage, number, peer, amount>>
         \/ View(p)[order[1]] = None /\ StopRun(p)
    /\ UNCHANGED <<files, locks>>

\* A slip to detect: the record area is used whether READ found it or not.
ReadDestinationUnchecked(p) ==
    /\ At(p, "t_destination")
    /\ \E order \in Orders :
         /\ order[1] = record[p].id
         /\ Use(p)
         /\ peer' = [peer EXCEPT ![p] =
              IF View(p)[order[2]] # None THEN ToBuffer(View(p), order[2])
              ELSE [record[p] EXCEPT !.id = order[2]]]
         /\ Goto(p, "t_debit")
    /\ UNCHANGED <<files, locks, logPage, number, record, amount>>

\* ACCEPT of the destination and READ, in the same way.
ReadDestination(p) ==
    /\ At(p, "t_destination")
    /\ \E order \in Orders :
         /\ order[1] = record[p].id
         /\ \/ /\ View(p)[order[2]] # None
               /\ Use(p)
               /\ peer' = [peer EXCEPT ![p] = ToBuffer(View(p), order[2])]
               /\ Goto(p, "t_debit")
               /\ UNCHANGED <<logPage, number, record, amount>>
            \/ View(p)[order[2]] = None /\ StopRun(p)
    /\ UNCHANGED <<files, locks>>

\* p's page with the account of buffer b replaced.
Rewritten(p, b) == [View(p) EXCEPT ![b.id] = FromBuffer(b)]

\* ACCEPT of the amount, SUBTRACT in the buffer and REWRITE of the source.
\* If the account is gone the debit fails and the run ends.
Debit(p) ==
    /\ At(p, "t_debit")
    /\ \E a \in Amounts :
         LET debited == Plus(record[p], -a) IN
         \/ /\ View(p)[record[p].id] # None
            /\ record' = [record EXCEPT ![p] = debited]
            /\ amount' = [amount EXCEPT ![p] = a]
            /\ Change(p, Rewritten(p, debited))
            /\ Goto(p, "t_credit")
            /\ UNCHANGED <<logPage, number, peer>>
         \/ View(p)[record[p].id] = None /\ StopRun(p)
    /\ UNCHANGED <<files, locks>>

\* A slip to detect: REWRITE comes before ADD.
CreditLate(p) ==
    /\ At(p, "t_credit")
    /\ View(p)[peer[p].id] # None
    /\ Change(p, Rewritten(p, peer[p]))
    /\ peer' = [peer EXCEPT ![p] = Plus(peer[p], amount[p])]
    /\ Goto(p, "j_open")
    /\ UNCHANGED <<files, locks, logPage, number, record, amount>>

\* ADD in the buffer and REWRITE of the destination.  A credit that fails
\* is displayed and the run goes on.
Credit(p) ==
    /\ At(p, "t_credit")
    /\ LET credited == Plus(peer[p], amount[p]) IN
         /\ peer' = [peer EXCEPT ![p] = credited]
         /\ \/ View(p)[peer[p].id] # None /\ Change(p, Rewritten(p, credited))
            \/ View(p)[peer[p].id] = None /\ Use(p)
    /\ Goto(p, "j_open")
    /\ UNCHANGED <<files, locks, logPage, number, record, amount>>

JournalOpen(p) == OpenTransactions(p, "j_open", "j_make", "t_count")
JournalMake(p) == CreateTransactions(p, "j_make", "t_count")

TransferCounter(p) ==
    OpenCounter(p, "transactions", "t_count", "t_new", "t_read")
TransferCounterNew(p) == CreateCounter(p, "transactions", "t_new", "t_zero")
TransferCounterZero(p) == ZeroCounter(p, "transactions", "t_zero", "t_count")

TransferRead(p) ==
    ReadCounter(p, "transactions", "t_read", "t_rewrite", "t_write")
TransferRewrite(p) ==
    RewriteCounter(p, "transactions", "t_rewrite", "t_write")

\* The record written to the journal.
Transaction(p) ==
    [source |-> record[p].id, destination |-> peer[p].id,
     amount |-> amount[p]]

\* WRITE fails when the journal has the ID already, which nothing tests.
WriteTransaction(p) ==
    /\ At(p, "t_write")
    /\ \/ /\ journal[number[p]] = None
          /\ logPage' = [logPage EXCEPT
                ![p] = [journal EXCEPT ![number[p]] = Transaction(p)]]
       \/ journal[number[p]] # None /\ UNCHANGED logPage
    /\ Goto(p, "t_close")
    /\ UNCHANGED <<files, locks, page, dirty, storage>>

TransferClose(p) ==
    /\ At(p, "t_close")
    /\ WriteBack(p)
    /\ page' = [page EXCEPT ![p] = None]
    /\ Goto(p, "j_close")
    /\ UNCHANGED <<journal, locks, logPage, storage>>

JournalClose(p) ==
    /\ At(p, "j_close")
    /\ journal' = IF logPage[p] # None THEN logPage[p] ELSE journal
    /\ logPage' = [logPage EXCEPT ![p] = None]
    /\ Goto(p, "t_end")
    /\ UNCHANGED <<accounts, locks, page, dirty, storage>>

\* CLOSE of the counter, STOP RUN.
TransferEnd(p) ==
    /\ At(p, "t_end")
    /\ StopRun(p)
    /\ holder' = Unlocked(p)
    /\ UNCHANGED <<files, counter>>

TransferStep(p) ==
    \/ TransferOpen(p) \/ TransferMake(p)
    \/ ReadSource(p) \/ ReadDestination(p) \/ Debit(p) \/ Credit(p)
    \/ JournalOpen(p) \/ JournalMake(p)
    \/ TransferCounter(p) \/ TransferCounterNew(p) \/ TransferCounterZero(p)
    \/ TransferRead(p) \/ TransferRewrite(p) \/ WriteTransaction(p)
    \/ TransferClose(p) \/ JournalClose(p) \/ TransferEnd(p)
=============================================================================
