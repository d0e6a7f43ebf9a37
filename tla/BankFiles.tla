----------------------------- MODULE BankFiles ------------------------------
(***************************************************************************)
(* The four files of the legacy bank, shared by any number of processes,   *)
(* and what a GnuCOBOL statement does to them.                             *)
(*                                                                         *)
(* ACCOUNTS.DAT and TRANSACTIONS.DAT are indexed files.  The run time      *)
(* keeps them in Berkeley DB and, without DB_HOME, opens them outside any  *)
(* environment: no locks, and a cache of pages private to the process.  A  *)
(* page enters the cache at its first use, statements work on the cached   *)
(* page, and a changed page is written back at CLOSE.  A file is one page  *)
(* here.  With Pressure the cache may also write a changed page or drop an *)
(* unchanged one at any time, which covers every other policy down to      *)
(* reading and writing the shared file at each statement.                  *)
(*                                                                         *)
(* ACCOUNTS-COUNTER.DAT and TRANSACTIONS-COUNTER.DAT are sequential files  *)
(* of one record.  OPEN I-O and OPEN OUTPUT lock them for the process and  *)
(* fail at once (status 61) while another holds the lock; the system       *)
(* releases the lock at CLOSE or when the process dies.  No program tests  *)
(* for 61: it goes on, and every statement on a file that is not open      *)
(* fails without effect, since each file has a FILE STATUS.                *)
(***************************************************************************)
EXTENDS BankData, FiniteSets

CONSTANTS
    Procs,      \* the processes that may run at the same time
    Programs,   \* the programs they run
    Orders,     \* the pairs of IDs typed as source and destination
    Pressure,   \* whether a cache writes and drops pages before CLOSE
    MayCrash,   \* whether a process may be killed
    Empty       \* a counter file without a record

VARIABLES
    accounts,   \* ACCOUNTS.DAT on disk, None if there is no such file
    journal,    \* TRANSACTIONS.DAT on disk, None if there is no such file
    counter,    \* what each counter file holds
    holder,     \* the process that has the lock of each counter file
    pc,         \* the statement each process is at
    page,       \* its cached page of ACCOUNTS.DAT, None if not cached
    dirty,      \* the processes whose cached page has changed
    logPage,    \* its changed page of TRANSACTIONS.DAT, None if unchanged
    number,     \* LAST-ACCOUNT-ID, LAST-TRANSACTION-ID or the ID typed
    record,     \* WS-ACCOUNT-RECORD or WS-SOURCE-ACCOUNT-DATA
    peer,       \* WS-DESTINATION-ACCOUNT-DATA
    amount      \* WS-AMOUNT

files == <<accounts, journal>>
locks == <<counter, holder>>
caches == <<page, dirty, logPage>>
storage == <<number, record, peer, amount>>
bankVars == <<files, locks, pc, caches, storage>>

Counters == {"accounts", "transactions"}

ASSUME BankProcsOK ==
    /\ IsFiniteSet(Procs) /\ None \notin Procs
    /\ Pressure \in BOOLEAN /\ MayCrash \in BOOLEAN
    /\ Orders \subseteq Ids \X Ids
    /\ Empty # None /\ Empty \notin Ids

At(p, here) == pc[p] = here
Goto(p, there) == pc' = [pc EXCEPT ![p] = there]

-----------------------------------------------------------------------------
(* Indexed files.                                                          *)

\* The accounts as p reads them.
View(p) == IF page[p] = None THEN accounts ELSE page[p]

\* p uses the page without changing it.
Use(p) == page' = [page EXCEPT ![p] = View(p)] /\ UNCHANGED dirty

\* p changes the page to b.
Change(p, b) == page' = [page EXCEPT ![p] = b] /\ dirty' = dirty \cup {p}

\* OPEN I-O of ACCOUNTS.DAT: status 35 if there is none.
OpenAccounts(p, here, missing, found) ==
    /\ At(p, here)
    /\ Goto(p, IF accounts = None THEN missing ELSE found)
    /\ UNCHANGED <<files, locks, caches, storage>>

\* OPEN OUTPUT, CLOSE, OPEN I-O of ACCOUNTS.DAT: what it held is lost.
CreateAccounts(p, here, found) ==
    /\ At(p, here)
    /\ accounts' = EmptyBook
    /\ Goto(p, found)
    /\ UNCHANGED <<journal, locks, caches, storage>>

\* OPEN I-O of TRANSACTIONS.DAT.
OpenTransactions(p, here, missing, found) ==
    /\ At(p, here)
    /\ Goto(p, IF journal = None THEN missing ELSE found)
    /\ UNCHANGED <<files, locks, caches, storage>>

\* OPEN OUTPUT, CLOSE, OPEN I-O of TRANSACTIONS.DAT.
CreateTransactions(p, here, found) ==
    /\ At(p, here)
    /\ journal' = EmptyLog
    /\ Goto(p, found)
    /\ UNCHANGED <<accounts, locks, caches, storage>>

\* CLOSE of ACCOUNTS.DAT: a changed page replaces what the disk holds.
WriteBack(p) ==
    /\ accounts' = IF p \in dirty THEN page[p] ELSE accounts
    /\ dirty' = dirty \ {p}

-----------------------------------------------------------------------------
(* Counter files.                                                          *)

\* The lock of c goes to p if nobody has it.
Lock(p, c) ==
    holder' = IF holder[c] = None THEN [holder EXCEPT ![c] = p] ELSE holder

\* OPEN I-O: status 35 if there is no file, 61 if it is locked.
OpenCounter(p, c, here, missing, found) ==
    /\ At(p, here)
    /\ \/ counter[c] = None /\ Goto(p, missing) /\ UNCHANGED holder
       \/ counter[c] # None /\ Goto(p, found) /\ Lock(p, c)
    /\ UNCHANGED <<counter, files, caches, storage>>

\* A slip to detect: the missing file is not opened for output.
CreateCounterForgotten(p, c, here, there) ==
    /\ At(p, here)
    /\ Goto(p, there)
    /\ UNCHANGED <<files, locks, caches, storage>>

\* OPEN OUTPUT: the file is emptied, whether the lock is granted or not.
CreateCounter(p, c, here, there) ==
    /\ At(p, here)
    /\ counter' = [counter EXCEPT ![c] = Empty]
    /\ Lock(p, c)
    /\ Goto(p, there)
    /\ UNCHANGED <<files, caches, storage>>

\* WRITE of 0 and CLOSE, before the file is opened again.
ZeroCounter(p, c, here, there) ==
    /\ At(p, here)
    /\ IF holder[c] = p
         THEN /\ counter' = [counter EXCEPT ![c] = 0]
              /\ holder' = [holder EXCEPT ![c] = None]
         ELSE UNCHANGED locks
    /\ Goto(p, there)
    /\ UNCHANGED <<files, caches, storage>>

\* READ and ADD 1.  The record area holds 0 when nothing is read: it is
\* set to 0 for status 10 (an empty file) and has not been used for 47 (a
\* file that is not open).  REWRITE, the statement at got, fails then too.
ReadCounter(p, c, here, got, failed) ==
    LET read == holder[c] = p /\ counter[c] # Empty IN
    /\ At(p, here)
    /\ number' = [number EXCEPT
                    ![p] = IF read THEN NextId(counter[c]) ELSE NextId(0)]
    /\ Goto(p, IF read THEN got ELSE failed)
    /\ UNCHANGED <<files, locks, caches, record, peer, amount>>

\* A slip to detect: the record is not rewritten.
RewriteCounterForgotten(p, c, here, there) ==
    /\ At(p, here)
    /\ Goto(p, there)
    /\ UNCHANGED <<files, locks, caches, storage>>

\* A slip to detect: the counter is closed as soon as it is rewritten.
RewriteCounterAndClose(p, c, here, there) ==
    /\ At(p, here)
    /\ counter' = [counter EXCEPT ![c] = number[p]]
    /\ holder' = [holder EXCEPT ![c] = None]
    /\ Goto(p, there)
    /\ UNCHANGED <<files, caches, storage>>

\* REWRITE.
RewriteCounter(p, c, here, there) ==
    /\ At(p, here)
    /\ counter' = [counter EXCEPT ![c] = number[p]]
    /\ Goto(p, there)
    /\ UNCHANGED <<holder, files, caches, storage>>

-----------------------------------------------------------------------------
(* The life of a process.                                                  *)

\* STOP RUN: nothing is left of p's memory.
StopRun(p) ==
    /\ Goto(p, "idle")
    /\ page' = [page EXCEPT ![p] = None]
    /\ dirty' = dirty \ {p}
    /\ logPage' = [logPage EXCEPT ![p] = None]
    /\ number' = [number EXCEPT ![p] = 0]
    /\ record' = [record EXCEPT ![p] = None]
    /\ peer' = [peer EXCEPT ![p] = None]
    /\ amount' = [amount EXCEPT ![p] = 0]

\* The locks once p has none.
Unlocked(p) == [c \in Counters |-> IF holder[c] = p THEN None ELSE holder[c]]

\* The process is killed: its pages are lost, its locks are released.
Crash(p) ==
    /\ MayCrash /\ pc[p] # "idle"
    /\ StopRun(p)
    /\ holder' = Unlocked(p)
    /\ UNCHANGED <<files, counter>>

\* The cache of p writes a changed page of ACCOUNTS.DAT before CLOSE.
FlushAccounts(p) ==
    /\ Pressure /\ p \in dirty
    /\ WriteBack(p)
    /\ UNCHANGED <<journal, locks, pc, page, logPage, storage>>

\* The cache of p drops an unchanged page.
DropAccounts(p) ==
    /\ Pressure /\ p \notin dirty /\ page[p] # None
    /\ page' = [page EXCEPT ![p] = None]
    /\ UNCHANGED <<files, locks, pc, dirty, logPage, storage>>

\* The cache of p writes a changed page of TRANSACTIONS.DAT before CLOSE.
FlushTransactions(p) ==
    /\ Pressure /\ logPage[p] # None
    /\ journal' = logPage[p]
    /\ logPage' = [logPage EXCEPT ![p] = None]
    /\ UNCHANGED <<accounts, locks, pc, page, dirty, storage>>

CacheStep(p) == FlushAccounts(p) \/ DropAccounts(p) \/ FlushTransactions(p)
=============================================================================
