-------------------------------- MODULE Bank --------------------------------
(***************************************************************************)
(* The legacy bank: processes that run its programs over the same files,   *)
(* one statement on a file at a time.  ACCEPT belongs to the statement     *)
(* that follows it, since nothing else sees the answer.                    *)
(*                                                                         *)
(* FreshBankSpec starts without any file, BankSpec with files that have    *)
(* been in use, and EitherBankSpec in either way.                          *)
(***************************************************************************)
EXTENDS AccountCreation, AccountDeletion, TransferMoney, BankQueries

CONSTANTS
    OpeningBook,      \* the accounts BankSpec starts with
    OpeningLog,       \* its journal
    OpeningCounter    \* its counters

ASSUME OpeningOK ==
    /\ Programs \subseteq {"creation", "deletion", "transfer", "list",
                           "search", "history"}
    /\ OpeningBook \in Book /\ OpeningLog \in Log
    /\ OpeningCounter \in [Counters -> Ids \ {0}]
    /\ \A i \in Ids : OpeningBook[i] # None =>
                        i \in 1..OpeningCounter["accounts"]
    /\ \A i \in Ids : OpeningLog[i] # None =>
                        i \in 1..OpeningCounter["transactions"]

-----------------------------------------------------------------------------
\* Bound: no program is started that could take a counter past IdLimit.
RoomLeft(c) ==
    counter[c] \in Ids => counter[c] + Cardinality(Procs) < IdLimit

FirstStatement ==
    [ creation |-> "c_open", deletion |-> "d_open", transfer |-> "t_open",
      list |-> "l_open", search |-> "s_open", history |-> "h_open" ]

\* A user starts a program.
Start(p) ==
    /\ At(p, "idle")
    /\ \E program \in Programs :
         /\ program = "creation" => RoomLeft("accounts")
         /\ program = "transfer" => RoomLeft("transactions")
         /\ Goto(p, FirstStatement[program])
    /\ UNCHANGED <<files, locks, caches, storage>>

ProgramStep(p) ==
    CreationStep(p) \/ DeletionStep(p) \/ TransferStep(p) \/ QueryStep(p)

BankNext ==
    \E p \in Procs : Start(p) \/ ProgramStep(p) \/ CacheStep(p) \/ Crash(p)

NoProcess ==
    /\ holder = [c \in Counters |-> None]
    /\ pc = [p \in Procs |-> "idle"]
    /\ page = [p \in Procs |-> None]
    /\ dirty = {}
    /\ logPage = [p \in Procs |-> None]
    /\ number = [p \in Procs |-> 0]
    /\ record = [p \in Procs |-> None]
    /\ peer = [p \in Procs |-> None]
    /\ amount = [p \in Procs |-> 0]

FreshBankInit ==
    /\ accounts = None /\ journal = None
    /\ counter = [c \in Counters |-> None]
    /\ NoProcess

BankInit ==
    /\ accounts = OpeningBook /\ journal = OpeningLog
    /\ counter = OpeningCounter
    /\ NoProcess

FreshBankSpec == FreshBankInit /\ [][BankNext]_bankVars
BankSpec == BankInit /\ [][BankNext]_bankVars
EitherBankSpec == (FreshBankInit \/ BankInit) /\ [][BankNext]_bankVars

-----------------------------------------------------------------------------
(* What runs over the same files keep.                                     *)

Statements ==
    { "idle", "c_open", "c_make", "c_count", "c_new", "c_zero", "c_read",
      "c_rewrite", "c_name", "c_write", "c_close", "c_end",
      "d_open", "d_make", "d_read", "d_delete", "d_close",
      "t_open", "t_make", "t_source", "t_destination", "t_debit",
      "t_credit", "j_open", "j_make", "t_count", "t_new", "t_zero",
      "t_read", "t_rewrite", "t_write", "t_close", "j_close", "t_end",
      "l_open", "l_make", "l_read", "s_open", "s_make", "s_read",
      "h_open", "h_make", "h_read" }

\* The type invariant: files, pages and buffers hold whole records, and
\* every balance fits its field.
BankTypeOK ==
    /\ accounts \in Book \cup {None} /\ journal \in Log \cup {None}
    /\ counter \in [Counters -> Ids \cup {None, Empty}]
    /\ holder \in [Counters -> Procs \cup {None}]
    /\ pc \in [Procs -> Statements]
    /\ page \in [Procs -> Book \cup {None}]
    /\ dirty \in SUBSET Procs
    /\ logPage \in [Procs -> Log \cup {None}]
    /\ number \in [Procs -> Ids]
    /\ record \in [Procs -> Buffer \cup {None}]
    /\ peer \in [Procs -> Buffer \cup {None}]
    /\ amount \in [Procs -> Amounts \cup {0}]

\* No entry of the journal is lost or changed once it is on disk, however
\* many transfers run at once: only the process that has the counter's
\* lock writes the journal (transfer-money.cbl:125-171).
JournalKept ==
    [][\A i \in Ids : journal[i] # None => journal'[i] = journal[i]]_bankVars

\* The same for accounts when nothing but creations and queries runs
\* (account-creation.cbl:46-92).
AccountsKept ==
    [][accounts # None =>
        \A i \in Ids :
            accounts[i] # None => accounts'[i] = accounts[i]]_bankVars

\* No account has an ID the counter has not reached, so that an ID given
\* out next is new (account-creation.cbl:60-69).
AccountsBehindCounter ==
    \A i \in Ids : accounts[i] # None => i \in 1..counter["accounts"]

\* Once the source is debited the destination is there to be credited,
\* even if another process deletes it (transfer-money.cbl:96-110).
DebitThenCredit ==
    \A p \in Procs : pc[p] = "t_credit" => View(p)[peer[p].id] # None

\* A process that has the lock of a counter writes its record under a key
\* nobody has used, whatever the processes without the lock and the caches
\* have done (account-creation.cbl:82, transfer-money.cbl:157).
NumbersAreFresh ==
    \A p \in Procs :
        /\ pc[p] = "c_write" /\ holder["accounts"] = p =>
             View(p)[number[p]] = None
        /\ pc[p] = "t_write" /\ holder["transactions"] = p =>
             journal[number[p]] = None

\* A transfer that has had the lock leaves its payment in the journal, under
\* the number it was given, whatever the others write there meanwhile
\* (transfer-money.cbl:139-171).
TransfersRecorded ==
    \A p \in Procs :
        pc[p] = "t_end" /\ holder["transactions"] = p =>
            journal[number[p]] = Transaction(p)

-----------------------------------------------------------------------------
(* One program at a time.                                                  *)

\* Payments closed into ACCOUNTS.DAT and not yet into TRANSACTIONS.DAT.
Unrecorded == {p \in Procs : pc[p] = "j_close"}

AbstractDue ==
    IF Unrecorded = {} THEN None
    ELSE Transaction(CHOOSE p \in Unrecorded : TRUE)

OnDisk(file, empty) == IF file = None THEN empty ELSE file

Running == \E p \in Procs : pc[p] # "idle"

\* A counter left empty by a process killed before it wrote 0 there.
Unnumbered ==
    counter["transactions"] = Empty /\ ~\E p \in Procs : pc[p] = "t_zero"

L == INSTANCE Ledger WITH book <- OnDisk(accounts, EmptyBook),
                          log <- OnDisk(journal, EmptyLog),
                          due <- AbstractDue,
                          running <- Running,
                          unnumbered <- Unnumbered

\* The files, programs and crashes of one process implement the ledger: a
\* transfer moves both balances or none, and what it has paid it records,
\* unless it is killed first or a kill has left the counter empty and
\* transaction 1 is taken (transfer-money.cbl:94-171).
ImplementsLedger == L!LedgerSpec

-----------------------------------------------------------------------------
(* What a document says and the programs do not keep.                      *)

\* Claim: no transfer debits more than its source has
\* (docs/legacy/API-TransferMoney.md:58; transfer-money.cbl:94).
TransfersAreAfforded ==
    [][\A p \in Procs :
        pc[p] = "t_debit" /\ pc'[p] = "t_credit" =>
            record[p].balance >= amount'[p]]_bankVars

\* Claim: a transfer whose WRITE fails does not report a success, so one
\* that reports it is in the journal (docs/legacy/API-TransferMoney.md:76;
\* transfer-money.cbl:157).
ReportedMeansRecorded ==
    \A p \in Procs :
        LET log == IF logPage[p] = None THEN journal ELSE logPage[p]
        IN  pc[p] = "t_close" => log[number[p]] = Transaction(p)

\* Claim: an account reported as added has been written
\* (docs/legacy/API-AccountCreation.md:61; account-creation.cbl:83).
AddedMeansWritten ==
    \A p \in Procs :
        pc[p] = "c_close" => View(p)[record[p].id] = FromBuffer(record[p])

-----------------------------------------------------------------------------
(* The length of a run.                                                    *)

\* The statements a run that finds its files executes from here to its end;
\* each file that is made adds some.
StatementsFrom ==
    [ idle |-> 0,
      c_open |-> 12, c_make |-> 11, c_new |-> 9, c_zero |-> 8,
      c_count |-> 7, c_read |-> 6, c_rewrite |-> 5, c_name |-> 4,
      c_write |-> 3, c_close |-> 2, c_end |-> 1,
      d_open |-> 5, d_make |-> 4, d_read |-> 3, d_delete |-> 2,
      d_close |-> 1,
      t_open |-> 18, t_make |-> 17, t_source |-> 16, t_destination |-> 15,
      t_debit |-> 14, t_credit |-> 13, j_open |-> 12, j_make |-> 11,
      t_new |-> 9, t_zero |-> 8, t_count |-> 7, t_read |-> 6,
      t_rewrite |-> 5, t_write |-> 4, t_close |-> 3, j_close |-> 2,
      t_end |-> 1,
      l_open |-> 3, l_make |-> 2, l_read |-> 1,
      s_open |-> 3, s_make |-> 2, s_read |-> 1,
      h_open |-> 3, h_make |-> 2, h_read |-> 1 ]

\* At most how many statements p has left: OPEN of a counter comes once
\* more, before the counter is made, if there is none.
StatementsLeft(p) ==
    IF \/ pc[p] = "c_count" /\ counter["accounts"] = None
       \/ pc[p] = "t_count" /\ counter["transactions"] = None
      THEN 10
      ELSE StatementsFrom[pc[p]]

\* A run repeats nothing: each statement brings p nearer to its end, and no
\* other process, kill or cache sends it back.  In particular a counter that
\* was missing is there when it is opened again, whoever has the lock and
\* whoever else makes it (account-creation.cbl:46-56,
\* transfer-money.cbl:127-137).
RunsShorten ==
    [][\A p \in Procs :
        /\ ProgramStep(p) => StatementsLeft(p)' < StatementsLeft(p)
        /\ pc[p] # "idle" => StatementsLeft(p)' <= StatementsLeft(p)]_bankVars

-----------------------------------------------------------------------------
(* Fairness: a process that is running goes on, and its user answers.      *)

FairBankSpec ==
    BankSpec /\ \A p \in Procs : WF_bankVars(ProgramStep(p))

\* Every run ends, and so gives back the lock it may have
\* (account-creation.cbl:73-79).
EveryRunEnds == \A p \in Procs : pc[p] # "idle" ~> pc[p] = "idle"
=============================================================================
