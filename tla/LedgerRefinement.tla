-------------------------- MODULE LedgerRefinement --------------------------
(***************************************************************************)
(* Proof that the programs, run one at a time by one process that may be   *)
(* killed at any statement, implement the ledger, for every number of      *)
(* accounts, every amount and every pair of IDs typed.                     *)
(*                                                                         *)
(* The invariant says what the changed page of ACCOUNTS.DAT will do to the *)
(* file at CLOSE: nothing else happens to the accounts, so a killed        *)
(* program has changed nothing or all it had to change.  A second part     *)
(* says how the counter goes with the journal: a payment is refused only   *)
(* when the counter was left empty and transaction 1 is taken.             *)
(*                                                                         *)
(* When it is not killed either, the journal tells what every balance is.  *)
(***************************************************************************)
EXTENDS CounterProofs

\* The statements between the credit and CLOSE of ACCOUNTS.DAT.
Settled == Paying \ {"t_credit", "j_close"}

\* The buffer holds an account as it is on file.
IsRead(b) ==
    /\ b \in Buffer /\ accounts[b.id] # None
    /\ FromBuffer(b) = accounts[b.id]

\* What the page of q is, statement by statement.
Opened(q) ==
    /\ accounts[record[q].id] = None
    /\ \E name \in Names :
         page[q] = [accounts EXCEPT
                      ![record[q].id] = [name |-> name, balance |-> 0]]

Closed(q) ==
    /\ accounts[number[q]] # None
    /\ page[q] = [accounts EXCEPT ![number[q]] = None]

Debited(q) ==
    /\ accounts[record[q].id] # None /\ IsRead(peer[q])
    /\ page[q] = [accounts EXCEPT
                    ![record[q].id] = Plus(accounts[record[q].id], -amount[q])]

Moved(q) ==
    /\ accounts[record[q].id] # None /\ accounts[peer[q].id] # None
    /\ page[q] = L!Paid(accounts, record[q].id, peer[q].id, amount[q])

PageOK(q) ==
    /\ page[q] # None /\ q \notin dirty => page[q] = accounts
    /\ q \in dirty =>
         /\ accounts # None
         /\ \/ pc[q] = "c_close" /\ Opened(q)
            \/ pc[q] = "d_close" /\ Closed(q)
            \/ pc[q] = "t_credit" /\ Debited(q)
            \/ pc[q] \in Settled /\ Moved(q)
    /\ pc[q] \in {"t_credit"} \cup Settled => q \in dirty

BuffersOK(q) ==
    /\ pc[q] = "c_write" => record[q].balance = 0
    /\ pc[q] \in {"t_destination", "t_debit"} => IsRead(record[q])
    /\ pc[q] = "t_debit" => IsRead(peer[q])

FilesOK(q) ==
    /\ pc[q] \in Making => accounts = None
    /\ pc[q] \in {"j_make", "h_make"} => journal = None

LogOK(q) ==
    logPage[q] # None =>
        /\ pc[q] \in {"t_close", "j_close"}
        /\ journal # None /\ journal[number[q]] = None
        /\ logPage[q] = [journal EXCEPT ![number[q]] = Transaction(q)]

\* The statements of a transfer at which it has the lock of its counter, and
\* those before it adds 1 to it.
Numbering == {"t_zero", "t_read", "t_rewrite", "t_write", "t_close",
              "j_close", "t_end"}
Unread == {"t_open", "t_make", "t_source", "t_destination", "t_debit",
           "t_credit", "j_open", "j_make", "t_count", "t_new", "t_zero",
           "t_read"}

LastId == counter["transactions"]
InJournal(i) == OnDisk(journal, EmptyLog)[i] # None

\* How the counter of the journal and its lock go with the journal, and
\* with the number a transfer has been given.
LockOK(q) ==
    /\ holder["transactions"] = IF pc[q] \in Numbering THEN q ELSE None
    /\ pc[q] = "t_new" => LastId = None
    /\ pc[q] = "t_zero" => LastId = Empty

JournalOK(q) ==
    /\ LastId = None \/ pc[q] = "t_zero" => \A i \in Ids : ~InJournal(i)
    /\ LastId = Empty => \A i \in Ids : InJournal(i) => i = 1
    /\ LastId \in Ids => \A i \in Ids : InJournal(i) => i \in 1..LastId

NumberOK(q) ==
    /\ pc[q] \in Unread /\ LastId \in Ids => LastId + 1 < IdLimit
    /\ pc[q] = "t_rewrite" => LastId \in Ids /\ number[q] = LastId + 1
    /\ pc[q] = "t_rewrite" => number[q] \in Ids
    /\ pc[q] \in {"t_write", "t_close", "j_close"} =>
         \/ LastId \in Ids \ {0} /\ number[q] = LastId
         \/ LastId = Empty /\ number[q] = 1
    /\ pc[q] = "t_write" /\ LastId \in Ids => ~InJournal(number[q])
    /\ pc[q] \in {"t_close", "j_close"} /\ logPage[q] = None =>
         LastId = Empty /\ InJournal(1)

CounterOK(q) ==
    /\ LastId # None \/ pc[q] \notin Numbering
    /\ LockOK(q) /\ JournalOK(q) /\ NumberOK(q)

LedgerInv(q) == PageOK(q) /\ BuffersOK(q) /\ FilesOK(q) /\ LogOK(q)

\* The ledger as a process at work sees it.
Seen(q) == IF pc[q] = "j_close" THEN Transaction(q) ELSE None

\* A step that moves no money and ends no transfer.
Quiet(q) ==
    /\ pc[q] # "j_close" /\ pc'[q] # "j_close"
    /\ accounts' = accounts \/ (accounts = None /\ accounts' = EmptyBook)
    /\ journal' = journal \/ (journal = None /\ journal' = EmptyLog)

-----------------------------------------------------------------------------
(* The mapping.                                                            *)

\* With one process, what is due is what that process has yet to record.
LEMMA DueIs ==
    ASSUME NEW q, Procs = {q}
    PROVE  AbstractDue = Seen(q) /\ AbstractDue' = Seen(q)'
  <1>1. \A s : (s = {q}) => (CHOOSE p \in s : TRUE) = q
    OBVIOUS
  <1>2. Unrecorded = IF pc[q] = "j_close" THEN {q} ELSE {}
    BY DEF Unrecorded
  <1>3. Unrecorded' = IF pc'[q] = "j_close" THEN {q} ELSE {}
    BY DEF Unrecorded
  <1>4. AbstractDue = Seen(q)
    BY <1>1, <1>2 DEF AbstractDue, Seen
  <1>5. AbstractDue' = Seen(q)'
    <2>1. CASE pc'[q] = "j_close"
      <3>1. (CHOOSE p \in Unrecorded' : TRUE) = q
        BY <1>1, <1>3, <2>1
      <3> QED
        BY <1>3, <2>1, <3>1 DEF AbstractDue, Seen
    <2>2. CASE pc'[q] # "j_close"
      BY <1>3, <2>2 DEF AbstractDue, Seen
    <2> QED
      BY <2>1, <2>2
  <1> QED
    BY <1>4, <1>5

\* With one process, a program runs when that process does.
LEMMA RunningIs ==
    ASSUME NEW q, Procs = {q}
    PROVE  /\ Running = (pc[q] # "idle")
           /\ Running' = (pc'[q] # "idle")
           /\ Unnumbered = (LastId = Empty /\ pc[q] # "t_zero")
           /\ Unnumbered' = (LastId' = Empty /\ pc'[q] # "t_zero")
  BY DEF Running, Unnumbered, LastId

\* A step within a run that leaves the counter alone.
LEMMA RunGoesOn ==
    ASSUME NEW q, Procs = {q}, pc[q] \notin {"idle", "t_zero"},
           pc'[q] \notin {"idle", "t_zero"}, UNCHANGED counter
    PROVE  /\ Running = TRUE /\ Running' = Running
           /\ Unnumbered' = Unnumbered
  BY RunningIs DEF LastId

\* The last step of a run that leaves the counter alone.
LEMMA RunEnds ==
    ASSUME NEW q, Procs = {q}, pc[q] \notin {"idle", "t_zero"},
           pc'[q] = "idle", UNCHANGED counter
    PROVE  /\ Running = TRUE /\ Running' = FALSE
           /\ Unnumbered' = Unnumbered
  BY RunningIs DEF LastId

\* What a quiet step leaves as it is.
LEMMA QuietKeeps ==
    ASSUME NEW q, Procs = {q}, Quiet(q)
    PROVE  /\ AbstractDue = None /\ AbstractDue' = None
           /\ OnDisk(accounts, EmptyBook)' = OnDisk(accounts, EmptyBook)
           /\ OnDisk(journal, EmptyLog)' = OnDisk(journal, EmptyLog)
  <1>1. Seen(q) = None /\ Seen(q)' = None
    BY DEF Seen, Quiet
  <1>2. AbstractDue = None /\ AbstractDue' = None
    BY <1>1, DueIs
  <1> QED
    BY <1>2, BufferType DEF Quiet, OnDisk

\* Adding in the buffer is adding to the account.
LEMMA PlusInBuffer ==
    ASSUME NEW b \in Buffer, NEW x \in Int
    PROVE  FromBuffer(Plus(b, x)) = Plus(FromBuffer(b), x)
  <1>1. FromBuffer(b) \in Account /\ FromBuffer(b).balance = b.balance
    BY BufferType DEF FromBuffer
  <1>2. Plus(FromBuffer(b), x) =
          [name |-> b.name, balance |-> Stored(b.balance + x)]
    BY DEF Plus, FromBuffer
  <1> QED
    BY <1>2, PlusBuffer DEF FromBuffer

\* A process that has not changed its page reads the accounts on file.
LEMMA ViewIsAccounts ==
    ASSUME NEW q, LedgerInv(q), q \notin dirty
    PROVE  View(q) = accounts
  BY DEF LedgerInv, PageOK, View

-----------------------------------------------------------------------------
(* Steps that move no money.                                               *)

\* STOP RUN with nothing to write back.
LEMMA StopQuiet ==
    ASSUME BankInv, NEW q \in Procs, LedgerInv(q), StopRun(q),
           UNCHANGED <<accounts, journal>>, pc[q] # "j_close"
    PROVE  LedgerInv(q)' /\ Quiet(q)
  <1>1. pc'[q] = "idle" /\ page'[q] = None /\ q \notin dirty' /\ logPage'[q] = None
    BY DEF StopRun, Goto, BankInv, BankTypeOK
  <1> QED
    BY <1>1 DEF LedgerInv, PageOK, BuffersOK, FilesOK, LogOK, Quiet, Making,
                Settled, Paying

\* Statements on a file that leave pages and buffers alone, before the debit
\* or after the credit.
LEMMA MoveQuiet ==
    ASSUME BankInv, NEW q \in Procs, LedgerInv(q), NEW there, Goto(q, there),
           UNCHANGED <<caches, record, peer, amount>>,
           \/ accounts' = accounts
           \/ accounts = None /\ accounts' = EmptyBook /\ pc[q] \notin Settled,
           journal' = journal \/ (journal = None /\ journal' = EmptyLog),
           pc[q] \notin {"c_close", "d_close", "t_credit", "t_close", "j_close"},
           there \in Settled <=> pc[q] \in Settled,
           there \notin {"c_write", "t_destination", "t_debit", "t_credit",
                         "j_close"},
           there \in Making => accounts' = None,
           there \in {"j_make", "h_make"} => journal' = None
    PROVE  LedgerInv(q)' /\ Quiet(q)
  <1>1. pc'[q] = there
    BY DEF Goto, BankInv, BankTypeOK
  <1>2. logPage[q] = None /\ logPage'[q] = None
    BY DEF LedgerInv, LogOK, caches
  <1>3. PageOK(q)'
    <2>1. CASE q \in dirty
      <3>1. /\ pc[q] \in Settled /\ Moved(q)
            /\ accounts' = accounts /\ accounts # None
        BY <2>1 DEF LedgerInv, PageOK
      <3>2. Moved(q)'
        BY <3>1 DEF Moved, caches, L!Paid, Plus, Stored
      <3> QED
        BY <1>1, <2>1, <3>1, <3>2 DEF PageOK, caches
    <2>2. CASE q \notin dirty
      <3>1. pc[q] \notin Settled
        BY <2>2 DEF LedgerInv, PageOK
      <3> QED
        BY <1>1, <2>2, <3>1 DEF LedgerInv, PageOK, caches
    <2> QED
      BY <2>1, <2>2
  <1> QED
    BY <1>1, <1>2, <1>3 DEF LedgerInv, BuffersOK, FilesOK, LogOK, Quiet

\* A program that starts.
LEMMA StartQuiet ==
    ASSUME BankInv, NEW q \in Procs, LedgerInv(q), Start(q)
    PROVE  LedgerInv(q)' /\ Quiet(q)
  <1>1. PICK program \in Programs : Goto(q, FirstStatement[program])
    BY DEF Start
  <1>2. program \in {"creation", "deletion", "transfer", "list", "search",
                     "history"}
    BY OpeningOK
  <1>3. FirstStatement[program] \in {"c_open", "d_open", "t_open", "l_open",
                                     "s_open", "h_open"}
    BY <1>2 DEF FirstStatement
  <1> QED
    BY <1>1, <1>3, MoveQuiet
    DEF Start, At, files, storage, Settled, Paying, Making

\* A query, whatever it creates.
LEMMA QueryQuiet ==
    ASSUME BankInv, NEW q \in Procs, LedgerInv(q), QueryStep(q)
    PROVE  LedgerInv(q)' /\ Quiet(q)
  <1> USE DEF At, files, storage, Settled, Paying, Making
  <1>1. CASE ListOpen(q) \/ SearchOpen(q)
    BY <1>1, MoveQuiet DEF ListOpen, SearchOpen, OpenAccounts
  <1>2. CASE ListMake(q) \/ SearchMake(q)
    BY <1>2, MoveQuiet
    DEF ListMake, SearchMake, CreateAccounts, LedgerInv, FilesOK
  <1>3. CASE HistoryOpen(q)
    BY <1>3, MoveQuiet DEF HistoryOpen, OpenTransactions
  <1>4. CASE HistoryMake(q)
    BY <1>4, MoveQuiet DEF HistoryMake, CreateTransactions, LedgerInv, FilesOK
  <1>5. CASE ListAccounts(q) \/ SearchBalance(q) \/ ListHistory(q)
    BY <1>5, StopQuiet DEF ListAccounts, SearchBalance, ListHistory, Display
  <1> QED
    BY <1>1, <1>2, <1>3, <1>4, <1>5 DEF QueryStep

\* The steps of a creation up to the name.
LEMMA CounterQuiet ==
    ASSUME BankInv, NEW q \in Procs, LedgerInv(q),
           \/ CreationOpen(q) \/ CreationMake(q)
           \/ CreationCounter(q) \/ CreationCounterNew(q)
           \/ CreationCounterZero(q)
           \/ CreationRead(q) \/ CreationRewrite(q)
    PROVE  LedgerInv(q)' /\ Quiet(q)
  <1> USE DEF At, files, storage, Settled, Paying, Making
  <1>1. CASE CreationOpen(q)
    BY <1>1, MoveQuiet DEF CreationOpen, OpenAccounts
  <1>2. CASE CreationMake(q)
    BY <1>2, MoveQuiet DEF CreationMake, CreateAccounts, LedgerInv, FilesOK
  <1>3. CASE CreationCounter(q)
    BY <1>3, MoveQuiet DEF CreationCounter, OpenCounter
  <1>4. CASE CreationCounterNew(q) \/ CreationCounterZero(q)
    BY <1>4, MoveQuiet
    DEF CreationCounterNew, CreationCounterZero, CreateCounter, ZeroCounter
  <1>5. CASE CreationRead(q)
    BY <1>5, MoveQuiet DEF CreationRead, ReadCounter
  <1>6. CASE CreationRewrite(q)
    BY <1>6, MoveQuiet DEF CreationRewrite, RewriteCounter
  <1> QED
    BY <1>1, <1>2, <1>3, <1>4, <1>5, <1>6

\* The steps of a transfer on the journal and its counter.
LEMMA RecordingQuiet ==
    ASSUME BankInv, NEW q \in Procs, LedgerInv(q),
           \/ TransferOpen(q) \/ TransferMake(q)
           \/ JournalOpen(q) \/ JournalMake(q)
           \/ TransferCounter(q) \/ TransferCounterNew(q)
           \/ TransferCounterZero(q)
           \/ TransferRead(q) \/ TransferRewrite(q)
    PROVE  LedgerInv(q)' /\ Quiet(q)
  <1> USE DEF At, files, storage, Settled, Paying, Making
  <1>1. CASE TransferOpen(q)
    BY <1>1, MoveQuiet DEF TransferOpen, OpenAccounts
  <1>2. CASE TransferMake(q)
    BY <1>2, MoveQuiet DEF TransferMake, CreateAccounts, LedgerInv, FilesOK
  <1>3. CASE JournalOpen(q)
    BY <1>3, MoveQuiet DEF JournalOpen, OpenTransactions
  <1>4. CASE JournalMake(q)
    BY <1>4, MoveQuiet DEF JournalMake, CreateTransactions, LedgerInv, FilesOK
  <1>5. CASE TransferCounter(q)
    BY <1>5, MoveQuiet DEF TransferCounter, OpenCounter
  <1>6. CASE TransferCounterNew(q) \/ TransferCounterZero(q)
    BY <1>6, MoveQuiet
    DEF TransferCounterNew, TransferCounterZero, CreateCounter, ZeroCounter
  <1>7. CASE TransferRead(q)
    BY <1>7, MoveQuiet DEF TransferRead, ReadCounter
  <1>8. CASE TransferRewrite(q)
    BY <1>8, MoveQuiet DEF TransferRewrite, RewriteCounter
  <1> QED
    BY <1>1, <1>2, <1>3, <1>4, <1>5, <1>6, <1>7, <1>8

-----------------------------------------------------------------------------
(* Steps that change the accounts, and what they amount to.                *)

\* What any step of the process comes to.
Implements(q) ==
    LedgerInv(q)' /\ (Quiet(q) \/ L!LedgerNext)

\* A process that has not changed its page and moves to a statement at which
\* nothing is expected of its buffers.
LEMMA PageQuiet ==
    ASSUME BankInv, NEW q \in Procs, LedgerInv(q), UNCHANGED files,
           page'[q] \in {page[q], None, accounts},
           q \notin dirty, q \notin dirty', logPage' = logPage,
           pc[q] \notin {"t_close", "j_close"},
           pc'[q] \notin Making \cup {"j_make", "h_make", "j_close",
                                      "t_credit"} \cup Settled,
           BuffersOK(q)'
    PROVE  LedgerInv(q)' /\ Quiet(q)
  BY DEF LedgerInv, PageOK, FilesOK, LogOK, Quiet, files

\* A creation that writes its account back opens it.
LEMMA CreationImplements ==
    ASSUME BankInv, NEW q, Procs = {q}, LedgerInv(q), CreationStep(q)
    PROVE  Implements(q)
  <1> USE DEF Implements
  <1>0. /\ q \in Procs /\ pc \in [Procs -> Statements]
        /\ page \in [Procs -> Book \cup {None}]
        /\ record \in [Procs -> Buffer \cup {None}]
        /\ accounts \in Book \cup {None}
    BY DEF BankInv, BankTypeOK
  <1>1. CASE \/ CreationOpen(q) \/ CreationMake(q)
             \/ CreationCounter(q) \/ CreationCounterNew(q)
             \/ CreationCounterZero(q)
             \/ CreationRead(q) \/ CreationRewrite(q)
    BY <1>0, <1>1, CounterQuiet
  <1>2. CASE TypeName(q)
    <2>1. /\ pc[q] = "c_name" /\ pc'[q] = "c_write" /\ record'[q].balance = 0
          /\ UNCHANGED <<files, caches>>
      BY <1>0, <1>2 DEF TypeName, At, Goto
    <2>2. q \notin dirty
      BY <2>1 DEF LedgerInv, PageOK, Settled, Paying
    <2> QED
      BY <1>0, <2>1, <2>2, PageQuiet
      DEF BuffersOK, caches, Making, Settled, Paying
  <1>3. CASE WriteAccount(q)
    <2>1. /\ pc[q] = "c_write" /\ pc'[q] = "c_close"
          /\ UNCHANGED <<files, logPage, record>> /\ record[q].balance = 0
      BY <1>0, <1>3 DEF WriteAccount, At, Goto, storage, LedgerInv, BuffersOK
    <2>2. q \notin dirty
      BY <2>1 DEF LedgerInv, PageOK, Settled, Paying
    <2>3. /\ View(q) = accounts /\ accounts # None /\ accounts \in Book
          /\ record[q] \in Buffer
      BY <1>0, <2>1, <2>2, ViewIsAccounts
      DEF BankInv, Ready, UsesAccounts, HasRecord
    <2>4. CASE accounts[record[q].id] = None
      <3>1. FromBuffer(record[q]) = [name |-> record[q].name, balance |-> 0]
        BY <2>1 DEF FromBuffer
      <3>2. record[q].id \in Ids /\ record[q].name \in Names
        BY <2>3 DEF Buffer
      <3>3. /\ page'[q] = [accounts EXCEPT ![record[q].id] = FromBuffer(record[q])]
            /\ q \in dirty'
        BY <1>0, <1>3, <2>3, <2>4 DEF WriteAccount, Change, Use
      <3>4. Opened(q)'
        BY <2>1, <2>4, <3>1, <3>2, <3>3 DEF Opened, files
      <3> QED
        BY <2>1, <2>3, <3>3, <3>4
        DEF LedgerInv, PageOK, BuffersOK, FilesOK, LogOK, Quiet, files, Making,
            Settled, Paying
    <2>5. CASE accounts[record[q].id] # None
      <3>1. page'[q] = accounts /\ q \notin dirty'
        BY <1>0, <1>3, <2>2, <2>3, <2>5 DEF WriteAccount, Change, Use
      <3> QED
        BY <1>0, <2>1, <2>2, <3>1, PageQuiet
        DEF BuffersOK, Making, Settled, Paying
    <2> QED
      BY <2>4, <2>5
  <1>4. CASE CreationClose(q)
    <2>1. /\ pc[q] = "c_close" /\ pc'[q] = "c_end" /\ page'[q] = None
          /\ q \notin dirty' /\ UNCHANGED <<journal, logPage>>
          /\ accounts' = IF q \in dirty THEN page[q] ELSE accounts
      BY <1>0, <1>4 DEF CreationClose, At, Goto, WriteBack
    <2>2. logPage[q] = None
      BY <2>1 DEF LedgerInv, LogOK
    <2>3. LedgerInv(q)'
      BY <2>1, <2>2
      DEF LedgerInv, PageOK, BuffersOK, FilesOK, LogOK, Making, Settled, Paying
    <2>4. CASE q \notin dirty
      BY <2>1, <2>3, <2>4 DEF Quiet
    <2>5. CASE q \in dirty
      <3>1. accounts # None /\ Opened(q)
        BY <2>1, <2>5 DEF LedgerInv, PageOK, Settled, Paying
      <3>2. accounts' # None
        BY <2>1, <2>5 DEF BankInv, Ready
      <3>3. record[q].id \in Ids
        BY <2>1, BufferType DEF BankInv, BankTypeOK, Ready, HasRecord
      <3>4. AbstractDue = None /\ AbstractDue' = None
        BY <2>1, DueIs DEF Seen
      <3>5. /\ Running = TRUE /\ Running' = Running
            /\ Unnumbered' = Unnumbered
        BY <1>4, <2>1, RunGoesOn DEF CreationClose, locks
      <3>6. PICK name \in Names : L!Open(record[q].id, name)
        BY <2>1, <2>5, <3>1, <3>2, <3>4, <3>5
        DEF L!Open, L!Free, OnDisk, Opened
      <3> QED
        BY <2>3, <3>3, <3>6 DEF L!LedgerNext, L!Ids, Ids
    <2> QED
      BY <2>4, <2>5
  <1>5. CASE CreationEnd(q)
    BY <1>0, <1>5, StopQuiet DEF CreationEnd, At, files
  <1> QED
    BY <1>1, <1>2, <1>3, <1>4, <1>5 DEF CreationStep

\* A deletion that writes its page back closes the account.
LEMMA DeletionImplements ==
    ASSUME BankInv, NEW q, Procs = {q}, LedgerInv(q), DeletionStep(q)
    PROVE  Implements(q)
  <1> USE DEF Implements
  <1>0. /\ q \in Procs /\ pc \in [Procs -> Statements]
        /\ page \in [Procs -> Book \cup {None}] /\ number \in [Procs -> Ids]
        /\ accounts \in Book \cup {None}
    BY DEF BankInv, BankTypeOK
  <1>1. CASE DeletionOpen(q)
    BY <1>0, <1>1, MoveQuiet
    DEF DeletionOpen, OpenAccounts, At, files, storage, Settled, Paying, Making
  <1>2. CASE DeletionMake(q)
    BY <1>0, <1>2, MoveQuiet
    DEF DeletionMake, CreateAccounts, LedgerInv, FilesOK, At, storage, Settled,
        Paying, Making
  <1>3. CASE FindAccount(q)
    <2>1. UNCHANGED files /\ pc[q] = "d_read"
      BY <1>3 DEF FindAccount, At
    <2>2. q \notin dirty
      BY <2>1 DEF LedgerInv, PageOK, Settled, Paying
    <2>3. CASE StopRun(q)
      BY <1>0, <2>1, <2>3, StopQuiet DEF files
    <2>4. CASE ~StopRun(q)
      <3>1. Use(q) /\ Goto(q, "d_delete") /\ UNCHANGED logPage
        BY <1>3, <2>4 DEF FindAccount
      <3>2. pc'[q] = "d_delete" /\ page'[q] = accounts /\ q \notin dirty'
        BY <1>0, <2>2, <3>1, ViewIsAccounts DEF Use, Goto
      <3> QED
        BY <1>0, <2>1, <2>2, <3>1, <3>2, PageQuiet
        DEF BuffersOK, Making, Settled, Paying
    <2> QED
      BY <2>3, <2>4
  <1>4. CASE DeleteAccount(q)
    <2>1. /\ pc[q] = "d_delete" /\ pc'[q] = "d_close"
          /\ UNCHANGED <<files, logPage, number>>
      BY <1>0, <1>4 DEF DeleteAccount, At, Goto, storage
    <2>2. q \notin dirty
      BY <2>1 DEF LedgerInv, PageOK, Settled, Paying
    <2>3. View(q) = accounts /\ accounts # None
      BY <1>0, <2>1, <2>2, ViewIsAccounts DEF BankInv, Ready, UsesAccounts
    <2>4. CASE accounts[number[q]] # None
      <3>1. page'[q] = [accounts EXCEPT ![number[q]] = None] /\ q \in dirty'
        BY <1>0, <1>4, <2>3, <2>4 DEF DeleteAccount, Change, Use
      <3>2. Closed(q)'
        BY <2>1, <2>4, <3>1 DEF Closed, files
      <3> QED
        BY <2>1, <2>3, <3>1, <3>2
        DEF LedgerInv, PageOK, BuffersOK, FilesOK, LogOK, Quiet, files, Making,
            Settled, Paying
    <2>5. CASE accounts[number[q]] = None
      <3>1. page'[q] = accounts /\ q \notin dirty'
        BY <1>0, <1>4, <2>2, <2>3, <2>5 DEF DeleteAccount, Change, Use
      <3> QED
        BY <1>0, <2>1, <2>2, <3>1, PageQuiet
        DEF BuffersOK, Making, Settled, Paying
    <2> QED
      BY <2>4, <2>5
  <1>5. CASE DeletionClose(q)
    <2>1. /\ pc[q] = "d_close" /\ StopRun(q) /\ UNCHANGED journal
          /\ accounts' = IF q \in dirty THEN page[q] ELSE accounts
      BY <1>5 DEF DeletionClose, At
    <2>2. CASE q \notin dirty
      BY <1>0, <2>1, <2>2, StopQuiet
    <2>3. CASE q \in dirty
      <3>1. accounts # None /\ Closed(q)
        BY <2>1, <2>3 DEF LedgerInv, PageOK, Settled, Paying
      <3>2. /\ accounts' = [accounts EXCEPT ![number[q]] = None]
            /\ accounts' # None
        BY <2>1, <2>3, <3>1 DEF Closed, BankInv, Ready
      <3>3. pc'[q] = "idle" /\ page'[q] = None /\ q \notin dirty'
            /\ logPage'[q] = None
        BY <1>0, <2>1 DEF StopRun, Goto, BankInv, BankTypeOK
      <3>4. AbstractDue = None /\ AbstractDue' = None
        BY <2>1, <3>3, DueIs DEF Seen
      <3>5. L!Close(number[q])
        <4>1. /\ Running = TRUE /\ Running' = FALSE
              /\ Unnumbered' = Unnumbered
          BY <1>5, <2>1, <3>3, RunEnds DEF DeletionClose, locks
        <4> QED
          BY <2>1, <3>1, <3>2, <3>4, <4>1
          DEF L!Close, L!Free, OnDisk, Closed
      <3>6. LedgerInv(q)'
        BY <3>3
        DEF LedgerInv, PageOK, BuffersOK, FilesOK, LogOK, Making, Settled,
            Paying
      <3> QED
        BY <1>0, <3>5, <3>6 DEF L!LedgerNext, L!Ids, Ids
    <2> QED
      BY <2>2, <2>3
  <1> QED
    BY <1>1, <1>2, <1>3, <1>4, <1>5 DEF DeletionStep

\* A payment, written with the operations of the programs.
LEMMA PaidIs ==
    ASSUME NEW b, NEW s, NEW d, NEW x
    PROVE  L!Paid(b, s, d, x) =
             [b EXCEPT ![s] = Plus(b[s], -x), ![d] = Plus(b[d], x)]
  BY DEF L!Paid, L!Plus, L!Stored, Plus, Stored

\* The two READs of a transfer fill its buffers with accounts on file.
LEMMA ReadQuiet ==
    ASSUME BankInv, NEW q, Procs = {q}, LedgerInv(q),
           ReadSource(q) \/ ReadDestination(q)
    PROVE  Implements(q)
  <1> USE DEF Implements
  <1>0. /\ q \in Procs /\ pc \in [Procs -> Statements]
        /\ page \in [Procs -> Book \cup {None}]
        /\ record \in [Procs -> Buffer \cup {None}]
        /\ peer \in [Procs -> Buffer \cup {None}]
    BY DEF BankInv, BankTypeOK
  <1>1. UNCHANGED files /\ pc[q] \in {"t_source", "t_destination"}
    BY DEF ReadSource, ReadDestination, At
  <1>2. q \notin dirty /\ pc[q] # "j_close"
    BY <1>1 DEF LedgerInv, PageOK, Settled, Paying
  <1>3. View(q) = accounts /\ accounts \in Book
    BY <1>0, <1>1, <1>2, ViewIsAccounts, ViewType DEF UsesAccounts
  <1>4. ASSUME NEW i \in Ids, accounts[i] # None
        PROVE  /\ ToBuffer(accounts, i) \in Buffer
               /\ ToBuffer(accounts, i).id = i
               /\ FromBuffer(ToBuffer(accounts, i)) = accounts[i]
    BY <1>3, <1>4, BufferType DEF ToBuffer
  <1>5. CASE StopRun(q)
    BY <1>0, <1>1, <1>2, <1>5, StopQuiet DEF files
  <1>6. CASE ~StopRun(q) /\ ReadSource(q)
    <2>1. PICK order \in Orders :
            /\ View(q)[order[1]] # None /\ Use(q)
            /\ record' = [record EXCEPT ![q] = ToBuffer(View(q), order[1])]
            /\ Goto(q, "t_destination") /\ UNCHANGED <<logPage, peer>>
      BY <1>6 DEF ReadSource
    <2>2. order[1] \in Ids
      BY BankProcsOK
    <2>3. /\ record'[q] = ToBuffer(accounts, order[1])
          /\ pc'[q] = "t_destination"
          /\ page'[q] = accounts /\ q \notin dirty'
      BY <1>0, <1>2, <1>3, <2>1 DEF Goto, Use
    <2>4. IsRead(record[q])'
      BY <1>1, <1>3, <1>4, <2>1, <2>2, <2>3 DEF IsRead, files
    <2> QED
      BY <1>0, <1>1, <1>2, <2>1, <2>3, <2>4, PageQuiet
      DEF BuffersOK, Making, Settled, Paying
  <1>7. CASE ~StopRun(q) /\ ReadDestination(q)
    <2>1. PICK order \in Orders :
            /\ View(q)[order[2]] # None /\ Use(q)
            /\ peer' = [peer EXCEPT ![q] = ToBuffer(View(q), order[2])]
            /\ Goto(q, "t_debit") /\ UNCHANGED <<logPage, record>>
      BY <1>7 DEF ReadDestination
    <2>2. order[2] \in Ids
      BY BankProcsOK
    <2>3. /\ peer'[q] = ToBuffer(accounts, order[2]) /\ pc'[q] = "t_debit"
          /\ page'[q] = accounts /\ q \notin dirty'
      BY <1>0, <1>2, <1>3, <2>1 DEF Goto, Use
    <2>4. IsRead(peer[q])'
      BY <1>1, <1>3, <1>4, <2>1, <2>2, <2>3 DEF IsRead, files
    <2>5. IsRead(record[q])'
      BY <1>1, <1>7, <2>1
      DEF ReadDestination, At, LedgerInv, BuffersOK, IsRead, files
    <2> QED
      BY <1>0, <1>1, <1>2, <2>1, <2>3, <2>4, <2>5, PageQuiet
      DEF BuffersOK, Making, Settled, Paying
  <1> QED
    BY <1>5, <1>6, <1>7

\* The debit changes the page by the source alone.
LEMMA DebitQuiet ==
    ASSUME BankInv, NEW q, Procs = {q}, LedgerInv(q), Debit(q)
    PROVE  Implements(q)
  <1> USE DEF Implements
  <1>0. /\ q \in Procs /\ pc \in [Procs -> Statements]
        /\ page \in [Procs -> Book \cup {None}]
        /\ record \in [Procs -> Buffer \cup {None}]
        /\ amount \in [Procs -> Amounts \cup {0}]
    BY DEF BankInv, BankTypeOK
  <1>1. UNCHANGED files /\ pc[q] = "t_debit"
    BY DEF Debit, At
  <1>2. q \notin dirty /\ IsRead(record[q]) /\ IsRead(peer[q])
    BY <1>1 DEF LedgerInv, PageOK, BuffersOK, Settled, Paying
  <1>3. View(q) = accounts /\ accounts \in Book /\ accounts # None
    BY <1>0, <1>1, <1>2, ViewIsAccounts, ViewType
    DEF UsesAccounts, BankInv, Ready
  <1>4. CASE StopRun(q)
    BY <1>0, <1>1, <1>4, StopQuiet DEF files
  <1>5. CASE ~StopRun(q)
    <2>1. PICK a \in Amounts :
            /\ record' = [record EXCEPT ![q] = Plus(record[q], -a)]
            /\ amount' = [amount EXCEPT ![q] = a]
            /\ Change(q, Rewritten(q, Plus(record[q], -a)))
            /\ Goto(q, "t_credit") /\ UNCHANGED <<logPage, peer>>
      BY <1>5 DEF Debit
    <2>2. record[q] \in Buffer /\ -a \in Int
      BY <1>2, BankSizesOK DEF IsRead
    <2>3. /\ Plus(record[q], -a).id = record[q].id
          /\ FromBuffer(Plus(record[q], -a)) = Plus(accounts[record[q].id], -a)
      BY <1>2, <2>2, PlusBuffer, PlusInBuffer DEF IsRead
    <2>4. /\ record'[q].id = record[q].id /\ amount'[q] = a
          /\ pc'[q] = "t_credit" /\ q \in dirty'
          /\ page'[q] = [accounts EXCEPT
               ![record[q].id] = Plus(accounts[record[q].id], -a)]
      BY <1>0, <1>3, <2>1, <2>3 DEF Change, Goto, Rewritten
    <2>5. Debited(q)'
      BY <1>1, <1>2, <2>1, <2>4 DEF Debited, IsRead, files
    <2> QED
      BY <1>1, <1>3, <2>1, <2>4, <2>5
      DEF LedgerInv, PageOK, BuffersOK, FilesOK, LogOK, Quiet, files, Making,
          Settled, Paying
  <1> QED
    BY <1>4, <1>5

\* The credit completes the payment in the page.
LEMMA CreditQuiet ==
    ASSUME BankInv, NEW q, Procs = {q}, LedgerInv(q), Credit(q)
    PROVE  Implements(q)
  <1> USE DEF Implements
  <1>0. /\ q \in Procs /\ pc \in [Procs -> Statements]
        /\ page \in [Procs -> Book \cup {None}]
        /\ peer \in [Procs -> Buffer \cup {None}]
    BY DEF BankInv, BankTypeOK
  <1>1. /\ pc[q] = "t_credit" /\ pc'[q] = "j_open"
        /\ UNCHANGED <<files, logPage, record, amount>>
    BY <1>0 DEF Credit, At, Goto
  <1>2. q \in dirty /\ accounts # None /\ Debited(q)
    BY <1>1 DEF LedgerInv, PageOK, Settled, Paying
  <1>3. /\ accounts \in Book /\ View(q) = page[q] /\ page[q] \in Book
        /\ peer[q] \in Buffer /\ record[q] \in Buffer /\ amount[q] \in Int
    BY <1>1, <1>2, AmountType
    DEF BankInv, BankTypeOK, Ready, HasRecord, HasPeer, Paying, View, Debited,
        IsRead
  <1> DEFINE s == record[q].id
             d == peer[q].id
             r == Plus(peer[q], amount[q])
  <1>4. s \in Ids /\ d \in Ids
    BY <1>3, BufferType
  <1>5. r.id = d /\ FromBuffer(r) = Plus(accounts[d], amount[q])
    BY <1>2, <1>3, PlusBuffer, PlusInBuffer DEF Debited, IsRead
  <1>6. page[q][d] # None
    <2>1. accounts[s] \in Account /\ accounts[d] # None
      BY <1>2, <1>3, <1>4 DEF Book, Debited, IsRead
    <2>2. Plus(accounts[s], -amount[q]) # None
      BY <1>3, <2>1, PlusAccount, NoneOK
    <2> QED
      BY <1>2, <1>3, <1>4, <2>1, <2>2 DEF Book, Debited
  <1>7. /\ page'[q] = [page[q] EXCEPT ![r.id] = FromBuffer(r)]
        /\ q \in dirty' /\ peer'[q] = r
    BY <1>0, <1>3, <1>6 DEF Credit, Change, Use, Rewritten
  <1>8. page'[q] = L!Paid(accounts, s, d, amount[q])
    <2> HIDE DEF r, s, d
    <2>1. page[q] = [accounts EXCEPT ![s] = Plus(accounts[s], -amount[q])]
      BY <1>2 DEF Debited, s
    <2> QED
      BY <1>3, <1>4, <1>5, <1>7, <2>1, PaidIs DEF Book
  <1>9. Moved(q)'
    BY <1>1, <1>2, <1>5, <1>7, <1>8, PaidIs
    DEF Moved, Debited, IsRead, files
  <1> HIDE DEF r, s, d
  <1> QED
    BY <1>1, <1>2, <1>7, <1>9
    DEF LedgerInv, PageOK, BuffersOK, FilesOK, LogOK, Quiet, files, Making,
        Settled, Paying

-----------------------------------------------------------------------------
(* Steps that pay and record.                                              *)

\* What is written to the journal is an entry.
LEMMA TransactionType ==
    ASSUME BankInv, NEW q \in Procs, pc[q] \in Paying
    PROVE  Transaction(q) \in Entry /\ Transaction(q) # None
  <1>1. /\ record[q] \in Buffer /\ peer[q] \in Buffer
        /\ amount[q] \in Amounts
    BY DEF BankInv, BankTypeOK, Ready, HasRecord, HasPeer
  <1>2. Transaction(q) \in Entry
    BY <1>1, BufferType DEF Transaction, Entry
  <1> QED
    BY <1>2, NoneOK

\* The transaction is written to a page of the journal.
LEMMA WriteQuiet ==
    ASSUME BankInv, NEW q, Procs = {q}, LedgerInv(q), WriteTransaction(q)
    PROVE  Implements(q)
  <1>1. /\ pc[q] = "t_write" /\ pc'[q] = "t_close" /\ journal # None
        /\ UNCHANGED <<files, page, dirty, number, record, peer, amount>>
    BY DEF WriteTransaction, At, Goto, storage, BankInv, BankTypeOK, Ready,
           UsesJournal
  <1>2. q \in dirty /\ accounts # None /\ Moved(q) /\ logPage[q] = None
    BY <1>1 DEF LedgerInv, PageOK, LogOK, Settled, Paying
  <1>3. PageOK(q)'
    BY <1>1, <1>2, PaidIs DEF PageOK, Moved, files, Settled, Paying
  <1>4. LogOK(q)'
    <2>1. \/ UNCHANGED logPage
          \/ /\ journal[number[q]] = None
             /\ logPage'[q] = [journal EXCEPT ![number[q]] = Transaction(q)]
      BY DEF WriteTransaction, BankInv, BankTypeOK
    <2> QED
      BY <1>1, <1>2, <2>1 DEF LogOK, Transaction, files
  <1> QED
    BY <1>1, <1>3, <1>4
    DEF Implements, LedgerInv, BuffersOK, FilesOK, Quiet, files, Making

\* CLOSE of ACCOUNTS.DAT pays.
LEMMA ClosePays ==
    ASSUME BankInv, NEW q, Procs = {q}, LedgerInv(q), TransferClose(q)
    PROVE  Implements(q)
  <1>1. /\ pc[q] = "t_close" /\ pc'[q] = "j_close"
        /\ UNCHANGED <<journal, logPage, number, record, peer, amount>>
        /\ page'[q] = None /\ q \notin dirty'
    BY DEF TransferClose, WriteBack, At, Goto, storage, BankInv, BankTypeOK
  <1>2. /\ q \in dirty /\ accounts # None /\ Moved(q)
        /\ accounts' = page[q] /\ page[q] # None
    BY <1>1
    DEF TransferClose, WriteBack, LedgerInv, PageOK, Settled, Paying, BankInv,
        Ready
  <1>3. /\ record[q].id \in Ids /\ peer[q].id \in Ids
        /\ amount[q] \in Amounts
    BY <1>1, BufferType
    DEF BankInv, BankTypeOK, Ready, HasRecord, HasPeer, Paying
  <1>4. AbstractDue = None /\ AbstractDue' = Transaction(q)
    BY <1>1, DueIs DEF Seen, Transaction
  <1>5. L!Pay(record[q].id, peer[q].id, amount[q])
    <2>1. /\ Running = TRUE /\ Running' = Running
          /\ Unnumbered' = Unnumbered
      BY <1>1, RunGoesOn DEF TransferClose, locks
    <2> QED
      BY <1>1, <1>2, <1>4, <2>1 DEF L!Pay, L!Free, OnDisk, Moved, Transaction
  <1>6. LedgerInv(q)'
    BY <1>1
    DEF LedgerInv, PageOK, BuffersOK, FilesOK, LogOK, Making, Settled, Paying,
        Transaction
  <1>7. L!LedgerNext
    BY <1>3, <1>5 DEF L!LedgerNext, L!Ids, Ids
  <1> QED
    BY <1>6, <1>7 DEF Implements

\* CLOSE of TRANSACTIONS.DAT records the payment, unless its number was
\* taken; then it was 1 and the counter is empty.
LEMMA CloseRecords ==
    ASSUME BankInv, NEW q, Procs = {q}, LedgerInv(q), CounterOK(q),
           JournalClose(q)
    PROVE  Implements(q)
  <1>1. /\ pc[q] = "j_close" /\ pc'[q] = "t_end" /\ logPage'[q] = None
        /\ UNCHANGED <<accounts, page, dirty>>
        /\ journal' = IF logPage[q] # None THEN logPage[q] ELSE journal
    BY DEF JournalClose, At, Goto, BankInv, BankTypeOK
  <1>2. AbstractDue = Transaction(q) /\ AbstractDue' = None
    BY <1>1, DueIs DEF Seen
  <1>3. Transaction(q) # None
    BY <1>1, TransactionType DEF Paying
  <1>4. LedgerInv(q)'
    BY <1>1
    DEF LedgerInv, PageOK, BuffersOK, FilesOK, LogOK, Making, Settled, Paying
  <1>5. /\ Running = TRUE /\ Running' = Running
        /\ Unnumbered' = Unnumbered
    BY <1>1, RunGoesOn DEF JournalClose, locks
  <1>6. Unnumbered => LastId = Empty
    BY DEF Unnumbered, LastId
  <1>7. CASE logPage[q] = None
    <2>1. LastId = Empty /\ InJournal(1) /\ journal' = journal
      BY <1>1, <1>7 DEF CounterOK, NumberOK
    <2>2. Unnumbered = TRUE
      BY <1>1, <2>1, RunningIs
    <2>3. L!Refuse
      BY <1>1, <1>2, <1>3, <1>5, <2>1, <2>2 DEF L!Refuse, InJournal
    <2> QED
      BY <1>4, <2>3 DEF L!LedgerNext, Implements
  <1>8. CASE logPage[q] # None
    <2>1. /\ journal # None /\ journal[number[q]] = None
          /\ journal' = [journal EXCEPT ![number[q]] = Transaction(q)]
          /\ journal' # None /\ number[q] \in Ids
      BY <1>1, <1>8 DEF LedgerInv, LogOK, BankInv, BankTypeOK
    <2>2. Unnumbered => number[q] = 1
      BY <1>1, <1>6, BankProcsOK DEF CounterOK, NumberOK
    <2>3. L!Record(number[q])
      BY <1>1, <1>2, <1>3, <1>5, <2>1, <2>2 DEF L!Record, OnDisk
    <2> QED
      BY <1>4, <2>1, <2>3 DEF L!LedgerNext, L!Ids, Ids, Implements
  <1> QED
    BY <1>7, <1>8

\* The steps of a transfer.
LEMMA TransferImplements ==
    ASSUME BankInv, NEW q, Procs = {q}, LedgerInv(q), CounterOK(q),
           TransferStep(q)
    PROVE  Implements(q)
  <1>1. CASE TransferEnd(q)
    BY <1>1, StopQuiet DEF TransferEnd, At, files, Implements
  <1>2. CASE ~TransferEnd(q)
    BY <1>2, RecordingQuiet, ReadQuiet, DebitQuiet, CreditQuiet, WriteQuiet,
       ClosePays, CloseRecords
    DEF TransferStep, Implements
  <1> QED
    BY <1>1, <1>2

\* A killed program has done nothing, or has paid and does not record.
LEMMA CrashForgets ==
    ASSUME BankInv, NEW q, Procs = {q}, LedgerInv(q), Crash(q)
    PROVE  Implements(q)
  <1>1. StopRun(q) /\ UNCHANGED <<accounts, journal>> /\ q \in Procs
    BY DEF Crash, files
  <1>2. CASE pc[q] # "j_close"
    BY <1>1, <1>2, StopQuiet DEF Implements
  <1>3. CASE pc[q] = "j_close"
    <2>1. /\ pc'[q] = "idle" /\ page'[q] = None /\ q \notin dirty'
          /\ logPage'[q] = None
      BY <1>1 DEF StopRun, Goto, BankInv, BankTypeOK
    <2>2. AbstractDue = Transaction(q) /\ AbstractDue' = None
      BY <1>3, <2>1, DueIs DEF Seen
    <2>3. /\ Running = TRUE /\ Running' = FALSE
          /\ Unnumbered' = Unnumbered
      BY <1>3, <2>1, RunEnds DEF Crash
    <2>4. L!Kill
      BY <1>1, <2>2, <2>3 DEF L!Kill, Crash
    <2>5. LedgerInv(q)'
      BY <2>1
      DEF LedgerInv, PageOK, BuffersOK, FilesOK, LogOK, Making, Settled, Paying
    <2> QED
      BY <2>4, <2>5 DEF Implements, L!LedgerNext
  <1> QED
    BY <1>2, <1>3

-----------------------------------------------------------------------------
(* The counter of the journal.                                             *)

\* Opening a journal changes no entry.
LEMMA SameEntries ==
    ASSUME journal' = journal \/ (journal = None /\ journal' = EmptyLog)
    PROVE  \A i : InJournal(i)' <=> InJournal(i)
  BY BufferType DEF InJournal, OnDisk

\* A step away from the counter of the journal.
LEMMA CounterAside ==
    ASSUME BankInv, NEW q \in Procs, CounterOK(q),
           LastId' = LastId,
           holder'["transactions"] = holder["transactions"],
           journal' = journal \/ (journal = None /\ journal' = EmptyLog),
           pc[q] \notin Numbering \cup {"t_new"},
           pc'[q] \notin Numbering \cup {"t_new"},
           pc'[q] \in Unread =>
             \/ pc[q] \in Unread
             \/ LastId \in Ids => LastId + 1 < IdLimit
    PROVE  CounterOK(q)'
  <1>1. \A i : InJournal(i)' <=> InJournal(i)
    BY SameEntries
  <1>2. LockOK(q)' /\ (LastId' # None \/ pc'[q] \notin Numbering)
    BY DEF CounterOK, LockOK, Numbering
  <1>3. JournalOK(q)'
    BY <1>1 DEF CounterOK, JournalOK, Numbering
  <1>4. NumberOK(q)'
    <2>1. pc'[q] \notin {"t_rewrite", "t_write", "t_close", "j_close"}
      BY DEF Numbering
    <2> QED
      BY <2>1 DEF CounterOK, NumberOK
  <1> QED
    BY <1>2, <1>3, <1>4 DEF CounterOK

\* STOP RUN and a kill release the lock, if the process has it.
LEMMA CounterStops ==
    ASSUME BankInv, NEW q \in Procs, CounterOK(q), StopRun(q),
           UNCHANGED <<journal, counter>>,
           \/ holder' = Unlocked(q)
           \/ UNCHANGED holder /\ pc[q] \notin Numbering
    PROVE  CounterOK(q)'
  <1>1. pc'[q] = "idle" /\ "transactions" \in Counters
    BY DEF StopRun, Goto, BankInv, BankTypeOK, Counters
  <1>2. holder'["transactions"] = None
    BY <1>1 DEF CounterOK, LockOK, Unlocked
  <1>3. LastId' = LastId /\ \A i : InJournal(i)' <=> InJournal(i)
    BY DEF LastId, InJournal
  <1> QED
    BY <1>1, <1>2, <1>3
    DEF CounterOK, LockOK, JournalOK, NumberOK, Numbering, Unread

\* No program but a transfer has to do with it.
LEMMA CounterElsewhere ==
    ASSUME BankInv, NEW q \in Procs, CounterOK(q), LedgerInv(q),
           CreationStep(q) \/ DeletionStep(q) \/ QueryStep(q)
    PROVE  CounterOK(q)'
  <1> DEFINE Elsewhere == Statements \ (Unread \cup Numbering)
  <1>1. /\ pc \in [Procs -> Statements]
        /\ counter \in [Counters -> Ids \cup {None, Empty}]
        /\ holder \in [Counters -> Procs \cup {None}]
        /\ "accounts" \in Counters /\ "transactions" \in Counters
    BY DEF BankInv, BankTypeOK, Counters
  <1>2. /\ pc[q] \in Elsewhere /\ pc'[q] \in Elsewhere
        /\ journal' = journal \/ (journal = None /\ journal' = EmptyLog)
    <2>1. CASE CreationStep(q)
      BY <1>1, <2>1
      DEF CreationStep, CreationOpen, CreationMake, CreationCounter,
          CreationCounterNew, CreationCounterZero, CreationRead,
          CreationRewrite, TypeName, WriteAccount, CreationClose,
          CreationEnd, OpenAccounts, CreateAccounts, OpenCounter,
          CreateCounter, ZeroCounter, ReadCounter, RewriteCounter, StopRun,
          At, Goto, files, Statements, Unread, Numbering
    <2>2. CASE DeletionStep(q)
      BY <1>1, <2>2
      DEF DeletionStep, DeletionOpen, DeletionMake, FindAccount,
          DeleteAccount, DeletionClose, OpenAccounts, CreateAccounts,
          StopRun, At, Goto, files, Statements, Unread, Numbering
    <2>3. CASE QueryStep(q)
      BY <1>1, <2>3
      DEF QueryStep, ListOpen, ListMake, SearchOpen, SearchMake, HistoryOpen,
          HistoryMake, ListAccounts, SearchBalance, ListHistory, Display,
          OpenAccounts, CreateAccounts, OpenTransactions,
          CreateTransactions, StopRun, At, Goto, files, Statements, Unread,
          Numbering, LedgerInv, FilesOK
    <2> QED
      BY <2>1, <2>2, <2>3
  <1>3. LastId' = LastId /\ holder'["transactions"] = holder["transactions"]
    <2>1. CASE CreationStep(q)
      <3>1. CASE CreationEnd(q)
        <4>1. holder["transactions"] = None
          BY <1>2 DEF CounterOK, LockOK
        <4> QED
          BY <1>1, <3>1, <4>1 DEF CreationEnd, Unlocked, LastId
      <3>2. CASE ~CreationEnd(q)
        BY <1>1, <2>1, <3>2
        DEF CreationStep, CreationOpen, CreationMake, CreationCounter,
            CreationCounterNew, CreationCounterZero, CreationRead,
            CreationRewrite, TypeName, WriteAccount, CreationClose,
            OpenAccounts, CreateAccounts, OpenCounter, CreateCounter,
            ZeroCounter, ReadCounter, RewriteCounter, Lock, locks, LastId
      <3> QED
        BY <3>1, <3>2
    <2>2. CASE DeletionStep(q) \/ QueryStep(q)
      BY <2>2
      DEF DeletionStep, DeletionOpen, DeletionMake, FindAccount,
          DeleteAccount, DeletionClose, QueryStep, ListOpen, ListMake,
          SearchOpen, SearchMake, HistoryOpen, HistoryMake, ListAccounts,
          SearchBalance, ListHistory, Display, OpenAccounts,
          CreateAccounts, OpenTransactions, CreateTransactions, locks,
          LastId
    <2> QED
      BY <2>1, <2>2
  <1> QED
    BY <1>2, <1>3, CounterAside DEF Unread, Numbering

\* A transfer is started only if its number will have room.
LEMMA CounterStarts ==
    ASSUME BankInv, NEW q, Procs = {q}, CounterOK(q), Start(q)
    PROVE  CounterOK(q)' /\ pc'[q] \notin {"idle", "t_zero"}
  <1>0. q \in Procs /\ pc \in [Procs -> Statements]
    BY DEF BankInv, BankTypeOK
  <1>1. PICK program \in Programs :
          /\ program = "transfer" => RoomLeft("transactions")
          /\ Goto(q, FirstStatement[program])
    BY DEF Start
  <1>2. program \in {"creation", "deletion", "transfer", "list", "search",
                     "history"}
    BY OpeningOK
  <1>3. /\ pc'[q] \in {"c_open", "d_open", "t_open", "l_open", "s_open",
                       "h_open"}
        /\ pc'[q] = "t_open" => program = "transfer"
    BY <1>0, <1>1, <1>2 DEF FirstStatement, Goto
  <1>4. Cardinality(Procs) = 1
    BY FS_Singleton
  <1>5. pc'[q] \in Unread => (LastId \in Ids => LastId + 1 < IdLimit)
    BY <1>1, <1>3, <1>4 DEF RoomLeft, LastId, Unread
  <1> QED
    BY <1>0, <1>3, <1>5, CounterAside
    DEF Start, At, files, locks, LastId, Numbering

\* The steps of a transfer.
LEMMA CounterInTransfer ==
    ASSUME BankInv, NEW q, Procs = {q}, CounterOK(q), LedgerInv(q),
           TransferStep(q)
    PROVE  CounterOK(q)'
  <1> USE DEF At, Goto
  <1>0. /\ q \in Procs /\ pc \in [Procs -> Statements]
        /\ number \in [Procs -> Ids]
        /\ counter \in [Counters -> Ids \cup {None, Empty}]
        /\ holder \in [Counters -> Procs \cup {None}]
        /\ logPage \in [Procs -> Log \cup {None}]
        /\ "transactions" \in Counters
    BY DEF BankInv, BankTypeOK, Counters
  <1>1. /\ None \notin Ids /\ Empty \notin Ids /\ Empty # None
        /\ q # None /\ 0 \in Ids /\ 1 \in Ids /\ Ids \subseteq Nat
        /\ IdLimit \in Nat /\ IdLimit > 1
    BY <1>0, BankProcsOK, NoneOK, BankSizesOK DEF Ids
  <1>2. CASE \/ TransferOpen(q) \/ TransferMake(q)
             \/ ReadSource(q) \/ ReadDestination(q) \/ Debit(q)
             \/ Credit(q) \/ JournalOpen(q) \/ JournalMake(q)
    <2>1. /\ UNCHANGED locks
          /\ journal' = journal \/ (journal = None /\ journal' = EmptyLog)
          /\ pc[q] \in Unread \ {"t_new", "t_zero", "t_read"}
          /\ pc'[q] = "idle" \/ pc'[q] \in Unread \ {"t_new", "t_zero", "t_read"}
      BY <1>0, <1>2
      DEF TransferOpen, TransferMake, ReadSource, ReadDestination, Debit,
          Credit, JournalOpen, JournalMake, OpenAccounts, CreateAccounts,
          OpenTransactions, CreateTransactions, StopRun, files, Unread,
          LedgerInv, FilesOK
    <2> QED
      BY <1>0, <2>1, CounterAside DEF locks, LastId, Unread, Numbering
  <1>3. CASE TransferCounter(q)
    <2>1. /\ pc[q] = "t_count" /\ holder["transactions"] = None
          /\ counter' = counter /\ journal' = journal
      BY <1>3 DEF TransferCounter, OpenCounter, files, CounterOK, LockOK, Numbering
    <2>2. \/ LastId = None /\ pc'[q] = "t_new" /\ holder' = holder
          \/ LastId # None /\ pc'[q] = "t_read" /\ holder'["transactions"] = q
      BY <1>0, <1>3, <2>1 DEF TransferCounter, OpenCounter, Lock, LastId
    <2> QED
      BY <1>0, <1>1, <2>1, <2>2, SameEntries
      DEF CounterOK, LockOK, JournalOK, NumberOK, Numbering, Unread, LastId
  <1>4. CASE TransferCounterNew(q)
    <2>1. /\ pc[q] = "t_new" /\ pc'[q] = "t_zero" /\ LastId = None
          /\ LastId' = Empty /\ holder'["transactions"] = q
          /\ journal' = journal
      BY <1>0, <1>4
      DEF TransferCounterNew, CreateCounter, Lock, files, LastId, CounterOK,
          LockOK, Numbering
    <2> QED
      BY <1>1, <2>1, SameEntries
      DEF CounterOK, LockOK, JournalOK, NumberOK, Numbering
  <1>5. CASE TransferCounterZero(q)
    <2>1. /\ pc[q] = "t_zero" /\ pc'[q] = "t_count" /\ LastId' = 0
          /\ holder'["transactions"] = None /\ journal' = journal
      BY <1>0, <1>5
      DEF TransferCounterZero, ZeroCounter, files, LastId, CounterOK, LockOK,
          Numbering
    <2>2. 0 + 1 < IdLimit
      BY <1>1
    <2> QED
      BY <1>1, <2>1, <2>2, SameEntries
      DEF CounterOK, LockOK, JournalOK, NumberOK, Numbering
  <1>6. CASE TransferRead(q)
    <2>1. /\ pc[q] = "t_read" /\ LastId' = LastId /\ holder' = holder
          /\ journal' = journal /\ LastId \in Ids \cup {Empty}
          /\ holder["transactions"] = q
      BY <1>0, <1>6
      DEF TransferRead, ReadCounter, files, locks, LastId, CounterOK, LockOK,
          Numbering
    <2>2. CASE LastId \in Ids
      <3>1. LastId + 1 < IdLimit /\ NextId(LastId) = LastId + 1
        BY <2>1, <2>2, NextIds DEF CounterOK, NumberOK, Unread
      <3>2. number'[q] = LastId + 1 /\ pc'[q] = "t_rewrite" /\ LastId + 1 \in Ids
        BY <1>0, <1>1, <1>6, <2>1, <2>2, <3>1
        DEF TransferRead, ReadCounter, LastId, Ids
      <3> QED
        BY <1>1, <2>1, <2>2, <3>2, SameEntries
        DEF CounterOK, LockOK, JournalOK, NumberOK, Numbering, Unread
    <2>3. CASE LastId = Empty
      <3>1. number'[q] = 1 /\ pc'[q] = "t_write"
        BY <1>0, <1>6, <2>1, <2>3, NextIds DEF TransferRead, ReadCounter, LastId
      <3> QED
        BY <1>1, <2>1, <2>3, <3>1, SameEntries
        DEF CounterOK, LockOK, JournalOK, NumberOK, Numbering, Unread
    <2> QED
      BY <2>1, <2>2, <2>3
  <1>7. CASE TransferRewrite(q)
    <2>1. /\ pc[q] = "t_rewrite" /\ pc'[q] = "t_write"
          /\ LastId \in Ids /\ number[q] = LastId + 1 /\ number[q] \in Ids
          /\ LastId' = number[q] /\ number' = number
          /\ holder' = holder /\ holder["transactions"] = q
          /\ journal' = journal
      BY <1>0, <1>7
      DEF TransferRewrite, RewriteCounter, files, storage, LastId, CounterOK,
          LockOK, NumberOK, Numbering
    <2>2. /\ LastId \in Nat /\ LastId' # 0 /\ number[q] \notin 1..LastId
          /\ \A i \in 1..LastId : i \in 1..LastId'
      BY <1>1, <2>1
    <2>3. \A i \in Ids : InJournal(i) => i \in 1..LastId
      BY <2>1 DEF CounterOK, JournalOK
    <2>4. ~InJournal(number[q])
      BY <2>1, <2>2, <2>3
    <2> QED
      BY <1>1, <2>1, <2>2, <2>3, <2>4, SameEntries
      DEF CounterOK, LockOK, JournalOK, NumberOK, Numbering, Unread
  <1>8. CASE WriteTransaction(q)
    <2>1. /\ pc[q] = "t_write" /\ pc'[q] = "t_close" /\ journal' = journal
          /\ LastId' = LastId /\ holder' = holder /\ number' = number
          /\ journal # None /\ number[q] \in Ids
      BY <1>0, <1>8
      DEF WriteTransaction, files, locks, storage, LastId, BankInv, Ready,
          UsesJournal
    <2>2. CASE ~InJournal(number[q])
      <3>1. logPage'[q] # None
        BY <1>0, <1>8, <2>1, <2>2, TransactionType, NoneOK
        DEF WriteTransaction, InJournal, OnDisk, Log, Paying, BankInv,
            BankTypeOK
      <3> QED
        BY <1>1, <2>1, <3>1, SameEntries
        DEF CounterOK, LockOK, JournalOK, NumberOK, Numbering, Unread
    <2>3. CASE InJournal(number[q])
      <3>1. LastId = Empty /\ number[q] = 1
        BY <1>1, <2>1, <2>3 DEF CounterOK, NumberOK
      <3> QED
        BY <1>1, <2>1, <2>3, <3>1, SameEntries
        DEF CounterOK, LockOK, JournalOK, NumberOK, Numbering, Unread
    <2> QED
      BY <2>2, <2>3
  <1>9. CASE TransferClose(q)
    <2>1. /\ pc[q] = "t_close" /\ pc'[q] = "j_close" /\ journal' = journal
          /\ LastId' = LastId /\ UNCHANGED <<holder, number, logPage>>
      BY <1>0, <1>9 DEF TransferClose, locks, storage, LastId
    <2> QED
      BY <1>1, <2>1, SameEntries
      DEF CounterOK, LockOK, JournalOK, NumberOK, Numbering, Unread
  <1>10. CASE JournalClose(q)
    <2>1. /\ pc[q] = "j_close" /\ pc'[q] = "t_end" /\ number[q] \in Ids
          /\ LastId' = LastId /\ UNCHANGED holder /\ LastId # None
          /\ \/ LastId \in Ids \ {0} /\ number[q] = LastId
             \/ LastId = Empty /\ number[q] = 1
      BY <1>0, <1>10
      DEF JournalClose, locks, LastId, CounterOK, NumberOK, Numbering
    <2>2. \A i \in Ids : InJournal(i)' => InJournal(i) \/ i = number[q]
      <3>1. CASE logPage[q] = None
        BY <1>10, <3>1 DEF JournalClose, InJournal
      <3>2. CASE logPage[q] # None
        <4>1. /\ journal # None
              /\ journal' = [journal EXCEPT ![number[q]] = Transaction(q)]
              /\ journal' # None
          BY <1>0, <1>10, <3>2, NoneOK DEF JournalClose, LedgerInv, LogOK
        <4> QED
          BY <4>1 DEF InJournal, OnDisk
      <3> QED
        BY <3>1, <3>2
    <2>3. LastId \in Ids \ {0} => LastId \in 1..LastId
      BY <1>1
    <2>4. JournalOK(q)'
      BY <1>1, <2>1, <2>2, <2>3 DEF CounterOK, JournalOK
    <2> QED
      BY <1>1, <2>1, <2>4 DEF CounterOK, LockOK, NumberOK, Numbering, Unread
  <1>11. CASE TransferEnd(q)
    BY <1>0, <1>11, CounterStops DEF TransferEnd, files
  <1> QED
    BY <1>2, <1>3, <1>4, <1>5, <1>6, <1>7, <1>8, <1>9, <1>10, <1>11
    DEF TransferStep

\* The counter of the journal goes with the journal.
LEMMA CounterOKStep ==
    ASSUME BankInv, NEW q, Procs = {q}, Pressure = FALSE, CounterOK(q),
           LedgerInv(q), Step(q)
    PROVE  CounterOK(q)'
  <1>1. CASE Crash(q)
    BY <1>1, CounterStops DEF Crash, files
  <1>2. CASE ~Crash(q)
    <2>1. ~CacheStep(q)
      BY DEF CacheStep, FlushAccounts, DropAccounts, FlushTransactions
    <2> QED
      BY <1>2, <2>1, CounterStarts, CounterElsewhere, CounterInTransfer
      DEF Step, ProgramStep
  <1> QED
    BY <1>1, <1>2

-----------------------------------------------------------------------------
(* The refinement.                                                         *)

\* What a statement does to the numbering.
LEMMA NumberingStays ==
    ASSUME BankInv, NEW q \in Procs, CounterOK(q), ProgramStep(q)
    PROVE  /\ pc[q] # "idle"
           /\ pc'[q] = "idle" => counter' = counter /\ pc[q] # "t_zero"
           /\ (LastId = Empty /\ pc[q] # "t_zero") =
                (LastId' = Empty /\ pc'[q] # "t_zero")
  <1> USE DEF At, Goto
  <1>1. /\ pc \in [Procs -> Statements]
        /\ counter \in [Counters -> Ids \cup {None, Empty}]
        /\ number \in [Procs -> Ids]
        /\ "accounts" \in Counters /\ "transactions" \in Counters
        /\ Empty \notin Ids /\ Empty # None /\ 0 \in Ids
    BY BankProcsOK, AmountType DEF BankInv, BankTypeOK, Counters
  <1>2. CASE TransferCounterNew(q)
    BY <1>1, <1>2
    DEF TransferCounterNew, CreateCounter, CounterOK, LockOK, LastId
  <1>3. CASE TransferCounterZero(q)
    BY <1>1, <1>3
    DEF TransferCounterZero, ZeroCounter, CounterOK, LockOK, LastId, Numbering
  <1>4. CASE TransferRewrite(q)
    BY <1>1, <1>4
    DEF TransferRewrite, RewriteCounter, CounterOK, NumberOK, LastId
  <1>5. CASE CreationStep(q)
    BY <1>1, <1>5
    DEF CreationStep, CreationOpen, CreationMake, CreationCounter,
        CreationCounterNew, CreationCounterZero, CreationRead,
        CreationRewrite, TypeName, WriteAccount, CreationClose,
        CreationEnd, OpenAccounts, CreateAccounts, OpenCounter,
        CreateCounter, ZeroCounter, ReadCounter, RewriteCounter, StopRun,
        locks, LastId
  <1>6. CASE DeletionStep(q) \/ QueryStep(q)
    BY <1>1, <1>6
    DEF DeletionStep, DeletionOpen, DeletionMake, FindAccount,
        DeleteAccount, DeletionClose, QueryStep, ListOpen, ListMake,
        SearchOpen, SearchMake, HistoryOpen, HistoryMake, ListAccounts,
        SearchBalance, ListHistory, Display, OpenAccounts, CreateAccounts,
        OpenTransactions, CreateTransactions, StopRun, locks, LastId
  <1>7. CASE /\ TransferStep(q) /\ ~TransferCounterNew(q)
             /\ ~TransferCounterZero(q) /\ ~TransferRewrite(q)
    BY <1>1, <1>7
    DEF TransferStep, TransferOpen, TransferMake, ReadSource,
        ReadDestination, Debit, Credit, JournalOpen, JournalMake,
        TransferCounter, TransferRead, WriteTransaction, TransferClose,
        JournalClose, TransferEnd, OpenAccounts, CreateAccounts,
        OpenTransactions, CreateTransactions, OpenCounter, ReadCounter,
        StopRun, locks, LastId
  <1> QED
    BY <1>2, <1>3, <1>4, <1>5, <1>6, <1>7 DEF ProgramStep

\* A kill is one of the two of the ledger.
LEMMA KillsAre ==
    ASSUME BankInv, NEW q, Procs = {q}, CounterOK(q), Crash(q), Quiet(q)
    PROVE  L!LedgerNext
  <1>1. /\ q \in Procs /\ pc[q] # "idle" /\ MayCrash /\ counter' = counter
        /\ pc'[q] = "idle"
    BY DEF Crash, StopRun, Goto, BankInv, BankTypeOK
  <1>2. /\ AbstractDue = None /\ AbstractDue' = None
        /\ OnDisk(accounts, EmptyBook)' = OnDisk(accounts, EmptyBook)
        /\ OnDisk(journal, EmptyLog)' = OnDisk(journal, EmptyLog)
    BY QuietKeeps
  <1>3. CASE pc[q] = "t_zero"
    <2>1. LastId = Empty /\ \A i \in Ids : ~InJournal(i)
      BY <1>3 DEF CounterOK, LockOK, JournalOK
    <2>2. OnDisk(journal, EmptyLog) = EmptyLog
      <3>1. OnDisk(journal, EmptyLog) \in Log
        BY BufferType DEF OnDisk, BankInv, BankTypeOK
      <3> QED
        BY <2>1, <3>1 DEF InJournal, Log, EmptyLog
    <2>3. /\ Running = TRUE /\ Running' = FALSE /\ Unnumbered' = TRUE
      BY <1>1, <2>1, RunningIs DEF LastId
    <2>4. L!EmptyLog = EmptyLog
      BY DEF L!EmptyLog, L!Ids, EmptyLog, Ids
    <2>5. L!KillUnnumbered
      BY <1>1, <1>2, <2>2, <2>3, <2>4 DEF L!KillUnnumbered, L!Free
    <2> QED
      BY <2>5 DEF L!LedgerNext
  <1>4. CASE pc[q] # "t_zero"
    <2>1. Running = TRUE /\ Running' = FALSE /\ Unnumbered' = Unnumbered
      BY <1>1, <1>4, RunEnds
    <2>2. L!Kill
      BY <1>1, <1>2, <2>1 DEF L!Kill
    <2> QED
      BY <2>2 DEF L!LedgerNext
  <1> QED
    BY <1>3, <1>4

\* A quiet step begins a run, ends it or kills it, or is a stutter.
LEMMA QuietImplements ==
    ASSUME BankInv, NEW q, Procs = {q}, Pressure = FALSE, CounterOK(q),
           Step(q), Quiet(q)
    PROVE  L!LedgerNext \/ UNCHANGED L!ledgerVars
  <1>1. /\ AbstractDue = None /\ AbstractDue' = None
        /\ OnDisk(accounts, EmptyBook)' = OnDisk(accounts, EmptyBook)
        /\ OnDisk(journal, EmptyLog)' = OnDisk(journal, EmptyLog)
    BY QuietKeeps
  <1>2. CASE Start(q)
    <2>1. pc[q] = "idle" /\ pc'[q] \notin {"idle", "t_zero"} /\ LastId' = LastId
      BY <1>2, CounterStarts DEF Start, At, locks, LastId
    <2>2. Running = FALSE /\ Running' = TRUE /\ Unnumbered' = Unnumbered
      BY <2>1, RunningIs
    <2>3. L!Begin
      BY <1>1, <2>2 DEF L!Begin
    <2> QED
      BY <2>3 DEF L!LedgerNext
  <1>3. CASE Crash(q)
    BY <1>3, KillsAre
  <1>4. CASE ProgramStep(q)
    <2>1. CASE pc'[q] = "idle"
      <3>1. Running = TRUE /\ Running' = FALSE /\ Unnumbered' = Unnumbered
        BY <1>4, <2>1, NumberingStays, RunEnds
      <3>2. L!Stop
        BY <1>1, <3>1 DEF L!Stop, L!Free
      <3> QED
        BY <3>2 DEF L!LedgerNext
    <2>2. CASE pc'[q] # "idle"
      <3>1. Running' = Running /\ Unnumbered' = Unnumbered
        BY <1>4, <2>2, NumberingStays, RunningIs
      <3> QED
        BY <1>1, <3>1 DEF L!ledgerVars
    <2> QED
      BY <2>1, <2>2
  <1>5. ~CacheStep(q)
    BY DEF CacheStep, FlushAccounts, DropAccounts, FlushTransactions
  <1> QED
    BY <1>2, <1>3, <1>4, <1>5 DEF Step

\* Every step of the process is a step of the ledger or a stutter.
LEMMA LedgerStep ==
    ASSUME NEW q, Procs = {q}, Pressure = FALSE, BankInv, LedgerInv(q),
           CounterOK(q), [BankNext]_bankVars
    PROVE  /\ LedgerInv(q)' /\ CounterOK(q)'
           /\ L!LedgerNext \/ UNCHANGED L!ledgerVars
  <1>0. q \in Procs
    OBVIOUS
  <1>1. CASE UNCHANGED bankVars
    <2>1. LedgerInv(q)'
      BY <1>1, PaidIs
      DEF bankVars, files, locks, caches, storage, LedgerInv, PageOK,
          BuffersOK, FilesOK, LogOK, Opened, Closed, Debited, Moved, IsRead,
          Transaction
    <2>2. CounterOK(q)'
      BY <1>1
      DEF bankVars, files, locks, caches, storage, CounterOK, LockOK,
          JournalOK, NumberOK, InJournal, LastId
    <2>3. AbstractDue' = AbstractDue
      BY <1>1, DueIs DEF bankVars, storage, Seen, Transaction
    <2>4. Running' = Running /\ Unnumbered' = Unnumbered
      BY <1>1, RunningIs DEF bankVars, locks, LastId
    <2> QED
      BY <1>1, <2>1, <2>2, <2>3, <2>4 DEF bankVars, files, L!ledgerVars
  <1>2. CASE ~UNCHANGED bankVars
    <2>1. Step(q)
      BY <1>2 DEF BankNext, Step
    <2>2. ~CacheStep(q)
      BY DEF CacheStep, FlushAccounts, DropAccounts, FlushTransactions
    <2>3. Implements(q)
      BY <1>0, <2>1, <2>2, StartQuiet, CreationImplements,
         DeletionImplements, TransferImplements, QueryQuiet, CrashForgets
      DEF Step, ProgramStep, Implements
    <2>4. CounterOK(q)'
      BY <2>1, CounterOKStep
    <2> QED
      BY <2>1, <2>3, <2>4, QuietImplements DEF Implements
  <1> QED
    BY <1>1, <1>2

\* The two parts hold to begin with.
LEMMA LedgerBegins ==
    ASSUME NEW q, Procs = {q}, FreshBankInit \/ BankInit
    PROVE  LedgerInv(q) /\ CounterOK(q)
  <1>0. q \in Procs
    OBVIOUS
  <1>1. LedgerInv(q)
    BY <1>0
    DEF FreshBankInit, BankInit, NoProcess, LedgerInv, PageOK, BuffersOK,
        FilesOK, LogOK, Making, Settled, Paying
  <1>2. /\ pc[q] = "idle" /\ "transactions" \in Counters
        /\ holder["transactions"] = None
    BY <1>0 DEF FreshBankInit, BankInit, NoProcess, Counters
  <1>3. JournalOK(q)
    <2>1. CASE FreshBankInit
      <3>1. LastId = None /\ \A i \in Ids : ~InJournal(i)
        BY <1>2, <2>1 DEF FreshBankInit, LastId, InJournal, OnDisk, EmptyLog
      <3> QED
        BY <3>1 DEF JournalOK
    <2>2. CASE BankInit
      <3>1. LastId \in Ids /\ LastId = OpeningCounter["transactions"]
        BY <1>2, <2>2, OpeningOK DEF BankInit, LastId
      <3>2. LastId # None /\ LastId # Empty
        BY <3>1, NoneOK, BankProcsOK
      <3>3. \A i \in Ids : InJournal(i) => i \in 1..LastId
        BY <2>2, <3>1, OpeningOK, NoneOK DEF BankInit, InJournal, OnDisk
      <3> QED
        BY <1>2, <3>2, <3>3 DEF JournalOK
    <2> QED
      BY <2>1, <2>2
  <1>4. CounterOK(q)
    BY <1>2, <1>3 DEF CounterOK, LockOK, NumberOK, Numbering, Unread
  <1> QED
    BY <1>1, <1>4

\* They are invariants.
LEMMA LedgerInvariant ==
    ASSUME NEW q, Procs = {q}, Pressure = FALSE
    PROVE  EitherBankSpec => [](LedgerInv(q) /\ CounterOK(q))
  <1>1. FreshBankInit \/ BankInit => LedgerInv(q) /\ CounterOK(q)
    BY LedgerBegins
  <1> QED
    BY <1>1, BankInvariant, LedgerStep, PTL DEF EitherBankSpec

\* One process at a time, which may be killed at any statement, implements
\* the ledger, from any files: accounts are opened and closed one by one, a
\* payment moves both balances at once, and what is paid is recorded next, in
\* a log that only grows, unless the process is killed before that or a kill
\* has left the counter empty and transaction 1 is taken.  Where nothing is
\* killed (MayCrash = FALSE), nothing paid goes unrecorded.
THEOREM BankImplementsLedger ==
    ASSUME NEW q, Procs = {q}, Pressure = FALSE
    PROVE  EitherBankSpec => ImplementsLedger
  <1>1. FreshBankInit \/ BankInit => L!LedgerInit
    <2>1. SUFFICES ASSUME FreshBankInit \/ BankInit
                   PROVE  L!LedgerInit
      OBVIOUS
    <2>2. pc[q] = "idle" /\ LastId # Empty
      BY <2>1, OpeningOK, BankProcsOK
      DEF FreshBankInit, BankInit, NoProcess, LastId, Counters
    <2>3. AbstractDue = None /\ Running = FALSE /\ Unnumbered = FALSE
      BY <2>2, DueIs, RunningIs DEF Seen
    <2>4. /\ OnDisk(accounts, EmptyBook) \in Book
          /\ OnDisk(journal, EmptyLog) \in Log
      BY <2>1, BufferType, OpeningOK DEF FreshBankInit, BankInit, OnDisk
    <2> QED
      BY <2>3, <2>4
      DEF L!LedgerInit, L!Book, L!Log, L!Account, L!Entry, L!Ids,
          L!Balances, Book, Log, Account, Entry, Ids, Balances
  <1>2. BankInv /\ (LedgerInv(q) /\ CounterOK(q)) /\ [BankNext]_bankVars =>
          [L!LedgerNext]_(L!ledgerVars)
    BY LedgerStep
  <1> QED
    BY <1>1, <1>2, LedgerInvariant, BankInvariant, PTL
    DEF EitherBankSpec, ImplementsLedger, L!LedgerSpec
-----------------------------------------------------------------------------
(* The books.  A process alone with the files always gets the locks, so    *)
(* what it pays is recorded, under a number and for accounts nobody used   *)
(* before it.                                                              *)

\* What being alone brings at each statement.
Alone(q) ==
    /\ pc[q] \in {"c_read", "c_rewrite", "c_name", "c_write"} =>
         holder["accounts"] = q
    /\ pc[q] \in {"t_read", "t_rewrite", "t_write"} => Locked(q)
    /\ pc[q] \in {"t_close", "j_close"} => logPage[q] # None

\* An account on file, one that is being opened, or an ID not given out yet.
Counted(q, i) ==
    \/ accounts[i] # None
    \/ i \notin 1..Top("accounts")
    \/ pc[q] = "c_close" /\ i = record[q].id

\* Its balance is what is recorded, or about to be.
Accounted(q, i) ==
    Congruent(Balance(accounts[i]), Booked(journal, i) + Effect(Seen(q), i))

BooksInv(q) == Alone(q) /\ \A i \in Ids : Counted(q, i) => Accounted(q, i)

\* What the journal makes of an account is a whole number of cents.
LEMMA BookedType ==
    ASSUME NEW i \in Ids
    PROVE  /\ \A e \in Entry \cup {None} : Effect(e, i) \in Int
           /\ \A log \in Log : Net(log, i) \in Int /\ Booked(log, i) \in Int
  <1>1. ASSUME NEW e \in Entry \cup {None}
        PROVE  Effect(e, i) \in Int
    <2>1. CASE e = None
      BY <2>1 DEF Effect
    <2>2. CASE e # None
      <3>1. PICK a \in Int : a = e.amount
        BY <1>1, <2>2, AmountType DEF Entry
      <3> QED
        BY <2>2, <3>1 DEF Effect
    <2> QED
      BY <2>1, <2>2
  <1>2. ASSUME NEW log \in Log
        PROVE  Net(log, i) \in Int
    <2>1. \A t \in Ids : Effect(log[t], i) \in Int
      BY <1>1 DEF Log
    <2>2. \A t \in Ids : [u \in Ids |-> Effect(log[u], i)][t] \in Int
      BY <2>1
    <2> HIDE DEF Effect
    <2> QED
      BY <2>2, IdsFinite, SumType DEF Net
  <1>3. OpeningBalance(i) \in Int
    BY OpeningOK, BankSizesOK DEF OpeningBalance, Book, Account, Balances
  <1>4. Net(OpeningLog, i) \in Int
    BY <1>2, OpeningOK
  <1> QED
    BY <1>1, <1>2, <1>3, <1>4 DEF Booked

\* An entry added to the journal has its effect on every account.
LEMMA EntryAdds ==
    ASSUME NEW log \in Log, NEW t \in Ids, log[t] = None, NEW e \in Entry,
           NEW i \in Ids
    PROVE  Booked([log EXCEPT ![t] = e], i) = Booked(log, i) + Effect(e, i)
  <1> DEFINE new == [log EXCEPT ![t] = e]
             f == [u \in Ids |-> Effect(log[u], i)]
             g == [u \in Ids |-> Effect(new[u], i)]
  <1>1. new \in Log /\ new[t] = e /\ \A u \in Ids \ {t} : new[u] = log[u]
    BY DEF Log
  <1>2. \A u \in Ids : log[u] \in Entry \cup {None} /\ new[u] \in Entry \cup {None}
    BY <1>1 DEF Log
  <1> HIDE DEF new
  <1>3. \A u \in Ids : f[u] \in Int /\ g[u] \in Int
    BY <1>2, BookedType
  <1>4. /\ f[t] = 0 /\ g[t] = Effect(e, i)
        /\ \A u \in Ids \ {t} : f[u] = g[u]
    BY <1>1 DEF Effect
  <1>5. Net(log, i) = SumFunctionOnSet(f, Ids) /\ Net(new, i) = SumFunctionOnSet(g, Ids)
    BY DEF Net
  <1> HIDE DEF f, g
  <1>6. Net(new, i) = Net(log, i) + Effect(e, i)
    <2>1. SumFunctionOnSet(g, Ids) = SumFunctionOnSet(f, Ids) + g[t] - f[t]
      BY <1>3, <1>4, IdsFinite, SumChange
    <2>2. Net(log, i) \in Int /\ g[t] \in Int
      BY <1>3, BookedType
    <2> QED
      BY <1>4, <1>5, <2>1, <2>2
  <1>7. /\ Net(log, i) \in Int /\ Net(OpeningLog, i) \in Int
        /\ Effect(e, i) \in Int /\ OpeningBalance(i) \in Int
    BY BookedType, OpeningOK, BankSizesOK
    DEF OpeningBalance, Book, Account, Balances
  <1> QED
    BY <1>6, <1>7 DEF Booked, new

\* Nothing but these four steps changes a file.
LEMMA FilesStay ==
    ASSUME BankInv, CountersInv, Pressure = FALSE, NEW q \in Procs, Step(q),
           ~CreationClose(q), ~DeletionClose(q), ~TransferClose(q),
           ~JournalClose(q)
    PROVE  UNCHANGED files
  BY CountersFacts
  DEF Step, Start, Crash, CacheStep, FlushAccounts, DropAccounts,
      FlushTransactions, ProgramStep, CreationStep, CreationOpen,
      CreationMake, CreationCounter, CreationCounterNew,
      CreationCounterZero, CreationRead, CreationRewrite, TypeName,
      WriteAccount, CreationEnd, DeletionStep, DeletionOpen,
      DeletionMake, FindAccount, DeleteAccount,
      TransferStep, TransferOpen, TransferMake, ReadSource,
      ReadDestination, Debit, Credit, JournalOpen, JournalMake,
      TransferCounter, TransferCounterNew, TransferCounterZero,
      TransferRead, TransferRewrite, WriteTransaction,
      TransferEnd, QueryStep, ListOpen, ListMake, SearchOpen,
      SearchMake, HistoryOpen, HistoryMake, ListAccounts, SearchBalance,
      ListHistory, Display, OpenAccounts, CreateAccounts,
      OpenTransactions, CreateTransactions, OpenCounter, CreateCounter,
      ZeroCounter, ReadCounter, RewriteCounter, At, files, Absent

\* What one program brings to a statement, the next statement finds.
LEMMA AloneStep ==
    ASSUME NEW q, Procs = {q}, Pressure = FALSE, MayCrash = FALSE,
           BankInv, NumberingInv, Alone(q), Step(q)
    PROVE  Alone(q)'
  <1> USE DEF At, Goto
  <1>0. q \in Procs
    OBVIOUS
  <1>1. /\ pc \in [Procs -> Statements] /\ number \in [Procs -> Ids]
        /\ logPage \in [Procs -> Log \cup {None}]
        /\ holder \in [Counters -> Procs \cup {None}]
        /\ journal \in Log /\ journal # None /\ accounts # None
        /\ \A c \in Counters : counter[c] # None
        /\ "accounts" \in Counters /\ "transactions" \in Counters
    BY <1>0, CountersFacts DEF BankInv, BankTypeOK, NumberingInv
  <1>2. CASE StopRun(q)
    BY <1>0, <1>1, <1>2 DEF StopRun, Alone
  <1>3. CASE CreationCounter(q) \/ TransferCounter(q)
    <2>1. CASE CreationCounter(q)
      <3>1. pc'[q] = "c_read" /\ holder'["accounts"] = q
        BY <1>0, <1>1, <2>1 DEF CreationCounter, OpenCounter, Lock
      <3> QED
        BY <3>1 DEF Alone
    <2>2. CASE TransferCounter(q)
      <3>1. pc'[q] = "t_read" /\ Locked(q)'
        BY <1>0, <1>1, <2>2 DEF TransferCounter, OpenCounter, Lock, Locked
      <3> QED
        BY <3>1 DEF Alone
    <2> QED
      BY <1>3, <2>1, <2>2
  <1>4. CASE WriteTransaction(q)
    <2>1. pc[q] = "t_write" /\ pc'[q] = "t_close" /\ Locked(q)
      BY <1>0, <1>1, <1>4 DEF WriteTransaction, Alone
    <2>2. journal[number[q]] = None
      <3>1. number[q] \notin 1..Top("transactions")
        BY <1>0, <1>1, <2>1, TopMeans DEF NumberingInv, Numbered, Locked
      <3> QED
        BY <1>0, <1>1, <3>1 DEF NumberingInv, IdsInv, Within
    <2>3. logPage'[q] = [journal EXCEPT ![number[q]] = Transaction(q)]
      BY <1>0, <1>1, <1>4, <2>2 DEF WriteTransaction
    <2>4. Transaction(q) \in Entry
      BY <1>0, <2>1, TransactionType DEF Paying
    <2>5. logPage'[q] \in Log
      BY <1>0, <1>1, <2>3, <2>4 DEF Log
    <2> QED
      BY <2>1, <2>5, NoneOK DEF Alone
  <1>5. CASE CreationRead(q) \/ CreationRewrite(q) \/ TypeName(q)
    <2>1. /\ UNCHANGED holder /\ pc[q] \in {"c_read", "c_rewrite", "c_name"}
          /\ pc'[q] \in {"c_rewrite", "c_name", "c_write"}
      BY <1>0, <1>1, <1>5
      DEF CreationRead, CreationRewrite, ReadCounter, RewriteCounter, TypeName,
          locks
    <2> QED
      BY <2>1 DEF Alone
  <1>6. CASE TransferRead(q) \/ TransferRewrite(q)
    <2>1. /\ UNCHANGED holder /\ pc[q] \in {"t_read", "t_rewrite"}
          /\ pc'[q] \in {"t_rewrite", "t_write"}
      BY <1>0, <1>1, <1>6
      DEF TransferRead, TransferRewrite, ReadCounter, RewriteCounter, locks
    <2> QED
      BY <2>1 DEF Alone, Locked
  <1>7. CASE TransferClose(q)
    <2>1. UNCHANGED logPage /\ pc[q] = "t_close" /\ pc'[q] = "j_close"
      BY <1>0, <1>1, <1>7 DEF TransferClose
    <2> QED
      BY <2>1 DEF Alone
  <1>8. CASE /\ ~StopRun(q) /\ ~CreationCounter(q) /\ ~TransferCounter(q)
             /\ ~WriteTransaction(q) /\ ~TransferClose(q)
             /\ ~CreationRead(q) /\ ~CreationRewrite(q) /\ ~TypeName(q)
             /\ ~TransferRead(q) /\ ~TransferRewrite(q)
    <2>1. pc[q] \notin Absent
      BY <1>0, CountersFacts DEF NumberingInv
    <2> DEFINE Beyond == {"c_open", "d_open", "t_open", "l_open", "s_open",
                          "h_open", "c_count", "c_close", "c_end", "d_read",
                          "d_delete", "d_close", "t_source", "t_destination",
                          "t_debit", "t_credit", "j_open", "t_count",
                          "l_read", "s_read", "h_read", "t_end"}
    <2>2. CASE Start(q) \/ Crash(q) \/ CacheStep(q)
      <3>1. PICK program \in Programs : pc'[q] = FirstStatement[program]
        BY <1>0, <1>1, <2>2
        DEF Start, Crash, CacheStep, FlushAccounts, DropAccounts,
            FlushTransactions
      <3>2. pc'[q] \in Beyond
        BY <3>1, OpeningOK DEF FirstStatement
      <3> QED
        BY <3>2 DEF Alone
    <2>3. CASE CreationStep(q) \/ DeletionStep(q)
      <3>1. pc'[q] \in Beyond
        BY <1>0, <1>1, <1>8, <2>1, <2>3
        DEF CreationStep, CreationOpen, CreationMake, CreationCounterNew,
            CreationCounterZero, WriteAccount, CreationClose, CreationEnd,
            DeletionStep, DeletionOpen, DeletionMake, FindAccount,
            DeleteAccount, DeletionClose, OpenAccounts, CreateAccounts,
            CreateCounter, ZeroCounter, Absent
      <3> QED
        BY <3>1 DEF Alone
    <2>4. CASE TransferStep(q) \/ QueryStep(q)
      <3>1. pc'[q] \in Beyond
        BY <1>0, <1>1, <1>8, <2>1, <2>4
        DEF TransferStep, TransferOpen, TransferMake, ReadSource,
            ReadDestination, Debit, Credit, JournalOpen, JournalMake,
            TransferCounterNew, TransferCounterZero, JournalClose,
            TransferEnd, QueryStep, ListOpen, ListMake,
            SearchOpen, SearchMake, HistoryOpen, HistoryMake, ListAccounts,
            SearchBalance, ListHistory, Display, OpenAccounts,
            CreateAccounts, OpenTransactions, CreateTransactions,
            CreateCounter, ZeroCounter, Absent
      <3> QED
        BY <3>1 DEF Alone
    <2> QED
      BY <2>2, <2>3, <2>4 DEF Step, ProgramStep
  <1> QED
    BY <1>2, <1>3, <1>4, <1>5, <1>6, <1>7, <1>8

\* Which steps lead to and from the two CLOSEs that follow a WRITE.
LEMMA ClosePoints ==
    ASSUME BankInv, NEW q \in Procs, Step(q), ~CacheStep(q), ~Crash(q)
    PROVE  /\ pc'[q] = "c_close" => WriteAccount(q)
           /\ pc'[q] = "j_close" => TransferClose(q)
           /\ pc[q] = "j_close" => JournalClose(q)
  <1> USE DEF At
  <1>1. pc[q] = "j_close" => JournalClose(q)
    BY DEF Step, Start, ProgramStep, CreationStep, CreationOpen, CreationMake,
        CreationCounter, CreationCounterNew, CreationCounterZero,
        CreationRead, CreationRewrite, TypeName, WriteAccount, CreationClose,
        CreationEnd, DeletionStep, DeletionOpen, DeletionMake, FindAccount,
        DeleteAccount, DeletionClose, TransferStep, TransferOpen,
        TransferMake, ReadSource, ReadDestination, Debit, Credit,
        JournalOpen, JournalMake, TransferCounter, TransferCounterNew,
        TransferCounterZero, TransferRead, TransferRewrite,
        WriteTransaction, TransferClose, TransferEnd,
        QueryStep, ListOpen, ListMake, SearchOpen, SearchMake, HistoryOpen,
        HistoryMake, ListAccounts, SearchBalance, ListHistory, Display,
        OpenAccounts, CreateAccounts, OpenTransactions,
        CreateTransactions, OpenCounter, CreateCounter, ZeroCounter,
        ReadCounter, RewriteCounter
  <1>2. ASSUME ~WriteAccount(q), ~TransferClose(q)
        PROVE  pc'[q] \notin {"c_close", "j_close"}
    <2> USE DEF BankInv, BankTypeOK, Goto
    <2>1. CASE StopRun(q)
      BY <2>1 DEF StopRun
    <2>2. CASE Start(q)
      <3>1. PICK program \in Programs : Goto(q, FirstStatement[program])
        BY <2>2 DEF Start
      <3>2. program \in {"creation", "deletion", "transfer", "list", "search",
                         "history"}
        BY OpeningOK
      <3> QED
        BY <3>1, <3>2 DEF FirstStatement
    <2>3. CASE ~StopRun(q) /\ ~Start(q)
      BY <1>2, <2>3
      DEF Step, ProgramStep, CreationStep, CreationOpen, CreationMake,
          CreationCounter, CreationCounterNew, CreationCounterZero,
          CreationRead, CreationRewrite, TypeName, CreationClose,
          CreationEnd, DeletionStep, DeletionOpen, DeletionMake, FindAccount,
          DeleteAccount, DeletionClose, TransferStep, TransferOpen,
          TransferMake, ReadSource, ReadDestination, Debit, Credit,
          JournalOpen, JournalMake, TransferCounter, TransferCounterNew,
          TransferCounterZero, TransferRead, TransferRewrite,
          WriteTransaction, JournalClose, TransferEnd,
          QueryStep, ListOpen, ListMake, SearchOpen, SearchMake, HistoryOpen,
          HistoryMake, ListAccounts, SearchBalance, ListHistory, Display,
          OpenAccounts, CreateAccounts, OpenTransactions,
          CreateTransactions, OpenCounter, CreateCounter, ZeroCounter,
          ReadCounter, RewriteCounter
    <2> QED
      BY <2>1, <2>2, <2>3
  <1>3. /\ WriteAccount(q) => pc'[q] = "c_close"
        /\ TransferClose(q) => pc'[q] = "j_close"
    BY DEF WriteAccount, TransferClose, Goto, BankInv, BankTypeOK
  <1> QED
    BY <1>1, <1>2, <1>3

\* An account that counts after a step counted before it, but for those a
\* deletion removes: WRITE finds an ID that nobody has used.
LEMMA CountedBefore ==
    ASSUME NEW q, Procs = {q}, Pressure = FALSE, MayCrash = FALSE,
           BankInv, NumberingInv, Alone(q), Step(q), NEW i \in Ids,
           Counted(q, i)', accounts'[i] # None => accounts[i] # None
    PROVE  Counted(q, i)
  <1>0. q \in Procs /\ "accounts" \in Counters
    BY DEF Counters
  <1>1. i \notin 1..Top("accounts")' => i \notin 1..Top("accounts")
    BY <1>0, TopGrows DEF NumberingInv
  <1>2. ASSUME pc'[q] = "c_close", i = record'[q].id
        PROVE  i \notin 1..Top("accounts") \/ (pc[q] = "c_close" /\ i = record[q].id)
    <2>1. UNCHANGED record /\ pc[q] = "c_write"
      <3>1. WriteAccount(q)
        BY <1>0, <1>2, ClosePoints
        DEF Crash, CacheStep, FlushAccounts, DropAccounts, FlushTransactions
      <3> QED
        BY <3>1 DEF WriteAccount, At, storage
    <2>2. record[q].id = number[q] /\ holder["accounts"] = q
      BY <1>0, <2>1 DEF NumberingInv, IdsInv, IdsLocal, Alone
    <2>3. number[q] \notin 1..Top("accounts")
      BY <1>0, <2>1, <2>2, TopMeans DEF NumberingInv, Numbered
    <2> QED
      BY <1>2, <2>1, <2>2, <2>3
  <1> QED
    BY <1>1, <1>2 DEF Counted

\* A debit and a credit change a balance by what the transfer is booked for.
LEMMA PaymentBooked ==
    ASSUME NEW x \in Int, NEW y \in Int, NEW d \in Int, Congruent(x, y + 0)
    PROVE  Congruent(Stored(x + d), y + d)
  <1>1. PICK z \in Int, u \in Int, v \in Int :
          z = x + d /\ u = Stored(z) /\ v = y + d
    BY StoredCongruent
  <1>2. Congruent(u, z)
    BY <1>1, StoredCongruent
  <1>3. PICK k \in Int, m \in Int :
          u = z + k * BalanceLimit /\ x = y + m * BalanceLimit
    BY <1>2 DEF Congruent
  <1>4. BalanceLimit \in Int
    BY BankSizesOK
  <1>5. u = v + (k + m) * BalanceLimit
    BY <1>1, <1>3, <1>4
  <1> QED
    BY <1>1, <1>3, <1>5 DEF Congruent

\* CLOSE of ACCOUNTS.DAT after a payment: what is now due is recorded next.
LEMMA PaymentAccounted ==
    ASSUME NEW q, Procs = {q}, Pressure = FALSE, MayCrash = FALSE,
           BankInv, NumberingInv, LedgerInv(q), BooksInv(q),
           TransferClose(q), NEW i \in Ids, Counted(q, i)'
    PROVE  Accounted(q, i)'
  <1>0. q \in Procs /\ Step(q)
    BY DEF Step, ProgramStep, TransferStep
  <1>1. /\ pc[q] = "t_close" /\ pc'[q] = "j_close" /\ UNCHANGED journal
        /\ Transaction(q)' = Transaction(q)
    BY <1>0
    DEF TransferClose, At, Goto, BankInv, BankTypeOK, storage, Transaction
  <1>2. /\ q \in dirty /\ Moved(q) /\ accounts' = page[q]
    BY <1>0, <1>1
    DEF TransferClose, WriteBack, LedgerInv, PageOK, Settled, Paying
  <1>3. /\ record[q].id \in Ids /\ peer[q].id \in Ids /\ amount[q] \in Int
        /\ accounts \in Book /\ journal \in Log
    BY <1>0, <1>1, BufferType, AmountType
    DEF HasPeer, HasRecord, Paying, BankInv, BankTypeOK,
        Ready, NumberingInv, CountersInv, PresentInv
  <1> DEFINE s == record[q].id
             d == peer[q].id
             x == Balance(accounts[i])
             y == Booked(journal, i)
  <1>4. /\ \A j \in Ids \ {s, d} : accounts'[j] = accounts[j]
        /\ accounts[s] # None /\ accounts[d] # None
        /\ s # d => accounts'[s] = Plus(accounts[s], -amount[q])
        /\ accounts'[d] = Plus(accounts[d], amount[q])
    BY <1>2, <1>3 DEF Moved, L!Paid, L!Plus, Plus, L!Stored, Stored, Book
  <1>5. accounts[s] \in Account /\ accounts[d] \in Account
    BY <1>3, <1>4 DEF Book
  <1>6. Counted(q, i)
    BY <1>0, <1>4, CountedBefore DEF BooksInv
  <1>7. x \in Int /\ y \in Int /\ Congruent(x, y + 0)
    <2>1. Effect(None, i) = 0
      BY DEF Effect
    <2> QED
      BY <1>1, <1>3, <1>6, <2>1, TotalType, BookedType
      DEF BooksInv, Accounted, Seen
  <1>8. Transaction(q) # None /\ Seen(q)' = Transaction(q)
    BY <1>0, <1>1, TransactionType DEF Seen, Paying
  <1>9. Accounted(q, i)' <=>
          Congruent(Balance(accounts'[i]), y + Effect(Transaction(q), i))
    BY <1>1, <1>8 DEF Accounted
  <1>10. CASE i = s /\ i # d
    <2>1. Effect(Transaction(q), i) = -amount[q]
      BY <1>3, <1>8, <1>10 DEF Effect, Transaction
    <2>2. Balance(accounts'[i]) = Stored(x + (-amount[q]))
      BY <1>3, <1>4, <1>5, <1>10, PlusAccount, NoneOK DEF Balance
    <2>3. -amount[q] \in Int
      BY <1>3
    <2> HIDE DEF x, y
    <2> QED
      BY <1>7, <1>9, <2>1, <2>2, <2>3, PaymentBooked
  <1>11. CASE i = d
    <2>1. Effect(Transaction(q), i) = amount[q]
      BY <1>3, <1>8, <1>11 DEF Effect, Transaction
    <2>2. Balance(accounts'[i]) = Stored(x + amount[q])
      BY <1>3, <1>4, <1>5, <1>11, PlusAccount, NoneOK DEF Balance
    <2> HIDE DEF x, y
    <2> QED
      BY <1>3, <1>7, <1>9, <2>1, <2>2, PaymentBooked
  <1>12. CASE i # s /\ i # d
    <2>1. Effect(Transaction(q), i) = 0
      BY <1>8, <1>12 DEF Effect, Transaction
    <2>2. Balance(accounts'[i]) = x
      BY <1>4, <1>12
    <2> HIDE DEF x, y
    <2> QED
      BY <1>7, <1>9, <2>1, <2>2
  <1> QED
    BY <1>10, <1>11, <1>12

\* CLOSE of TRANSACTIONS.DAT: what was due is recorded.
LEMMA RecordAccounted ==
    ASSUME NEW q, Procs = {q}, Pressure = FALSE, MayCrash = FALSE,
           BankInv, NumberingInv, LedgerInv(q), BooksInv(q),
           JournalClose(q), NEW i \in Ids, Counted(q, i)'
    PROVE  Accounted(q, i)'
  <1>0. q \in Procs /\ Step(q)
    BY DEF Step, ProgramStep, TransferStep
  <1>1. /\ pc[q] = "j_close" /\ pc'[q] = "t_end" /\ accounts' = accounts
        /\ logPage[q] # None /\ journal' = logPage[q]
    BY <1>0
    DEF JournalClose, At, Goto, BankInv, BankTypeOK, BooksInv, Alone
  <1>2. /\ journal[number[q]] = None /\ number[q] \in Ids /\ journal \in Log
        /\ journal' = [journal EXCEPT ![number[q]] = Transaction(q)]
    BY <1>0, <1>1 DEF LedgerInv, LogOK, BankInv, BankTypeOK
  <1>3. Transaction(q) \in Entry
    BY <1>0, <1>1, TransactionType DEF Paying
  <1>4. Booked(journal', i) = Booked(journal, i) + Effect(Transaction(q), i)
    BY <1>2, <1>3, EntryAdds
  <1>5. Seen(q) = Transaction(q) /\ Seen(q)' = None /\ Effect(None, i) = 0
    BY <1>1 DEF Seen, Effect
  <1>6. Booked(journal', i) + 0 = Booked(journal, i) + Effect(Transaction(q), i)
    BY <1>2, <1>3, <1>4, BookedType
  <1>7. Counted(q, i)
    BY <1>0, <1>1, CountedBefore DEF BooksInv
  <1> QED
    BY <1>1, <1>5, <1>6, <1>7 DEF BooksInv, Accounted

\* The other steps: only an account with nothing on it, or none, is added.
LEMMA OthersAccounted ==
    ASSUME NEW q, Procs = {q}, Pressure = FALSE, MayCrash = FALSE,
           BankInv, NumberingInv, LedgerInv(q), BooksInv(q),
           Step(q), ~TransferClose(q), ~JournalClose(q),
           NEW i \in Ids, Counted(q, i)'
    PROVE  Accounted(q, i)'
  <1>0. /\ q \in Procs /\ ~CacheStep(q) /\ ~Crash(q)
        /\ accounts # None /\ accounts \in Book /\ "accounts" \in Counters
    BY DEF CacheStep, FlushAccounts, DropAccounts, FlushTransactions, Crash,
        NumberingInv, CountersInv, PresentInv, BankInv, BankTypeOK, Counters
  <1>1. Seen(q) = None /\ Seen(q)' = None
    BY <1>0, ClosePoints DEF Seen
  <1>2. ASSUME journal' = journal, Balance(accounts'[i]) = Balance(accounts[i]),
               Counted(q, i)
        PROVE  Accounted(q, i)'
    BY <1>1, <1>2 DEF BooksInv, Accounted
  <1>3. CASE CreationClose(q)
    <2>1. /\ pc[q] = "c_close" /\ UNCHANGED journal
          /\ accounts' = IF q \in dirty THEN page[q] ELSE accounts
      BY <1>3 DEF CreationClose, WriteBack, At
    <2>2. CASE q \in dirty
      <3>1. Opened(q)
        BY <2>1, <2>2 DEF LedgerInv, PageOK, Settled, Paying
      <3>2. CASE i = record[q].id
        BY <1>2, <2>1, <2>2, <3>1, <3>2, <1>0
        DEF Opened, Counted, Balance, Book
      <3>3. CASE i # record[q].id
        <4>1. accounts'[i] = accounts[i]
          BY <1>0, <2>1, <2>2, <3>1, <3>3 DEF Opened
        <4> QED
          BY <1>0, <1>2, <2>1, <4>1, CountedBefore DEF BooksInv
      <3> QED
        BY <3>2, <3>3
    <2>3. CASE q \notin dirty
      BY <1>0, <1>2, <2>1, <2>3, CountedBefore DEF BooksInv
    <2> QED
      BY <2>2, <2>3
  <1>4. CASE DeletionClose(q)
    <2>1. /\ pc[q] = "d_close" /\ pc'[q] = "idle" /\ UNCHANGED journal
          /\ accounts' = IF q \in dirty THEN page[q] ELSE accounts
      BY <1>0, <1>4
      DEF DeletionClose, At, StopRun, Goto, BankInv, BankTypeOK
    <2>2. CASE q \in dirty
      <3>1. Closed(q)
        BY <2>1, <2>2 DEF LedgerInv, PageOK, Settled, Paying
      <3>2. i # number[q]
        <4>1. SUFFICES ASSUME i = number[q] PROVE FALSE
          OBVIOUS
        <4>2. accounts[i] # None /\ accounts'[i] = None
          BY <1>0, <2>1, <2>2, <3>1, <4>1 DEF Closed, Book
        <4>3. i \in 1..Top("accounts")
          BY <4>2 DEF NumberingInv, IdsInv, Within
        <4>4. i \in 1..Top("accounts")'
          BY <1>0, <4>3, TopGrows DEF NumberingInv
        <4> QED
          BY <2>1, <4>2, <4>4 DEF Counted
      <3>3. accounts'[i] = accounts[i]
        BY <1>0, <2>1, <2>2, <3>1, <3>2 DEF Closed
      <3> QED
        BY <1>0, <1>2, <2>1, <3>3, CountedBefore DEF BooksInv
    <2>3. CASE q \notin dirty
      BY <1>0, <1>2, <2>1, <2>3, CountedBefore DEF BooksInv
    <2> QED
      BY <2>2, <2>3
  <1>5. CASE ~CreationClose(q) /\ ~DeletionClose(q)
    <2>1. UNCHANGED files
      BY <1>0, <1>5, FilesStay DEF NumberingInv
    <2> QED
      BY <1>0, <1>2, <2>1, CountedBefore DEF BooksInv, files
  <1> QED
    BY <1>3, <1>4, <1>5

\* The invariant holds initially and every step keeps it.
LEMMA BooksInvInit ==
    ASSUME BankInit, NEW q, Procs = {q}
    PROVE  BooksInv(q)
  <1>1. /\ pc[q] = "idle" /\ accounts = OpeningBook /\ journal = OpeningLog
    BY DEF BankInit, NoProcess
  <1>2. ASSUME NEW i \in Ids
        PROVE  Accounted(q, i)
    <2>1. Seen(q) = None /\ Effect(None, i) = 0
      BY <1>1 DEF Seen, Effect
    <2>2. PICK x \in Int, n \in Int : x = OpeningBalance(i) /\ n = Net(OpeningLog, i)
      BY OpeningOK, BookedType, BankSizesOK
      DEF OpeningBalance, Book, Account, Balances
    <2>3. Balance(accounts[i]) = x /\ Booked(journal, i) + 0 = x
      BY <1>1, <2>2 DEF Balance, OpeningBalance, Booked
    <2>4. x = x + 0 * BalanceLimit
      BY <2>2, BankSizesOK
    <2> QED
      BY <2>1, <2>3, <2>4 DEF Accounted, Congruent
  <1> QED
    BY <1>1, <1>2 DEF BooksInv, Alone

LEMMA BooksInvStep ==
    ASSUME NEW q, Procs = {q}, Pressure = FALSE, MayCrash = FALSE,
           BankInv, NumberingInv, LedgerInv(q), BooksInv(q),
           [BankNext]_bankVars
    PROVE  BooksInv(q)'
  <1>1. CASE UNCHANGED bankVars
    BY <1>1
    DEF bankVars, files, locks, caches, storage, BooksInv, Alone, Locked,
        Counted, Top, Accounted, Seen, Transaction
  <1>2. CASE Step(q)
    BY <1>2, AloneStep, PaymentAccounted, RecordAccounted, OthersAccounted
    DEF BooksInv
  <1> QED
    BY <1>1, <1>2 DEF BankNext, Step

\* While one process at a time runs, and none is killed, the balances and the
\* journal agree whenever no program is at work: each account holds what it
\* opened with and what the transfers recorded since brought it, up to the
\* digits its field has no room for (transfer-money.cbl:93-157).  Two processes
\* break it (LostTransfer).
THEOREM BooksReconcile ==
    ASSUME NEW q, Procs = {q}, Pressure = FALSE, MayCrash = FALSE
    PROVE  BankSpec => []Reconciled
  <1>1. BankInit => BooksInv(q)
    BY BooksInvInit
  <1>2. ASSUME BankInv, NumberingInv, BooksInv(q)
        PROVE  Reconciled
    <2>1. SUFFICES ASSUME pc[q] = "idle", NEW i \in Ids,
                          OnDisk(accounts, EmptyBook)[i] # None
                   PROVE  (accounts[i].balance
                             - Booked(OnDisk(journal, EmptyLog), i))
                            % BalanceLimit = 0
      BY DEF Reconciled
    <2>2. /\ OnDisk(accounts, EmptyBook) = accounts
          /\ OnDisk(journal, EmptyLog) = journal
          /\ accounts \in Book /\ journal \in Log
      BY <1>2
      DEF OnDisk, NumberingInv, CountersInv, PresentInv, BankInv, BankTypeOK
    <2>3. Accounted(q, i)
      BY <1>2, <2>1, <2>2 DEF BooksInv, Counted
    <2>4. PICK x \in Int, y \in Int :
             x = Balance(accounts[i]) /\ y = Booked(journal, i)
      BY <2>2, BookedType, TotalType
    <2>5. Effect(Seen(q), i) = 0 /\ y + 0 = y
      BY <2>1, <2>4 DEF Seen, Effect
    <2>6. (x - y) % BalanceLimit = 0
      BY <2>3, <2>4, <2>5, CongruentRemainder DEF Accounted
    <2> QED
      BY <2>1, <2>2, <2>4, <2>6 DEF Balance
  <1> QED
    BY <1>1, <1>2, LedgerInvariant, BooksInvStep, BankInvariant,
       NumberingInvariant, PTL DEF BankSpec, EitherBankSpec
=============================================================================
