----------------------------- MODULE FileProofs -----------------------------
(***************************************************************************)
(* Proofs that the indexed files keep what they hold, for any number of    *)
(* processes that run, are killed and have their pages written at any      *)
(* time.                                                                   *)
(*                                                                         *)
(* The journal.  The lock of its counter is what protects it: a process    *)
(* that has the lock is the only one whose page of the journal has         *)
(* changed, and a process that was refused it numbers its transaction 1,   *)
(* which is in use.                                                        *)
(*                                                                         *)
(* The accounts, while only creations and queries run: for the same        *)
(* reason.                                                                 *)
(*                                                                         *)
(* The destination of a debit, while caches keep their pages until CLOSE:  *)
(* the transfer credits the page it has read it from, whoever deletes it.  *)
(*                                                                         *)
(* The money, while caches keep their pages until CLOSE: every page adds   *)
(* up to what the bank opened with, less what its process still owes it.   *)
(***************************************************************************)
EXTENDS BankProofs, BankAudit, SumTheorems

-----------------------------------------------------------------------------
(* The journal.                                                            *)

Recording == {"t_read", "t_rewrite", "t_write", "t_close", "j_close", "t_end"}

Locked(p) == holder["transactions"] = p

\* What holds of a process as regards the journal.
JournalLocal(p) ==
    /\ pc[p] \notin {"j_make", "h_make", "t_new", "t_zero"}
    /\ Locked(p) => pc[p] \in Recording
    /\ pc[p] = "t_rewrite" => Locked(p)
    /\ pc[p] = "t_write" /\ ~Locked(p) => number[p] = 1
    /\ logPage[p] # None =>
         /\ Locked(p) /\ pc[p] \in {"t_close", "j_close"}
         /\ \A i \in Ids : journal[i] # None => logPage[p][i] = journal[i]

JournalInv ==
    /\ journal # None /\ journal[1] # None
    /\ counter["transactions"] \in Ids
    /\ \A p \in Procs : JournalLocal(p)

\* What a step of q may do to the journal and to the lock of its counter.
JournalMoves(q) ==
    /\ journal' = journal \/ (logPage[q] # None /\ journal' = logPage[q])
    /\ counter'["transactions"] \in Ids
    /\ \/ UNCHANGED holder["transactions"]
       \/ holder["transactions"] = None /\ Locked(q)'
       \/ Locked(q) /\ holder'["transactions"] = None
    /\ JournalLocal(q)'

\* One is an ID, and the number of a transaction that was refused the lock.
LEMMA FirstId == 1 \in Ids /\ NextId(0) = 1
  <1>1. 1 % IdLimit = 1
    BY BankSizesOK
  <1> QED
    BY <1>1, BankSizesOK DEF Ids, NextId

\* A step that leaves the journal's files and q's numbers alone, and moves q
\* outside the statements on the journal, is harmless.
LEMMA JournalIdle ==
    ASSUME BankInv, JournalInv, NEW q \in Procs,
           pc[q] \notin Recording,
           UNCHANGED <<journal, counter["transactions"],
                       holder["transactions"]>>,
           logPage'[q] = logPage[q] \/ logPage'[q] = None,
           pc'[q] \notin Recording \cup {"j_make", "h_make", "t_new", "t_zero"}
    PROVE  JournalMoves(q)
  <1>1. ~Locked(q) /\ logPage[q] = None
    BY DEF JournalInv, JournalLocal, Recording
  <1> QED
    BY <1>1 DEF JournalInv, JournalLocal, JournalMoves, Locked, Recording

\* The run of q ends, and its lock, if it has one, is released.
LEMMA JournalStop ==
    ASSUME BankInv, JournalInv, NEW q \in Procs, StopRun(q),
           UNCHANGED <<journal, counter>>,
           \/ holder' = Unlocked(q)
           \/ UNCHANGED holder /\ pc[q] \notin Recording
    PROVE  JournalMoves(q)
  <1>1. "transactions" \in Counters
    BY DEF Counters
  <1>2. pc'[q] = "idle" /\ logPage'[q] = None
    BY DEF StopRun, Goto, BankInv, BankTypeOK
  <1>3. q # None
    BY BankProcsOK
  <1>4. CASE holder' = Unlocked(q)
    <2>1. holder'["transactions"] =
            IF holder["transactions"] = q THEN None ELSE holder["transactions"]
      BY <1>1, <1>4 DEF Unlocked
    <2> QED
      BY <1>2, <1>3, <2>1
      DEF JournalMoves, JournalLocal, JournalInv, Recording, Locked
  <1>5. CASE UNCHANGED holder /\ pc[q] \notin Recording
    BY <1>2, <1>5 DEF JournalMoves, JournalLocal, JournalInv, Recording, Locked
  <1> QED
    BY <1>4, <1>5

-----------------------------------------------------------------------------
(* What each program does to the journal.                                  *)

\* A creation uses the counter of accounts only.
LEMMA CreationMoves ==
    ASSUME BankInv, JournalInv, NEW q \in Procs, CreationStep(q)
    PROVE  JournalMoves(q)
  <1>0. "transactions" # "accounts" /\ "transactions" \in Counters
    BY DEF Counters
  <1>1. CASE CreationEnd(q)
    BY <1>1, JournalStop DEF CreationEnd, At, Recording, files
  <1>2. CASE ~CreationEnd(q)
    <2> DEFINE Points == {"c_open", "c_make", "c_count", "c_new", "c_zero",
                          "c_read", "c_rewrite", "c_name", "c_write",
                          "c_close", "c_end"}
    <2>1. /\ UNCHANGED <<journal, logPage>>
          /\ pc[q] \in Points /\ \E there \in Points : Goto(q, there)
      BY <1>2
      DEF CreationStep, CreationOpen, CreationMake, CreationCounter,
          CreationCounterNew, CreationCounterZero, CreationRead,
          CreationRewrite, TypeName, WriteAccount, CreationClose, OpenAccounts,
          CreateAccounts, OpenCounter, CreateCounter, ZeroCounter, ReadCounter,
          RewriteCounter, At, files, caches
    <2>2. /\ counter'["transactions"] = counter["transactions"]
          /\ holder'["transactions"] = holder["transactions"]
      BY <1>0, <1>2
      DEF CreationStep, CreationOpen, CreationMake, CreationCounter,
          CreationCounterNew, CreationCounterZero, CreationRead,
          CreationRewrite, TypeName, WriteAccount, CreationClose, OpenAccounts,
          CreateAccounts, OpenCounter, CreateCounter, ZeroCounter, ReadCounter,
          RewriteCounter, Lock, locks, BankInv, BankTypeOK
    <2>3. pc'[q] \in Points
      BY <2>1 DEF Goto, BankInv, BankTypeOK
    <2> QED
      BY <2>1, <2>2, <2>3, JournalIdle DEF Recording
  <1> QED
    BY <1>1, <1>2

\* A deletion uses no counter.
LEMMA DeletionMoves ==
    ASSUME BankInv, JournalInv, NEW q \in Procs, DeletionStep(q)
    PROVE  JournalMoves(q)
  <1>1. UNCHANGED <<journal, locks>>
    BY DEF DeletionStep, DeletionOpen, DeletionMake, FindAccount,
           DeleteAccount, DeletionClose, OpenAccounts, CreateAccounts, files
  <1>2. CASE StopRun(q)
    BY <1>1, <1>2, JournalStop
    DEF DeletionStep, DeletionOpen, DeletionMake, FindAccount, DeleteAccount,
        DeletionClose, OpenAccounts, CreateAccounts, At, Recording, locks
  <1>3. CASE ~StopRun(q)
    <2> DEFINE Points == {"d_open", "d_make", "d_read", "d_delete", "d_close"}
    <2>1. /\ UNCHANGED logPage /\ pc[q] \in Points
          /\ \E there \in Points : Goto(q, there)
      BY <1>3
      DEF DeletionStep, DeletionOpen, DeletionMake, FindAccount, DeleteAccount,
          DeletionClose, OpenAccounts, CreateAccounts, At, caches
    <2>2. pc'[q] \in Points
      BY <2>1 DEF Goto, BankInv, BankTypeOK
    <2> QED
      BY <1>1, <2>1, <2>2, JournalIdle DEF Recording, locks
  <1> QED
    BY <1>2, <1>3

\* A query finds the journal, and creates none.
LEMMA QueryMoves ==
    ASSUME BankInv, JournalInv, NEW q \in Procs, QueryStep(q)
    PROVE  JournalMoves(q)
  <1> USE DEF QueryStep, ListOpen, ListMake, SearchOpen, SearchMake,
              HistoryOpen, HistoryMake, ListAccounts, SearchBalance,
              ListHistory, Display, OpenAccounts, CreateAccounts,
              OpenTransactions, CreateTransactions, At
  <1>1. ~HistoryMake(q)
    BY DEF JournalInv, JournalLocal
  <1>2. UNCHANGED <<journal, locks>>
    BY <1>1 DEF files
  <1>3. CASE StopRun(q)
    BY <1>2, <1>3, JournalStop DEF Recording, locks
  <1>4. CASE ~StopRun(q)
    <2> DEFINE Points == {"l_open", "l_make", "l_read", "s_open", "s_make",
                          "s_read", "h_open", "h_read"}
    <2>1. /\ UNCHANGED logPage /\ pc[q] \in Points
          /\ \E there \in Points : Goto(q, there)
      BY <1>1, <1>4 DEF caches, JournalInv
    <2>2. pc'[q] \in Points
      BY <2>1 DEF Goto, BankInv, BankTypeOK
    <2> QED
      BY <1>2, <2>1, <2>2, JournalIdle DEF Recording, locks
  <1> QED
    BY <1>3, <1>4

\* A transfer up to the credit has not touched the journal.
LEMMA PaymentMoves ==
    ASSUME BankInv, JournalInv, NEW q \in Procs,
           \/ TransferOpen(q) \/ TransferMake(q) \/ ReadSource(q)
           \/ ReadDestination(q) \/ Debit(q) \/ Credit(q)
           \/ JournalOpen(q) \/ JournalMake(q)
    PROVE  JournalMoves(q)
  <1> USE DEF TransferOpen, TransferMake, ReadSource, ReadDestination, Debit,
              Credit, JournalOpen, JournalMake, OpenAccounts, CreateAccounts,
              OpenTransactions, CreateTransactions, At
  <1>1. ~JournalMake(q)
    BY DEF JournalInv, JournalLocal
  <1>2. UNCHANGED <<journal, locks>>
    BY <1>1 DEF files
  <1>3. CASE StopRun(q)
    BY <1>2, <1>3, JournalStop DEF Recording, locks
  <1>4. CASE ~StopRun(q)
    <2> DEFINE Points == {"t_open", "t_make", "t_source", "t_destination",
                          "t_debit", "t_credit", "j_open", "t_count"}
    <2>1. /\ UNCHANGED logPage /\ pc[q] \in Points
          /\ \E there \in Points : Goto(q, there)
      BY <1>1, <1>4 DEF caches, JournalInv
    <2>2. pc'[q] \in Points
      BY <2>1 DEF Goto, BankInv, BankTypeOK
    <2> QED
      BY <1>2, <2>1, <2>2, JournalIdle DEF Recording, locks
  <1> QED
    BY <1>3, <1>4

\* The number of a transfer comes with the lock, or is 1.
LEMMA NumberMoves ==
    ASSUME BankInv, JournalInv, NEW q \in Procs,
           \/ TransferCounter(q) \/ TransferCounterNew(q)
           \/ TransferCounterZero(q) \/ TransferRead(q) \/ TransferRewrite(q)
    PROVE  JournalMoves(q)
  <1> USE DEF JournalInv, JournalLocal, Locked, Recording, At, Goto
  <1>0. /\ "transactions" \in Counters /\ q # None
        /\ None \notin Ids /\ Empty \notin Ids
    BY BankProcsOK, NoneOK DEF Counters
  <1>1. /\ pc \in [Procs -> Statements] /\ number \in [Procs -> Ids]
        /\ counter \in [Counters -> Ids \cup {None, Empty}]
        /\ holder \in [Counters -> Procs \cup {None}]
    BY DEF BankInv, BankTypeOK
  <1>2. CASE TransferCounter(q)
    <2>1. /\ pc[q] = "t_count" /\ pc'[q] = "t_read"
          /\ UNCHANGED <<counter, journal, logPage>>
          /\ holder'["transactions"] =
               IF holder["transactions"] = None THEN q ELSE holder["transactions"]
      BY <1>0, <1>1, <1>2
      DEF TransferCounter, OpenCounter, Lock, files, caches
    <2>2. logPage[q] = None
      BY <2>1
    <2> QED
      BY <1>0, <2>1, <2>2 DEF JournalMoves
  <1>3. CASE TransferCounterNew(q) \/ TransferCounterZero(q)
    BY <1>3 DEF TransferCounterNew, TransferCounterZero, CreateCounter,
                ZeroCounter
  <1>4. CASE TransferRead(q)
    <2>1. /\ UNCHANGED <<counter, holder, journal, logPage>>
          /\ pc[q] = "t_read" /\ logPage[q] = None
      BY <1>4 DEF TransferRead, ReadCounter, files, locks, caches
    <2>2. CASE Locked(q)
      <3>1. pc'[q] = "t_rewrite"
        BY <1>0, <1>1, <1>4, <2>2 DEF TransferRead, ReadCounter
      <3> QED
        BY <2>1, <2>2, <3>1 DEF JournalMoves
    <2>3. CASE ~Locked(q)
      <3>1. pc'[q] = "t_write" /\ number'[q] = 1
        BY <1>0, <1>1, <1>4, <2>3, FirstId DEF TransferRead, ReadCounter
      <3> QED
        BY <2>1, <2>3, <3>1 DEF JournalMoves
    <2> QED
      BY <2>2, <2>3
  <1>5. CASE TransferRewrite(q)
    <2>1. /\ UNCHANGED <<holder, journal, logPage>> /\ Locked(q)
          /\ pc[q] = "t_rewrite" /\ pc'[q] = "t_write" /\ logPage[q] = None
          /\ counter'["transactions"] = number[q] /\ number[q] \in Ids
      BY <1>0, <1>1, <1>5 DEF TransferRewrite, RewriteCounter, files, caches
    <2> QED
      BY <2>1 DEF JournalMoves
  <1> QED
    BY <1>2, <1>3, <1>4, <1>5

\* Only the process that has the lock finds its number unused and writes.
LEMMA WriteMoves ==
    ASSUME BankInv, JournalInv, NEW q \in Procs,
           \/ WriteTransaction(q) \/ TransferClose(q) \/ JournalClose(q)
           \/ TransferEnd(q)
    PROVE  JournalMoves(q)
  <1> USE DEF JournalInv, JournalLocal, Locked, Recording, At, Goto
  <1>1. /\ pc \in [Procs -> Statements] /\ number \in [Procs -> Ids]
        /\ logPage \in [Procs -> Log \cup {None}]
        /\ journal \in Log
    BY DEF BankInv, BankTypeOK
  <1>2. CASE WriteTransaction(q)
    <2>1. /\ UNCHANGED <<journal, counter, holder>>
          /\ pc[q] = "t_write" /\ pc'[q] = "t_close" /\ logPage[q] = None
      BY <1>1, <1>2 DEF WriteTransaction, files, locks
    <2>2. CASE UNCHANGED logPage
      BY <2>1, <2>2 DEF JournalMoves
    <2>3. CASE logPage' # logPage
      <3>1. /\ journal[number[q]] = None
            /\ logPage'[q] = [journal EXCEPT ![number[q]] = Transaction(q)]
        BY <1>1, <1>2, <2>3 DEF WriteTransaction
      <3>2. Locked(q)
        BY <2>1, <3>1
      <3>3. \A i \in Ids : journal[i] # None => logPage'[q][i] = journal[i]
        BY <1>1, <3>1 DEF Log
      <3> QED
        BY <2>1, <3>2, <3>3 DEF JournalMoves
    <2> QED
      BY <2>2, <2>3
  <1>3. CASE TransferClose(q)
    BY <1>1, <1>3 DEF TransferClose, locks, JournalMoves
  <1>4. CASE JournalClose(q)
    <2>1. /\ UNCHANGED <<counter, holder>> /\ logPage'[q] = None
          /\ pc[q] = "j_close" /\ pc'[q] = "t_end"
          /\ journal' = journal \/ (logPage[q] # None /\ journal' = logPage[q])
      BY <1>1, <1>4 DEF JournalClose, locks
    <2> QED
      BY <2>1 DEF JournalMoves
  <1>5. CASE TransferEnd(q)
    BY <1>5, JournalStop DEF TransferEnd, files
  <1> QED
    BY <1>2, <1>3, <1>4, <1>5

\* Starting, being killed, and what the cache does.
LEMMA OtherMoves ==
    ASSUME BankInv, JournalInv, NEW q \in Procs,
           Start(q) \/ Crash(q) \/ CacheStep(q)
    PROVE  JournalMoves(q)
  <1>1. CASE Start(q)
    <2>1. PICK program \in Programs : Goto(q, FirstStatement[program])
      BY <1>1 DEF Start
    <2>2. pc'[q] \in {"c_open", "d_open", "t_open", "l_open", "s_open",
                      "h_open"}
      BY <2>1, OpeningOK DEF FirstStatement, Goto, BankInv, BankTypeOK
    <2> QED
      BY <1>1, <2>2, JournalIdle
      DEF Start, At, Recording, files, locks, caches
  <1>2. CASE Crash(q)
    BY <1>2, JournalStop DEF Crash, files
  <1>3. CASE FlushAccounts(q) \/ DropAccounts(q)
    BY <1>3
    DEF FlushAccounts, DropAccounts, files, locks, storage, JournalMoves,
        JournalInv, JournalLocal, Locked
  <1>4. CASE FlushTransactions(q)
    <2>1. /\ UNCHANGED <<counter, holder, pc, number>> /\ logPage'[q] = None
          /\ logPage[q] # None /\ journal' = logPage[q]
      BY <1>4 DEF FlushTransactions, locks, storage, BankInv, BankTypeOK
    <2> QED
      BY <2>1 DEF JournalMoves, JournalInv, JournalLocal, Locked
  <1> QED
    BY <1>1, <1>2, <1>3, <1>4 DEF CacheStep

-----------------------------------------------------------------------------
(* The invariant and the theorem.                                          *)

\* A step of any process moves the journal so.
LEMMA StepMoves ==
    ASSUME BankInv, JournalInv, NEW q \in Procs, Step(q)
    PROVE  JournalMoves(q)
  BY CreationMoves, DeletionMoves, QueryMoves, PaymentMoves, NumberMoves,
     WriteMoves, OtherMoves
  DEF Step, ProgramStep, TransferStep

\* What is in the journal stays, since only a holder of the lock has a
\* changed page, and it extends the journal.
LEMMA JournalGrows ==
    ASSUME BankInv, JournalInv, NEW q \in Procs, JournalMoves(q)
    PROVE  /\ journal' # None
           /\ \A i \in Ids : journal[i] # None => journal'[i] = journal[i]
           /\ journal' # journal => Locked(q)
  BY DEF JournalMoves, JournalInv, JournalLocal

\* The invariant is inductive.
LEMMA JournalInvStep ==
    ASSUME BankInv, JournalInv, [BankNext]_bankVars
    PROVE  /\ JournalInv'
           /\ \A i \in Ids : journal[i] # None => journal'[i] = journal[i]
  <1>1. CASE UNCHANGED bankVars
    BY <1>1 DEF bankVars, files, locks, caches, storage, JournalInv,
                JournalLocal, Locked
  <1>2. ASSUME NEW q \in Procs, Step(q)
        PROVE  /\ JournalInv'
               /\ \A i \in Ids : journal[i] # None => journal'[i] = journal[i]
    <2>1. JournalMoves(q)
      BY <1>2, StepMoves
    <2>2. /\ journal' # None /\ journal'[1] # None
          /\ \A i \in Ids : journal[i] # None => journal'[i] = journal[i]
          /\ journal' # journal => Locked(q)
      BY <2>1, JournalGrows, FirstId DEF JournalInv
    <2>3. ASSUME NEW p \in Procs, p # q
          PROVE  JournalLocal(p)'
      <3>1. Untouched(p)
        BY <1>2, <2>3, Frame DEF BankInv
      <3>2. Locked(p)' <=> Locked(p)
        BY <2>1, <2>3, BankProcsOK DEF JournalMoves, Locked
      <3>3. logPage[p] # None => journal' = journal
        BY <2>2, <2>3 DEF JournalInv, JournalLocal, Locked
      <3> QED
        BY <3>1, <3>2, <3>3 DEF Untouched, JournalInv, JournalLocal
    <2> QED
      BY <2>1, <2>2, <2>3 DEF JournalMoves, JournalInv
  <1> QED
    BY <1>1, <1>2 DEF BankNext, Step

\* No entry of the journal is ever lost or changed, for any number of
\* processes, once transaction 1 has been recorded.
THEOREM JournalKeeps ==
    ASSUME OpeningLog[1] # None
    PROVE  BankSpec => JournalKept
  <1>1. BankInit => JournalInv
    BY OpeningOK, NoneOK, BankProcsOK
    DEF BankInit, NoProcess, JournalInv, JournalLocal, Locked, Recording,
        Counters
  <1>2. BankSpec => []JournalInv
    BY <1>1, BankInvariant, JournalInvStep, PTL DEF BankSpec
  <1>3. BankInv /\ JournalInv /\ [BankNext]_bankVars =>
          [\A i \in Ids : journal[i] # None => journal'[i] = journal[i]]_bankVars
    BY JournalInvStep
  <1> QED
    BY <1>2, <1>3, BankInvariant, PTL DEF BankSpec, JournalKept

-----------------------------------------------------------------------------
(* The accounts.                                                           *)

Creating == {"c_read", "c_rewrite", "c_name", "c_write", "c_close", "c_end"}

Displaying == {"l_open", "l_read", "s_open", "s_read", "h_open", "h_make",
               "h_read"}

Held(p) == holder["accounts"] = p

\* What holds of a process as regards the accounts.
AccountLocal(p) ==
    /\ pc[p] \in {"idle", "c_open", "c_count"} \cup Creating \cup Displaying
    /\ Held(p) => pc[p] \in Creating
    /\ pc[p] = "c_rewrite" => Held(p)
    /\ pc[p] \in {"c_name", "c_write"} /\ ~Held(p) => number[p] = 1
    /\ pc[p] = "c_write" => record[p].id = number[p]
    /\ page[p] # None => pc[p] = "c_close"
    /\ p \in dirty =>
         /\ Held(p) /\ pc[p] = "c_close" /\ page[p] # None
         /\ \A i \in Ids : accounts[i] # None => page[p][i] = accounts[i]

AccountInv ==
    /\ accounts # None /\ accounts[1] # None
    /\ counter["accounts"] \in Ids
    /\ \A p \in Procs : AccountLocal(p)

\* What a step of q may do to the accounts and to the lock of their counter.
AccountMoves(q) ==
    /\ accounts' = accounts \/ (q \in dirty /\ accounts' = page[q])
    /\ counter'["accounts"] \in Ids
    /\ \/ UNCHANGED holder["accounts"]
       \/ holder["accounts"] = None /\ Held(q)'
       \/ Held(q) /\ holder'["accounts"] = None
    /\ AccountLocal(q)'

\* The run of q ends, and its lock, if it has one, is released.
LEMMA AccountStop ==
    ASSUME BankInv, AccountInv, NEW q \in Procs, StopRun(q),
           UNCHANGED <<accounts, counter>>,
           \/ holder' = Unlocked(q)
           \/ UNCHANGED holder /\ pc[q] \notin Creating
    PROVE  AccountMoves(q)
  <1> USE DEF AccountMoves, AccountLocal, AccountInv, Held
  <1>1. "accounts" \in Counters /\ q # None
    BY BankProcsOK DEF Counters
  <1>2. pc'[q] = "idle" /\ page'[q] = None /\ q \notin dirty'
    BY DEF StopRun, Goto, BankInv, BankTypeOK
  <1>3. CASE holder' = Unlocked(q)
    <2>1. holder'["accounts"] =
            IF holder["accounts"] = q THEN None ELSE holder["accounts"]
      BY <1>1, <1>3 DEF Unlocked
    <2> QED
      BY <1>1, <1>2, <2>1 DEF Creating
  <1>4. CASE UNCHANGED holder /\ pc[q] \notin Creating
    BY <1>2, <1>4 DEF Creating
  <1> QED
    BY <1>3, <1>4

\* The steps of a creation.
LEMMA CreationAccounts ==
    ASSUME BankInv, AccountInv, NEW q \in Procs, CreationStep(q)
    PROVE  AccountMoves(q)
  <1> USE DEF AccountMoves, AccountLocal, AccountInv, Held, At, Goto, Creating,
              Displaying
  <1>0. "accounts" \in Counters /\ q # None /\ None \notin Ids /\ Empty \notin Ids
    BY BankProcsOK, NoneOK DEF Counters
  <1>1. /\ pc \in [Procs -> Statements] /\ number \in [Procs -> Ids]
        /\ counter \in [Counters -> Ids \cup {None, Empty}]
        /\ holder \in [Counters -> Procs \cup {None}]
        /\ page \in [Procs -> Book \cup {None}]
        /\ record \in [Procs -> Buffer \cup {None}]
        /\ accounts \in Book
    BY DEF BankInv, BankTypeOK
  <1>2. CASE CreationOpen(q)
    BY <1>1, <1>2 DEF CreationOpen, OpenAccounts, files, locks, caches, storage
  <1>3. CASE CreationMake(q) \/ CreationCounterNew(q) \/ CreationCounterZero(q)
    BY <1>3 DEF CreationMake, CreateAccounts, CreationCounterNew,
                CreateCounter, CreationCounterZero, ZeroCounter
  <1>4. CASE CreationCounter(q)
    <2>1. /\ pc[q] = "c_count" /\ pc'[q] = "c_read"
          /\ UNCHANGED <<counter, accounts, page, dirty>>
          /\ holder'["accounts"] =
               IF holder["accounts"] = None THEN q ELSE holder["accounts"]
      BY <1>0, <1>1, <1>4 DEF CreationCounter, OpenCounter, Lock, files, caches
    <2> QED
      BY <1>0, <2>1
  <1>5. CASE CreationRead(q)
    <2>1. /\ UNCHANGED <<counter, holder, accounts, page, dirty>>
          /\ pc[q] = "c_read"
      BY <1>5 DEF CreationRead, ReadCounter, files, locks, caches
    <2>2. CASE Held(q)
      <3>1. pc'[q] = "c_rewrite"
        BY <1>0, <1>1, <1>5, <2>2 DEF CreationRead, ReadCounter
      <3> QED
        BY <2>1, <2>2, <3>1
    <2>3. CASE ~Held(q)
      <3>1. pc'[q] = "c_name" /\ number'[q] = 1
        BY <1>0, <1>1, <1>5, <2>3, FirstId DEF CreationRead, ReadCounter
      <3> QED
        BY <2>1, <2>3, <3>1
    <2> QED
      BY <2>2, <2>3
  <1>6. CASE CreationRewrite(q)
    <2>1. /\ UNCHANGED <<holder, accounts, page, dirty>> /\ Held(q)
          /\ pc[q] = "c_rewrite" /\ pc'[q] = "c_name"
          /\ counter'["accounts"] = number[q] /\ number[q] \in Ids
      BY <1>0, <1>1, <1>6 DEF CreationRewrite, RewriteCounter, files, caches
    <2> QED
      BY <2>1
  <1>7. CASE TypeName(q)
    <2>1. /\ UNCHANGED <<counter, holder, accounts, page, dirty, number>>
          /\ pc[q] = "c_name" /\ pc'[q] = "c_write" /\ record'[q].id = number[q]
      BY <1>1, <1>7 DEF TypeName, files, locks, caches
    <2> QED
      BY <2>1
  <1>8. CASE WriteAccount(q)
    <2>1. /\ UNCHANGED <<counter, holder, accounts, number>>
          /\ pc[q] = "c_write" /\ pc'[q] = "c_close"
          /\ record[q].id = number[q] /\ number[q] \in Ids
          /\ page[q] = None /\ q \notin dirty /\ View(q) = accounts
      BY <1>1, <1>8 DEF WriteAccount, files, locks, storage, View
    <2>2. CASE accounts[number[q]] = None
      <3>1. Held(q)
        BY <2>1, <2>2
      <3>2. page'[q] = [accounts EXCEPT ![number[q]] = FromBuffer(record[q])]
        BY <1>1, <1>8, <2>1, <2>2 DEF WriteAccount, Change, Use
      <3>3. page'[q] \in Book
        BY <1>1, <1>8, <2>1, <3>2, BufferType
        DEF BankInv, Ready, HasRecord, WriteAccount, Book
      <3>4. \A i \in Ids : accounts[i] # None => page'[q][i] = accounts[i]
        BY <1>1, <2>2, <3>2 DEF Book
      <3>5. page'[q] # None
        BY <3>3, NoneOK
      <3> QED
        BY <2>1, <3>1, <3>4, <3>5
    <2>3. CASE accounts[number[q]] # None
      BY <1>8, <2>1, <2>3 DEF WriteAccount, Use
    <2> QED
      BY <2>2, <2>3
  <1>9. CASE CreationClose(q)
    <2>1. /\ UNCHANGED <<counter, holder>> /\ pc[q] = "c_close"
          /\ pc'[q] = "c_end" /\ page'[q] = None /\ q \notin dirty'
      BY <1>1, <1>9 DEF CreationClose, WriteBack, locks
    <2> QED
      BY <1>9, <2>1 DEF CreationClose, WriteBack
  <1>10. CASE CreationEnd(q)
    BY <1>10, AccountStop DEF CreationEnd, files
  <1> QED
    BY <1>2, <1>3, <1>4, <1>5, <1>6, <1>7, <1>8, <1>9, <1>10 DEF CreationStep

\* Queries, and what happens to any process.
LEMMA OtherAccounts ==
    ASSUME Programs \cap {"deletion", "transfer"} = {},
           BankInv, AccountInv, NEW q \in Procs,
           QueryStep(q) \/ Start(q) \/ Crash(q) \/ CacheStep(q)
    PROVE  AccountMoves(q)
  <1> USE DEF AccountMoves, AccountLocal, AccountInv, Held, At, Goto, Creating,
              Displaying
  <1>1. /\ pc \in [Procs -> Statements] /\ page \in [Procs -> Book \cup {None}]
        /\ dirty \in SUBSET Procs
    BY DEF BankInv, BankTypeOK
  <1>2. CASE QueryStep(q) /\ StopRun(q)
    BY <1>2, AccountStop
    DEF QueryStep, ListOpen, ListMake, SearchOpen, SearchMake, HistoryOpen,
        HistoryMake, ListAccounts, SearchBalance, ListHistory, Display,
        OpenAccounts, CreateAccounts, OpenTransactions, CreateTransactions,
        files, locks
  <1>3. CASE QueryStep(q) /\ ~StopRun(q)
    <2>1. /\ UNCHANGED <<accounts, counter, holder, page, dirty>>
          /\ pc[q] \in {"l_open", "s_open", "h_open", "h_make"}
          /\ \E there \in {"l_read", "s_read", "h_read", "h_make"} :
               pc' = [pc EXCEPT ![q] = there]
      BY <1>3
      DEF QueryStep, ListOpen, ListMake, SearchOpen, SearchMake, HistoryOpen,
          HistoryMake, ListAccounts, SearchBalance, ListHistory, Display,
          OpenAccounts, CreateAccounts, OpenTransactions, CreateTransactions,
          files, locks, caches
    <2>2. pc'[q] \in {"l_read", "s_read", "h_read", "h_make"}
      BY <1>1, <2>1
    <2> QED
      BY <2>1, <2>2
  <1>4. CASE Start(q)
    <2>1. /\ UNCHANGED <<accounts, counter, holder, page, dirty>> /\ pc[q] = "idle"
      BY <1>4 DEF Start, files, locks, caches
    <2>2. PICK program \in Programs : Goto(q, FirstStatement[program])
      BY <1>4 DEF Start
    <2>3. program \in {"creation", "list", "search", "history"}
      BY OpeningOK
    <2>4. pc'[q] \in {"c_open", "l_open", "s_open", "h_open"}
      BY <1>1, <2>2, <2>3 DEF FirstStatement
    <2> QED
      BY <2>1, <2>4
  <1>5. CASE Crash(q)
    BY <1>5, AccountStop DEF Crash, files
  <1>6. CASE CacheStep(q)
    <2>1. UNCHANGED <<counter, holder, pc, number, record>>
      BY <1>6 DEF CacheStep, FlushAccounts, DropAccounts, FlushTransactions,
                  locks, storage
    <2>2. CASE FlushAccounts(q)
      BY <2>1, <2>2 DEF FlushAccounts, WriteBack
    <2>3. CASE DropAccounts(q)
      BY <1>1, <2>1, <2>3 DEF DropAccounts, files
    <2>4. CASE FlushTransactions(q)
      BY <2>1, <2>4 DEF FlushTransactions
    <2> QED
      BY <1>6, <2>2, <2>3, <2>4 DEF CacheStep
  <1> QED
    BY <1>2, <1>3, <1>4, <1>5, <1>6

\* The invariant is inductive, and no account on file changes.
LEMMA AccountInvStep ==
    ASSUME Programs \cap {"deletion", "transfer"} = {},
           BankInv, AccountInv, [BankNext]_bankVars
    PROVE  /\ AccountInv'
           /\ \A i \in Ids : accounts[i] # None => accounts'[i] = accounts[i]
  <1>1. CASE UNCHANGED bankVars
    BY <1>1 DEF bankVars, files, locks, caches, storage, AccountInv,
                AccountLocal, Held
  <1>2. ASSUME NEW q \in Procs, Step(q)
        PROVE  /\ AccountInv'
               /\ \A i \in Ids : accounts[i] # None => accounts'[i] = accounts[i]
    <2>0. ~DeletionStep(q) /\ ~TransferStep(q)
      <3>1. pc[q] \in {"idle", "c_open", "c_count"} \cup Creating \cup Displaying
        BY DEF AccountInv, AccountLocal
      <3> QED
        BY <3>1
        DEF Creating, Displaying, At, DeletionStep, DeletionOpen, DeletionMake,
            FindAccount, DeleteAccount, DeletionClose, TransferStep,
            TransferOpen, TransferMake, ReadSource, ReadDestination, Debit,
            Credit, JournalOpen, JournalMake, TransferCounter,
            TransferCounterNew, TransferCounterZero, TransferRead,
            TransferRewrite, WriteTransaction, TransferClose, JournalClose,
            TransferEnd, OpenAccounts, CreateAccounts, OpenTransactions,
            CreateTransactions, OpenCounter, CreateCounter, ZeroCounter,
            ReadCounter, RewriteCounter
    <2>1. AccountMoves(q)
      BY <1>2, <2>0, CreationAccounts, OtherAccounts DEF Step, ProgramStep
    <2>2. /\ accounts' # None
          /\ \A i \in Ids : accounts[i] # None => accounts'[i] = accounts[i]
          /\ accounts' # accounts => Held(q)
      BY <2>1 DEF AccountMoves, AccountInv, AccountLocal
    <2>3. accounts'[1] # None
      BY <2>2, FirstId DEF AccountInv
    <2>4. ASSUME NEW p \in Procs, p # q
          PROVE  AccountLocal(p)'
      <3>1. Untouched(p)
        BY <1>2, <2>4, Frame DEF BankInv
      <3>2. Held(p)' <=> Held(p)
        BY <2>1, <2>4, BankProcsOK DEF AccountMoves, Held
      <3>3. p \in dirty => accounts' = accounts
        BY <2>2, <2>4 DEF AccountInv, AccountLocal, Held
      <3> QED
        BY <3>1, <3>2, <3>3 DEF Untouched, AccountInv, AccountLocal
    <2> QED
      BY <2>1, <2>2, <2>3, <2>4 DEF AccountMoves, AccountInv
  <1> QED
    BY <1>1, <1>2 DEF BankNext, Step

\* While no deletion and no transfer runs, the accounts on file stay, for
\* any number of creations and queries, once account 1 has been made.
THEOREM AccountsKeep ==
    ASSUME Programs \cap {"deletion", "transfer"} = {},
           OpeningBook[1] # None
    PROVE  BankSpec => AccountsKept
  <1>1. BankInit => AccountInv
    BY OpeningOK, NoneOK, BankProcsOK
    DEF BankInit, NoProcess, AccountInv, AccountLocal, Held, Creating, Counters
  <1>2. BankSpec => []AccountInv
    BY <1>1, BankInvariant, AccountInvStep, PTL DEF BankSpec
  <1>3. BankInv /\ AccountInv /\ [BankNext]_bankVars =>
          [accounts # None => \A i \in Ids :
             accounts[i] # None => accounts'[i] = accounts[i]]_bankVars
    BY AccountInvStep
  <1> QED
    BY <1>2, <1>3, BankInvariant, PTL DEF BankSpec, AccountsKept

-----------------------------------------------------------------------------
(* A debit is followed by its credit.                                      *)

\* Between its READ and its REWRITE the destination is in the page of the
\* transfer.
Creditable(p) ==
    pc[p] \in {"t_debit", "t_credit"} =>
        page[p] # None /\ page[p][peer[p].id] # None

CreditInv == \A p \in Procs : Creditable(p)

\* Only the READ of the destination and the debit lead to a statement that
\* needs it.
LEMMA CreditPoints ==
    ASSUME BankTypeOK, NEW q \in Procs, Step(q), ~CacheStep(q),
           ~ReadDestination(q), ~Debit(q)
    PROVE  pc'[q] \notin {"t_debit", "t_credit"}
  <1> USE DEF BankTypeOK, Goto
  <1>1. CASE StopRun(q)
    BY <1>1 DEF StopRun
  <1>2. CASE Start(q)
    <2>1. PICK program \in Programs : Goto(q, FirstStatement[program])
      BY <1>2 DEF Start
    <2>2. program \in {"creation", "deletion", "transfer", "list", "search",
                       "history"}
      BY OpeningOK
    <2>3. FirstStatement[program] \in {"c_open", "d_open", "t_open", "l_open",
                                       "s_open", "h_open"}
      BY <2>2 DEF FirstStatement
    <2> QED
      BY <2>1, <2>3
  <1>3. CASE ~StopRun(q) /\ CreationStep(q)
    BY <1>3
    DEF CreationStep, CreationOpen, CreationMake, CreationCounter,
        CreationCounterNew, CreationCounterZero, CreationRead,
        CreationRewrite, TypeName, WriteAccount, CreationClose, CreationEnd,
        OpenAccounts, CreateAccounts, OpenCounter, CreateCounter, ZeroCounter,
        ReadCounter, RewriteCounter
  <1>4. CASE ~StopRun(q) /\ DeletionStep(q)
    BY <1>4
    DEF DeletionStep, DeletionOpen, DeletionMake, FindAccount, DeleteAccount,
        DeletionClose, OpenAccounts, CreateAccounts
  <1>5. CASE ~StopRun(q) /\ TransferStep(q)
    BY <1>5
    DEF TransferStep, TransferOpen, TransferMake, ReadSource, Credit,
        JournalOpen, JournalMake, TransferCounter, TransferCounterNew,
        TransferCounterZero, TransferRead, TransferRewrite, WriteTransaction,
        TransferClose, JournalClose, TransferEnd, OpenAccounts,
        CreateAccounts, OpenTransactions, CreateTransactions, OpenCounter,
        CreateCounter, ZeroCounter, ReadCounter, RewriteCounter
  <1>6. CASE ~StopRun(q) /\ QueryStep(q)
    BY <1>6
    DEF QueryStep, ListOpen, ListMake, SearchOpen, SearchMake, HistoryOpen,
        HistoryMake, ListAccounts, SearchBalance, ListHistory, Display,
        OpenAccounts, CreateAccounts, OpenTransactions, CreateTransactions
  <1> QED
    BY <1>1, <1>2, <1>3, <1>4, <1>5, <1>6 DEF Step, ProgramStep, Crash

\* The READ of the destination finds it, and the debit leaves it.
LEMMA CreditStep ==
    ASSUME BankInv, CreditInv, NEW q \in Procs,
           ReadDestination(q) \/ Debit(q)
    PROVE  Creditable(q)'
  <1>1. /\ page \in [Procs -> Book \cup {None}]
        /\ pc \in [Procs -> Statements]
        /\ peer \in [Procs -> Buffer \cup {None}]
    BY DEF BankInv, BankTypeOK
  <1>2. CASE StopRun(q)
    BY <1>1, <1>2 DEF StopRun, Goto, Creditable
  <1>3. CASE ~StopRun(q) /\ ReadDestination(q)
    <2>1. View(q) \in Book
      BY <1>3, ViewType DEF ReadDestination, At, UsesAccounts
    <2>2. PICK order \in Orders :
            /\ View(q)[order[2]] # None /\ Use(q)
            /\ peer' = [peer EXCEPT ![q] = ToBuffer(View(q), order[2])]
      BY <1>3 DEF ReadDestination
    <2>3. page'[q] = View(q) /\ peer'[q].id = order[2]
      BY <1>1, <2>2 DEF Use, ToBuffer
    <2> QED
      BY <2>1, <2>2, <2>3, NoneOK DEF Creditable
  <1>4. CASE ~StopRun(q) /\ Debit(q)
    <2>1. /\ View(q) \in Book /\ View(q) = page[q]
          /\ page[q][peer[q].id] # None /\ record[q] \in Buffer
      BY <1>4, ViewType
      DEF Debit, At, UsesAccounts, CreditInv, Creditable, View, BankInv,
          BankTypeOK, Ready, HasRecord, HasPeer
    <2>2. PICK a \in Amounts :
            /\ Change(q, Rewritten(q, Plus(record[q], -a)))
            /\ UNCHANGED peer
      BY <1>4 DEF Debit
    <2> DEFINE r == Plus(record[q], -a)
    <2>3. r \in Buffer
      BY <2>1, PlusBuffer, BankSizesOK
    <2>4. page'[q] = [page[q] EXCEPT ![r.id] = FromBuffer(r)]
      BY <1>1, <2>1, <2>2 DEF Change, Rewritten
    <2> HIDE DEF r
    <2>5. FromBuffer(r) # None /\ page'[q] \in Book
      <3>1. page[q] \in Book /\ FromBuffer(r) # None
        BY <2>1, <2>3, BufferType
      <3>2. [page[q] EXCEPT ![r.id] = FromBuffer(r)] \in Book
        BY <2>3, <3>1, BookTypes
      <3> QED
        BY <2>4, <3>1, <3>2
    <2>6. page'[q][peer[q].id] # None
      BY <2>1, <2>4, <2>5 DEF Book
    <2> QED
      BY <2>2, <2>5, <2>6, NoneOK DEF Creditable
  <1> QED
    BY <1>2, <1>3, <1>4

\* Another process never reaches into the page of a transfer.
LEMMA CreditInvStep ==
    ASSUME Pressure = FALSE, BankInv, CreditInv, [BankNext]_bankVars
    PROVE  CreditInv'
  <1>1. CASE UNCHANGED bankVars
    BY <1>1 DEF bankVars, caches, storage, CreditInv, Creditable
  <1>2. ASSUME NEW q \in Procs, Step(q)
        PROVE  CreditInv'
    <2>1. ~CacheStep(q)
      BY DEF CacheStep, FlushAccounts, DropAccounts, FlushTransactions
    <2>2. Creditable(q)'
      BY <1>2, <2>1, CreditPoints, CreditStep DEF BankInv, Creditable
    <2>3. ASSUME NEW p \in Procs, p # q
          PROVE  Creditable(p)'
      BY <1>2, <2>3, Frame DEF BankInv, Untouched, CreditInv, Creditable
    <2> QED
      BY <2>2, <2>3 DEF CreditInv
  <1> QED
    BY <1>1, <1>2 DEF BankNext, Step

\* While caches keep their pages until CLOSE, the destination of a debited
\* transfer is there to be credited, for any number of processes and crashes.
THEOREM DebitsAreCredited ==
    ASSUME Pressure = FALSE
    PROVE  FreshBankSpec \/ BankSpec \/ EitherBankSpec => []DebitThenCredit
  <1>1. FreshBankInit \/ BankInit => CreditInv
    BY DEF FreshBankInit, BankInit, NoProcess, CreditInv, Creditable
  <1>2. FreshBankSpec \/ BankSpec \/ EitherBankSpec =>
          /\ FreshBankInit \/ BankInit
          /\ [][BankNext]_bankVars
    BY PTL DEF FreshBankSpec, BankSpec, EitherBankSpec
  <1>3. BankInv /\ CreditInv => DebitThenCredit
    BY DEF CreditInv, Creditable, DebitThenCredit, View
  <1> QED
    BY <1>1, <1>2, <1>3, BankInvariant, CreditInvStep, PTL

-----------------------------------------------------------------------------
(* What the balances add up to, modulo what a balance field can hold.      *)

\* x and y differ by whole multiples of BalanceLimit.
Congruent(x, y) == \E k \in Int : x = y + k * BalanceLimit

\* A number is its quotient's multiple and what is left over.
LEMMA Division ==
    ASSUME NEW a \in Int, NEW n \in Nat \ {0}
    PROVE  \E m \in Int, r \in 0..(n - 1) : a = m * n + r /\ r = a % n
  <1>1. a = n * (a \div n) + (a % n)
    BY SMT
  <1>2. a \div n \in Int /\ a % n \in 0..(n - 1)
    BY SMT
  <1>3. PICK m \in Int, r \in 0..(n - 1) : m = a \div n /\ r = a % n
    BY <1>2
  <1>4. n * m = m * n
    BY <1>3
  <1> QED
    BY <1>1, <1>3, <1>4

\* What is left over tells whether two amounts are congruent.
LEMMA CongruentRemainder ==
    ASSUME NEW x \in Int, NEW y \in Int, Congruent(x, y)
    PROVE  (x - y) % BalanceLimit = 0
  <1>1. PICK k \in Int : x = y + k * BalanceLimit
    BY DEF Congruent
  <1>2. PICK n \in Nat \ {0} : n = BalanceLimit
    BY BankSizesOK
  <1>3. x - y = k * n /\ k * n \in Int
    BY <1>1, <1>2
  <1>4. (k * n) % n = 0
    <2>0. PICK a \in Int : a = k * n
      BY <1>3
    <2>1. PICK m \in Int, r \in 0..(n - 1) :
             k * n = m * n + r /\ r = (k * n) % n
      BY <2>0, Division
    <2>2. (k - m) * n = r
      BY <2>1
    <2>3. PICK d \in Int : d = k - m
      BY <2>1
    <2>4. d * n = r /\ r < n /\ r >= 0
      BY <2>1, <2>2, <2>3
    <2>5. d = 0
      <3>1. d >= 1 => d * n >= n
        OBVIOUS
      <3>2. d <= -1 => d * n <= -n
        OBVIOUS
      <3> QED
        BY <2>4, <3>1, <3>2
    <2> QED
      BY <2>1, <2>4, <2>5
  <1> QED
    BY <1>2, <1>3, <1>4

\* Amounts congruent to one another stay so when as much is added to both.
LEMMA CongruentChain ==
    ASSUME NEW x \in Int, NEW y \in Int, NEW z \in Int, NEW d \in Int,
           Congruent(x, y), Congruent(y + d, z)
    PROVE  Congruent(x + d, z)
  <1>1. PICK k \in Int, m \in Int :
          x = y + k * BalanceLimit /\ y + d = z + m * BalanceLimit
    BY DEF Congruent
  <1>2. BalanceLimit \in Int
    BY BankSizesOK
  <1>3. x + d = z + (k + m) * BalanceLimit
    BY <1>1, <1>2
  <1> QED
    BY <1>1, <1>3 DEF Congruent

\* A field loses the digits it has no room for and nothing else.
LEMMA StoredCongruent ==
    ASSUME NEW x \in Int
    PROVE  Congruent(Stored(x), x) /\ Stored(x) \in Int
  <1>1. PICK n \in Nat \ {0} : n = BalanceLimit
    BY BankSizesOK
  <1>3. CASE x < 0
    <2>1. PICK y \in Int : y = -x
      OBVIOUS
    <2>2. PICK m \in Int, r \in 0..(n - 1) : y = m * n + r /\ r = y % n
      BY Division
    <2>3. Stored(x) = -r
      BY <1>1, <1>3, <2>1, <2>2 DEF Stored
    <2>4. PICK t \in Int : t = m * n
      OBVIOUS
    <2>5. y = t + r /\ r \in Int
      BY <2>2, <2>4
    <2>6. -r = x + t /\ -r \in Int
      BY <2>1, <2>5
    <2>7. Stored(x) = x + m * BalanceLimit
      BY <1>1, <2>3, <2>4, <2>6
    <2> QED
      BY <2>3, <2>6, <2>7 DEF Congruent
  <1>4. CASE ~(x < 0)
    <2>1. PICK m \in Int, r \in 0..(n - 1) : x = m * n + r /\ r = x % n
      BY Division
    <2>2. Stored(x) = r
      BY <1>1, <1>4, <2>1 DEF Stored
    <2>3. -m \in Int /\ r = x + (-m) * n
      BY <2>1
    <2> QED
      BY <1>1, <2>2, <2>3 DEF Congruent
  <1> QED
    BY <1>3, <1>4

\* There are finitely many account numbers, so their balances add up.
LEMMA IdsFinite == IsFiniteSet(Ids)
  BY BankSizesOK, FS_Interval DEF Ids

\* The balances of a page are whole cents and so is their total
\* (BankAudit.Total).
LEMMA TotalType ==
    ASSUME NEW b \in Book
    PROVE  /\ Total(b) \in Int
           /\ \A i \in Ids : Balance(b[i]) \in Int
  <1>1. ASSUME NEW i \in Ids
        PROVE  Balance(b[i]) \in Int
    BY BankSizesOK DEF Balance, Book, Account, Balances
  <1>2. \A i \in Ids : [j \in Ids |-> Balance(b[j])][i] \in Int
    BY <1>1
  <1> HIDE DEF Balance
  <1>3. Total(b) \in Int
    BY <1>2, IdsFinite, SumType DEF Total
  <1> QED
    BY <1>1, <1>3

\* Rewriting, adding or deleting one account changes the total by what that
\* account has more or less than before.
LEMMA TotalChange ==
    ASSUME NEW b \in Book, NEW i \in Ids, NEW r \in Account \cup {None}
    PROVE  /\ [b EXCEPT ![i] = r] \in Book
           /\ Total([b EXCEPT ![i] = r]) = Total(b) + Balance(r) - Balance(b[i])
  <1> DEFINE c == [b EXCEPT ![i] = r]
             f == [j \in Ids |-> Balance(b[j])]
             g == [j \in Ids |-> Balance(c[j])]
  <1>1. c \in Book /\ c[i] = r /\ \A j \in Ids \ {i} : c[j] = b[j]
    BY DEF Book
  <1>2. \A j \in Ids : f[j] \in Int /\ g[j] \in Int
    BY <1>1, TotalType
  <1> HIDE DEF c
  <1>3. \A j \in Ids \ {i} : f[j] = g[j]
    BY <1>1
  <1>4. f[i] = Balance(b[i]) /\ g[i] = Balance(r)
    BY <1>1
  <1>5. Total(b) = SumFunctionOnSet(f, Ids) /\ Total(c) = SumFunctionOnSet(g, Ids)
    BY DEF Total
  <1> HIDE DEF f, g
  <1>6. SumFunctionOnSet(g, Ids) = SumFunctionOnSet(f, Ids) + g[i] - f[i]
    BY <1>2, <1>3, IdsFinite, SumChange
  <1>7. Total(c) = Total(b) + Balance(r) - Balance(b[i])
    BY <1>4, <1>5, <1>6
  <1> QED
    BY <1>1, <1>7 DEF c

-----------------------------------------------------------------------------
(* The money.  What a page holds, and the amount debited and not yet       *)
(* credited, add up to what the bank opened with.  A buffer about to be    *)
(* rewritten is what the page holds, so that the debit and the credit move *)
(* exactly that amount.                                                    *)

\* A page that is short of what is owed adds up to what the bank opened with.
Kept(b, owed) ==
    Complete(b) => Congruent(Total(b) + owed, Total(OpeningBook))

\* Either accounts only come, or they only go.
Fits(b) ==
    IF "creation" \in Programs THEN Complete(b)
    ELSE \A i \in Ids : b[i] # None => OpeningBook[i] # None

Balanced(b, owed) == Fits(b) /\ Kept(b, owed)

\* Between its debit and its credit a transfer's page is short of the amount.
Owed(p) == IF pc[p] = "t_credit" THEN amount[p] ELSE 0

\* The buffer b holds what p's page holds.
Fresh(p, b) == page[p][b.id] # None /\ b = ToBuffer(page[p], b.id)

Deleting == {"d_open", "d_read", "d_delete", "d_close"}
Making == {"c_make", "d_make", "t_make", "l_make", "s_make"}
Opening == {"c_open", "c_count", "c_new", "c_zero"} \cup Creating

\* What holds of a process as regards the money.
MoneyLocal(p) ==
    /\ pc[p] \notin Making
    /\ pc[p] \in Opening => "creation" \in Programs
    /\ pc[p] \in Deleting => "deletion" \in Programs
    /\ pc[p] = "c_write" => record[p].balance = 0
    /\ page[p] # None => Balanced(page[p], Owed(p))
    /\ pc[p] \in {"t_destination", "t_debit", "t_credit"} => page[p] # None
    /\ pc[p] \in {"t_destination", "t_debit"} => Fresh(p, record[p])
    /\ pc[p] \in {"t_debit", "t_credit"} =>
         Fresh(p, peer[p]) /\ peer[p].id # record[p].id

MoneyInv ==
    /\ accounts # None /\ Balanced(accounts, 0)
    /\ \A p \in Procs : MoneyLocal(p)

\* What a step of q may do to the money.
MoneyMoves(q) ==
    /\ \/ accounts' = accounts
       \/ accounts' = page[q] /\ page[q] # None /\ pc[q] # "t_credit"
    /\ MoneyLocal(q)'

\* An account rewritten with what is owed set right leaves a balanced page.
LEMMA RewriteBalanced ==
    ASSUME NEW b \in Book, NEW i \in Ids, b[i] # None, NEW r \in Account,
           NEW owed \in Int, NEW rest \in Int, Balanced(b, owed),
           Congruent(r.balance + rest, b[i].balance + owed)
    PROVE  [b EXCEPT ![i] = r] \in Book /\ Balanced([b EXCEPT ![i] = r], rest)
  <1> DEFINE c == [b EXCEPT ![i] = r]
  <1>1. /\ c \in Book /\ Total(c) = Total(b) + Balance(r) - Balance(b[i])
        /\ c[i] = r /\ \A j \in Ids \ {i} : c[j] = b[j]
    BY TotalChange DEF Book
  <1>2. r # None /\ b[i] \in Account /\ OpeningBook \in Book
    BY NoneOK, OpeningOK DEF Book
  <1>3. Balance(r) = r.balance /\ Balance(b[i]) = b[i].balance
    BY <1>2 DEF Balance
  <1> HIDE DEF c
  <1>4. Fits(c)
    BY <1>1, <1>2 DEF Balanced, Fits, Complete
  <1>5. ASSUME Complete(c)
        PROVE  Congruent(Total(c) + rest, Total(OpeningBook))
    <2>1. Complete(b)
      BY <1>1, <1>5 DEF Complete
    <2>2. Congruent(Total(b) + owed, Total(OpeningBook))
      BY <2>1 DEF Balanced, Kept
    <2>3. PICK x \in Int, y \in Int, d \in Int, z \in Int :
            /\ x = r.balance + rest /\ y = b[i].balance + owed
            /\ d = Total(b) - b[i].balance /\ z = Total(OpeningBook)
      BY <1>2, TotalType, BankSizesOK DEF Account, Balances
    <2>4. y + d = Total(b) + owed /\ x + d = Total(c) + rest
      <3>1. Total(b) \in Int /\ b[i].balance \in Int /\ r.balance \in Int
        BY <1>2, TotalType, BankSizesOK DEF Account, Balances
      <3> QED
        BY <1>1, <1>3, <2>3, <3>1
    <2>5. Congruent(x, y) /\ Congruent(y + d, z)
      BY <2>2, <2>3, <2>4
    <2>6. Congruent(x + d, z)
      BY <2>5, CongruentChain
    <2> QED
      BY <2>3, <2>4, <2>6
  <1> QED
    BY <1>1, <1>4, <1>5 DEF Balanced, Kept, c

\* A new account holds nothing.
LEMMA CreateBalanced ==
    ASSUME NEW b \in Book, NEW i \in Ids, b[i] = None, NEW r \in Account,
           r.balance = 0, "creation" \in Programs, Balanced(b, 0)
    PROVE  Balanced([b EXCEPT ![i] = r], 0)
  <1> DEFINE c == [b EXCEPT ![i] = r]
  <1>0. r \in Account \cup {None}
    OBVIOUS
  <1>1. c \in Book /\ Total(c) = Total(b) + Balance(r) - Balance(b[i])
    BY <1>0, TotalChange
  <1>2. c[i] = r /\ \A j \in Ids \ {i} : c[j] = b[j]
    BY DEF Book
  <1>3. Balance(r) = 0 /\ Balance(b[i]) = 0 /\ r # None
    BY NoneOK DEF Balance
  <1>4. Total(b) \in Int
    BY TotalType
  <1> HIDE DEF c
  <1>5. Total(c) = Total(b)
    BY <1>1, <1>3, <1>4
  <1>6. Complete(b) /\ Complete(c)
    BY <1>2, <1>3 DEF Balanced, Fits, Complete
  <1> QED
    BY <1>5, <1>6 DEF Balanced, Fits, Kept, c

\* An account that is deleted is missed.
LEMMA DeleteBalanced ==
    ASSUME NEW b \in Book, NEW i \in Ids, b[i] # None,
           "creation" \notin Programs, Balanced(b, 0)
    PROVE  Balanced([b EXCEPT ![i] = None], 0)
  <1> DEFINE c == [b EXCEPT ![i] = None]
  <1>1. c[i] = None /\ \A j \in Ids \ {i} : c[j] = b[j]
    BY DEF Book
  <1> HIDE DEF c
  <1>2. OpeningBook[i] # None
    BY DEF Balanced, Fits
  <1>3. Fits(c) /\ ~Complete(c)
    BY <1>1, <1>2 DEF Balanced, Fits, Complete
  <1> QED
    BY <1>3 DEF Balanced, Kept, c

\* What a debit takes from the page is owed, and a credit pays it.
LEMMA PaymentCongruent ==
    ASSUME NEW x \in Int, NEW a \in Int
    PROVE  /\ Congruent(Stored(x + (-a)) + a, x + 0)
           /\ Congruent(Stored(x + a) + 0, x + a)
  <1>1. PICK y \in Int, z \in Int, s \in Int, t \in Int :
          /\ y = x + (-a) /\ z = x + a
          /\ s = Stored(y) /\ t = Stored(z)
    BY StoredCongruent
  <1>2. Congruent(s, y) /\ Congruent(t, z)
    BY <1>1, StoredCongruent
  <1>3. PICK k \in Int, m \in Int :
          s = y + k * BalanceLimit /\ t = z + m * BalanceLimit
    BY <1>2 DEF Congruent
  <1>4. PICK u \in Int, v \in Int : u = k * BalanceLimit /\ v = m * BalanceLimit
    BY <1>3, BankSizesOK
  <1>5. s + a = (x + 0) + u /\ t + 0 = (x + a) + v
    BY <1>1, <1>3, <1>4
  <1> QED
    BY <1>1, <1>3, <1>4, <1>5 DEF Congruent

-----------------------------------------------------------------------------
(* What each program does to the money.                                    *)

\* The run of q ends.
LEMMA MoneyStop ==
    ASSUME BankInv, MoneyInv, NEW q \in Procs, StopRun(q),
           \/ accounts' = accounts
           \/ accounts' = page[q] /\ page[q] # None /\ pc[q] # "t_credit"
    PROVE  MoneyMoves(q)
  <1>1. pc'[q] = "idle" /\ page'[q] = None
    BY DEF StopRun, Goto, BankInv, BankTypeOK
  <1> QED
    BY <1>1 DEF MoneyMoves, MoneyLocal, Making, Opening, Creating, Deleting

\* A statement that leaves the page of q alone, or uses what is on disk, and
\* leads to one that relies on no buffer.
LEMMA MoneyPlain ==
    ASSUME BankInv, MoneyInv, NEW q \in Procs, pc[q] # "t_credit",
           page'[q] \in {page[q], View(q), None},
           \/ accounts' = accounts
           \/ accounts' = page[q] /\ page[q] # None,
           pc'[q] \notin Making \cup {"c_write", "t_destination", "t_debit",
                                      "t_credit"},
           pc'[q] \in Opening => "creation" \in Programs,
           pc'[q] \in Deleting => "deletion" \in Programs
    PROVE  MoneyMoves(q)
  <1>1. /\ page'[q] # None => Balanced(page'[q], 0)
        /\ Owed(q)' = 0
    BY DEF MoneyInv, MoneyLocal, Owed, View
  <1> QED
    BY <1>1 DEF MoneyMoves, MoneyLocal

\* What q reads from is balanced.
LEMMA MoneyView ==
    ASSUME BankInv, MoneyInv, NEW q \in Procs, pc[q] \in UsesAccounts
    PROVE  /\ View(q) \in Book /\ View(q) # None
           /\ Balanced(View(q), Owed(q))
  <1>1. View(q) \in Book /\ View(q) # None
    BY ViewType, NoneOK
  <1>2. CASE page[q] = None
    <2>1. pc[q] # "t_credit" /\ View(q) = accounts
      BY <1>2 DEF MoneyInv, MoneyLocal, View
    <2> QED
      BY <1>1, <2>1 DEF MoneyInv, Owed
  <1>3. CASE page[q] # None
    BY <1>1, <1>3 DEF MoneyInv, MoneyLocal, View
  <1> QED
    BY <1>2, <1>3

\* The steps of a creation.
LEMMA CreationMoney ==
    ASSUME BankInv, MoneyInv, NEW q \in Procs, CreationStep(q)
    PROVE  MoneyMoves(q)
  <1> USE DEF At, Goto
  <1>1. /\ pc \in [Procs -> Statements]
        /\ page \in [Procs -> Book \cup {None}]
        /\ record \in [Procs -> Buffer \cup {None}]
    BY DEF BankInv, BankTypeOK
  <1>2. pc[q] \notin Making /\ accounts # None
    BY DEF MoneyInv, MoneyLocal
  <1>3. pc[q] \in Opening /\ "creation" \in Programs /\ pc[q] # "t_credit"
    <2>1. pc[q] \in Opening
      BY <1>2
      DEF CreationStep, CreationOpen, CreationMake, CreationCounter,
          CreationCounterNew, CreationCounterZero, CreationRead,
          CreationRewrite, TypeName, WriteAccount, CreationClose, CreationEnd,
          OpenAccounts, CreateAccounts, OpenCounter, CreateCounter,
          ZeroCounter, ReadCounter, RewriteCounter, Making, Opening, Creating
    <2> QED
      BY <2>1 DEF MoneyInv, MoneyLocal, Opening, Creating
  <1>4. CASE \/ CreationOpen(q) \/ CreationMake(q) \/ CreationCounter(q)
             \/ CreationCounterNew(q) \/ CreationCounterZero(q)
             \/ CreationRead(q) \/ CreationRewrite(q)
    <2>1. /\ UNCHANGED <<accounts, page>>
          /\ \E there \in {"c_count", "c_new", "c_zero", "c_read",
                           "c_rewrite", "c_name"} : pc' = [pc EXCEPT ![q] = there]
      BY <1>2, <1>4
      DEF CreationOpen, CreationMake, CreationCounter, CreationCounterNew,
          CreationCounterZero, CreationRead, CreationRewrite, OpenAccounts,
          CreateAccounts, OpenCounter, CreateCounter, ZeroCounter, ReadCounter,
          RewriteCounter, Making, files, caches
    <2>2. pc'[q] \in {"c_count", "c_new", "c_zero", "c_read", "c_rewrite",
                      "c_name"}
      BY <1>1, <2>1
    <2> QED
      BY <1>3, <2>1, <2>2, MoneyPlain DEF Making, Deleting
  <1>5. CASE TypeName(q)
    <2>1. /\ UNCHANGED <<accounts, page>> /\ pc'[q] = "c_write"
          /\ record'[q].balance = 0
      BY <1>1, <1>5 DEF TypeName, files, caches
    <2>2. page[q] # None => Balanced(page[q], 0)
      BY <1>3 DEF MoneyInv, MoneyLocal, Owed
    <2> QED
      BY <1>3, <2>1, <2>2
      DEF MoneyMoves, MoneyLocal, Owed, Making, Deleting
  <1>6. CASE WriteAccount(q)
    <2>1. /\ pc[q] = "c_write" /\ pc'[q] = "c_close" /\ accounts' = accounts
      BY <1>1, <1>6 DEF WriteAccount, files
    <2>2. /\ View(q) \in Book /\ Balanced(View(q), 0)
          /\ record[q] \in Buffer /\ record[q].balance = 0
      BY <1>1, <2>1, MoneyView
      DEF UsesAccounts, Owed, MoneyInv, MoneyLocal, BankInv, Ready, HasRecord
    <2>3. CASE View(q)[record[q].id] = None
      <3> DEFINE r == FromBuffer(record[q])
      <3>1. r \in Account /\ record[q].id \in Ids /\ r.balance = 0
        BY <2>2, BufferType DEF FromBuffer
      <3>2. page'[q] = [View(q) EXCEPT ![record[q].id] = r]
        BY <1>1, <1>6, <2>3 DEF WriteAccount, Change
      <3> HIDE DEF r
      <3>3. Balanced(page'[q], 0)
        BY <1>3, <2>2, <2>3, <3>1, <3>2, CreateBalanced
      <3> QED
        BY <1>3, <2>1, <3>3
        DEF MoneyMoves, MoneyLocal, Owed, Making, Deleting
    <2>4. CASE View(q)[record[q].id] # None
      <3>1. page'[q] = View(q)
        BY <1>1, <1>6, <2>4 DEF WriteAccount, Use
      <3> QED
        BY <1>3, <2>1, <3>1, MoneyPlain DEF Making, Deleting
    <2> QED
      BY <2>3, <2>4
  <1>7. CASE CreationClose(q)
    <2>1. /\ pc'[q] = "c_end" /\ page'[q] = None
          /\ accounts' = accounts \/ (page[q] # None /\ accounts' = page[q])
      BY <1>1, <1>7 DEF CreationClose, WriteBack, BankInv, Ready
    <2> QED
      BY <1>3, <2>1, MoneyPlain DEF Making, Deleting
  <1>8. CASE CreationEnd(q)
    BY <1>8, MoneyStop DEF CreationEnd, files
  <1> QED
    BY <1>4, <1>5, <1>6, <1>7, <1>8 DEF CreationStep

\* The steps of a deletion.
LEMMA DeletionMoney ==
    ASSUME ~({"creation", "deletion"} \subseteq Programs),
           BankInv, MoneyInv, NEW q \in Procs, DeletionStep(q)
    PROVE  MoneyMoves(q)
  <1> USE DEF At, Goto
  <1>1. /\ pc \in [Procs -> Statements]
        /\ page \in [Procs -> Book \cup {None}]
        /\ number \in [Procs -> Ids]
    BY DEF BankInv, BankTypeOK
  <1>2. pc[q] \notin Making /\ accounts # None
    BY DEF MoneyInv, MoneyLocal
  <1>3. pc[q] \in Deleting /\ "deletion" \in Programs /\ pc[q] # "t_credit"
    <2>1. pc[q] \in Deleting
      BY <1>2
      DEF DeletionStep, DeletionOpen, DeletionMake, FindAccount, DeleteAccount,
          DeletionClose, OpenAccounts, CreateAccounts, Making, Deleting
    <2> QED
      BY <2>1 DEF MoneyInv, MoneyLocal, Deleting
  <1>4. CASE DeletionOpen(q) \/ DeletionMake(q)
    <2>1. UNCHANGED <<accounts, page>> /\ pc'[q] = "d_read"
      BY <1>1, <1>2, <1>4
      DEF DeletionOpen, DeletionMake, OpenAccounts, CreateAccounts, Making,
          files, caches
    <2> QED
      BY <1>3, <2>1, MoneyPlain DEF Making, Opening, Creating
  <1>5. CASE FindAccount(q)
    <2>1. accounts' = accounts
      BY <1>5 DEF FindAccount, files
    <2>2. StopRun(q) \/ (page'[q] = View(q) /\ pc'[q] = "d_delete")
      BY <1>1, <1>5 DEF FindAccount, Use
    <2> QED
      BY <1>3, <2>1, <2>2, MoneyStop, MoneyPlain DEF Making, Opening, Creating
  <1>6. CASE DeleteAccount(q)
    <2>1. /\ pc[q] = "d_delete" /\ pc'[q] = "d_close" /\ accounts' = accounts
      BY <1>1, <1>6 DEF DeleteAccount, files
    <2>2. View(q) \in Book /\ Balanced(View(q), 0) /\ number[q] \in Ids
      BY <1>1, <2>1, MoneyView DEF UsesAccounts, Owed
    <2>3. CASE View(q)[number[q]] # None
      <3>1. page'[q] = [View(q) EXCEPT ![number[q]] = None]
        BY <1>1, <1>6, <2>3 DEF DeleteAccount, Change
      <3>2. Balanced(page'[q], 0)
        BY <1>3, <2>2, <2>3, <3>1, DeleteBalanced
      <3> QED
        BY <1>3, <2>1, <3>2
        DEF MoneyMoves, MoneyLocal, Owed, Making, Opening, Creating
    <2>4. CASE View(q)[number[q]] = None
      <3>1. page'[q] = View(q)
        BY <1>1, <1>6, <2>4 DEF DeleteAccount, Use
      <3> QED
        BY <1>3, <2>1, <3>1, MoneyPlain DEF Making, Opening, Creating
    <2> QED
      BY <2>3, <2>4
  <1>7. CASE DeletionClose(q)
    BY <1>3, <1>7, MoneyStop DEF DeletionClose, BankInv, Ready
  <1> QED
    BY <1>4, <1>5, <1>6, <1>7 DEF DeletionStep

\* The source and the destination as they are read.
LEMMA ReadMoney ==
    ASSUME \A order \in Orders : order[1] # order[2],
           BankInv, MoneyInv, NEW q \in Procs,
           ReadSource(q) \/ ReadDestination(q)
    PROVE  MoneyMoves(q)
  <1> USE DEF At, Goto
  <1>1. /\ pc \in [Procs -> Statements]
        /\ page \in [Procs -> Book \cup {None}]
        /\ record \in [Procs -> Buffer \cup {None}]
        /\ peer \in [Procs -> Buffer \cup {None}]
    BY DEF BankInv, BankTypeOK
  <1>2. /\ accounts' = accounts /\ pc[q] \in {"t_source", "t_destination"}
        /\ View(q) # None /\ Balanced(View(q), 0)
    <2>1. accounts' = accounts /\ pc[q] \in {"t_source", "t_destination"}
      BY DEF ReadSource, ReadDestination, files
    <2> QED
      BY <2>1, MoneyView DEF UsesAccounts, Owed
  <1>3. CASE StopRun(q)
    BY <1>2, <1>3, MoneyStop
  <1>4. CASE ReadSource(q) /\ ~StopRun(q)
    <2>1. PICK order \in Orders :
            /\ View(q)[order[1]] # None /\ Use(q)
            /\ record' = [record EXCEPT ![q] = ToBuffer(View(q), order[1])]
            /\ pc' = [pc EXCEPT ![q] = "t_destination"]
      BY <1>4 DEF ReadSource
    <2>2. /\ page'[q] = View(q) /\ pc'[q] = "t_destination"
          /\ record'[q] = ToBuffer(View(q), order[1])
          /\ record'[q].id = order[1]
      BY <1>1, <2>1 DEF Use, ToBuffer
    <2>3. Fresh(q, record[q])'
      BY <2>1, <2>2 DEF Fresh
    <2> QED
      BY <1>2, <2>2, <2>3
      DEF MoneyMoves, MoneyLocal, Owed, Making, Opening, Creating, Deleting
  <1>5. CASE ReadDestination(q) /\ ~StopRun(q)
    <2>1. PICK order \in Orders :
            /\ order[1] = record[q].id
            /\ View(q)[order[2]] # None /\ Use(q)
            /\ peer' = [peer EXCEPT ![q] = ToBuffer(View(q), order[2])]
            /\ pc' = [pc EXCEPT ![q] = "t_debit"]
            /\ UNCHANGED record
      BY <1>5 DEF ReadDestination
    <2>2. /\ page[q] # None /\ Fresh(q, record[q])
      BY <1>5 DEF ReadDestination, MoneyInv, MoneyLocal
    <2>3. /\ page'[q] = page[q] /\ View(q) = page[q] /\ pc'[q] = "t_debit"
          /\ peer'[q] = ToBuffer(page[q], order[2]) /\ peer'[q].id = order[2]
          /\ record'[q] = record[q]
      BY <1>1, <2>1, <2>2 DEF Use, ToBuffer, View
    <2>4. Fresh(q, record[q])' /\ Fresh(q, peer[q])'
      BY <2>1, <2>2, <2>3 DEF Fresh
    <2>5. peer'[q].id # record'[q].id
      BY <2>1, <2>3
    <2> QED
      BY <1>2, <2>2, <2>3, <2>4, <2>5
      DEF MoneyMoves, MoneyLocal, Owed, Making, Opening, Creating, Deleting
  <1> QED
    BY <1>3, <1>4, <1>5

\* The debit leaves the page short of the amount.
LEMMA DebitMoney ==
    ASSUME BankInv, MoneyInv, NEW q \in Procs, Debit(q)
    PROVE  MoneyMoves(q)
  <1> USE DEF At, Goto
  <1>1. /\ pc \in [Procs -> Statements]
        /\ page \in [Procs -> Book \cup {None}]
        /\ record \in [Procs -> Buffer \cup {None}]
        /\ peer \in [Procs -> Buffer \cup {None}]
        /\ amount \in [Procs -> Amounts \cup {0}]
    BY DEF BankInv, BankTypeOK
  <1>2. /\ accounts' = accounts /\ pc[q] = "t_debit"
        /\ page[q] \in Book /\ page[q] # None /\ View(q) = page[q]
        /\ Balanced(page[q], 0)
        /\ Fresh(q, record[q]) /\ Fresh(q, peer[q])
        /\ peer[q].id # record[q].id
        /\ record[q] \in Buffer /\ peer[q] \in Buffer
    BY <1>1
    DEF Debit, files, MoneyInv, MoneyLocal, Owed, View, BankInv, Ready,
        HasRecord, HasPeer
  <1>3. CASE StopRun(q)
    BY <1>2, <1>3, MoneyStop
  <1>4. CASE ~StopRun(q)
    <2>1. PICK a \in Amounts :
            /\ record' = [record EXCEPT ![q] = Plus(record[q], -a)]
            /\ amount' = [amount EXCEPT ![q] = a]
            /\ Change(q, Rewritten(q, Plus(record[q], -a)))
            /\ pc' = [pc EXCEPT ![q] = "t_credit"]
            /\ UNCHANGED peer
      BY <1>4 DEF Debit
    <2> DEFINE d == Plus(record[q], -a)
               i == record[q].id
               r == FromBuffer(d)
    <2>2. a \in Int /\ -a \in Int
      BY BankSizesOK
    <2>3. /\ d \in Buffer /\ d.id = i
          /\ d.balance = Stored(record[q].balance + (-a))
      BY <1>2, <2>2, PlusBuffer
    <2>4. /\ r \in Account /\ i \in Ids /\ r # None
          /\ r.balance = Stored(record[q].balance + (-a))
      <3> HIDE DEF d, i
      <3> QED
        BY <1>2, <2>3, BufferType, BankSizesOK DEF FromBuffer, i
    <2>5. page[q][i] # None /\ page[q][i].balance = record[q].balance
      BY <1>2 DEF Fresh, ToBuffer
    <2>6. record[q].balance \in Int
      BY <1>2, BankSizesOK DEF Buffer, Balances
    <2>7. page'[q] = [page[q] EXCEPT ![i] = r]
      <3> HIDE DEF d, i
      <3>1. page'[q] = Rewritten(q, d)
        BY <1>1, <2>1 DEF Change, d
      <3> QED
        BY <1>2, <2>3, <3>1 DEF Rewritten
    <2> HIDE DEF d, i, r
    <2>8. Congruent(r.balance + a, page[q][i].balance + 0)
      BY <2>2, <2>4, <2>5, <2>6, PaymentCongruent
    <2>9. page'[q] \in Book /\ Balanced(page'[q], a)
      BY <1>2, <2>2, <2>4, <2>5, <2>7, <2>8, RewriteBalanced
    <2>10. /\ pc'[q] = "t_credit" /\ amount'[q] = a /\ peer'[q] = peer[q]
           /\ record'[q].id = i
      BY <1>1, <2>1, <2>3 DEF d
    <2>11. page'[q] # None /\ Fresh(q, peer[q])'
      <3>1. peer[q].id # i /\ peer[q].id \in Ids
        BY <1>2, BufferType DEF i
      <3>2. page'[q][peer[q].id] = page[q][peer[q].id]
        BY <1>2, <2>7, <3>1 DEF Book
      <3> QED
        BY <1>2, <2>9, <2>10, <3>2, NoneOK DEF Fresh, ToBuffer
    <2>12. peer'[q].id # record'[q].id
      BY <1>2, <2>10 DEF i
    <2> QED
      BY <1>2, <2>9, <2>10, <2>11, <2>12
      DEF MoneyMoves, MoneyLocal, Owed, Making, Opening, Creating, Deleting
  <1> QED
    BY <1>3, <1>4

\* The credit makes up for it.
LEMMA CreditMoney ==
    ASSUME BankInv, MoneyInv, NEW q \in Procs, Credit(q)
    PROVE  MoneyMoves(q)
  <1> USE DEF At, Goto
  <1>1. /\ pc \in [Procs -> Statements]
        /\ page \in [Procs -> Book \cup {None}]
        /\ peer \in [Procs -> Buffer \cup {None}]
        /\ amount \in [Procs -> Amounts \cup {0}]
    BY DEF BankInv, BankTypeOK
  <1>2. /\ accounts' = accounts /\ pc[q] = "t_credit"
        /\ page[q] \in Book /\ page[q] # None /\ View(q) = page[q]
        /\ Balanced(page[q], amount[q]) /\ Fresh(q, peer[q])
        /\ peer[q] \in Buffer
        /\ amount[q] \in Int
    BY <1>1, AmountType
    DEF Credit, files, MoneyInv, MoneyLocal, Owed, View, BankInv, Ready,
        HasPeer, Paying
  <1> DEFINE d == Plus(peer[q], amount[q])
             i == peer[q].id
             r == FromBuffer(d)
  <1>3. /\ d \in Buffer /\ d.id = i
        /\ d.balance = Stored(peer[q].balance + amount[q])
    BY <1>2, PlusBuffer
  <1>4. /\ r \in Account /\ i \in Ids
        /\ r.balance = Stored(peer[q].balance + amount[q])
    <2> HIDE DEF d, i
    <2> QED
      BY <1>2, <1>3, BufferType DEF FromBuffer, i
  <1>5. page[q][i] # None /\ page[q][i].balance = peer[q].balance
    BY <1>2 DEF Fresh, ToBuffer
  <1>6. peer[q].balance \in Int
    BY <1>2, BankSizesOK DEF Buffer, Balances
  <1>7. page'[q] = [page[q] EXCEPT ![i] = r]
    <2> HIDE DEF r
    <2>1. Change(q, Rewritten(q, d))
      BY <1>2, <1>5 DEF Credit
    <2> HIDE DEF d, i
    <2>2. page'[q] = Rewritten(q, d)
      BY <1>1, <2>1 DEF Change
    <2> QED
      BY <1>2, <1>3, <2>2 DEF Rewritten, r
  <1> HIDE DEF d, i, r
  <1>8. Congruent(r.balance + 0, page[q][i].balance + amount[q])
    BY <1>2, <1>4, <1>5, <1>6, PaymentCongruent
  <1>9. Balanced(page'[q], 0)
    <2>1. 0 \in Int
      OBVIOUS
    <2> QED
      BY <1>2, <1>4, <1>5, <1>7, <1>8, <2>1, RewriteBalanced
  <1>10. pc'[q] = "j_open"
    BY <1>1 DEF Credit
  <1> QED
    BY <1>2, <1>9, <1>10
    DEF MoneyMoves, MoneyLocal, Owed, Making, Opening, Creating, Deleting

\* The steps of a transfer.
LEMMA TransferMoneySteps ==
    ASSUME \A order \in Orders : order[1] # order[2],
           BankInv, MoneyInv, NEW q \in Procs, TransferStep(q)
    PROVE  MoneyMoves(q)
  <1> USE DEF At, Goto
  <1>1. /\ pc \in [Procs -> Statements]
        /\ page \in [Procs -> Book \cup {None}]
    BY DEF BankInv, BankTypeOK
  <1>2. pc[q] \notin Making /\ accounts # None
    BY DEF MoneyInv, MoneyLocal
  <1> DEFINE Points == {"t_source", "j_open", "j_make", "t_count", "t_new",
                        "t_zero", "t_read", "t_rewrite", "t_write", "t_close"}
  <1>3. CASE \/ ReadSource(q) \/ ReadDestination(q) \/ Debit(q) \/ Credit(q)
    BY <1>3, ReadMoney, DebitMoney, CreditMoney
  <1>4. CASE \/ TransferOpen(q) \/ TransferMake(q) \/ JournalOpen(q)
             \/ JournalMake(q) \/ TransferCounter(q) \/ TransferCounterNew(q)
             \/ TransferCounterZero(q) \/ TransferRead(q)
             \/ TransferRewrite(q) \/ WriteTransaction(q)
    <2>1. /\ UNCHANGED <<accounts, page>> /\ pc[q] # "t_credit"
          /\ \E there \in Points : pc' = [pc EXCEPT ![q] = there]
      BY <1>2, <1>4
      DEF TransferOpen, TransferMake, JournalOpen, JournalMake,
          TransferCounter, TransferCounterNew, TransferCounterZero,
          TransferRead, TransferRewrite, WriteTransaction, OpenAccounts,
          CreateAccounts, OpenTransactions, CreateTransactions, OpenCounter,
          CreateCounter, ZeroCounter, ReadCounter, RewriteCounter, Making,
          files, caches
    <2>2. pc'[q] \in Points
      BY <1>1, <2>1
    <2> QED
      BY <2>1, <2>2, MoneyPlain DEF Making, Opening, Creating, Deleting
  <1>5. CASE TransferClose(q)
    <2>1. /\ pc[q] # "t_credit" /\ pc'[q] = "j_close" /\ page'[q] = None
          /\ accounts' = accounts \/ (page[q] # None /\ accounts' = page[q])
      BY <1>1, <1>5 DEF TransferClose, WriteBack, BankInv, Ready
    <2> QED
      BY <2>1, MoneyPlain DEF Making, Opening, Creating, Deleting
  <1>6. CASE JournalClose(q)
    <2>1. /\ pc[q] # "t_credit" /\ pc'[q] = "t_end"
          /\ UNCHANGED <<accounts, page>>
      BY <1>1, <1>6 DEF JournalClose
    <2> QED
      BY <2>1, MoneyPlain DEF Making, Opening, Creating, Deleting
  <1>7. CASE TransferEnd(q)
    BY <1>7, MoneyStop DEF TransferEnd, files
  <1> QED
    BY <1>3, <1>4, <1>5, <1>6, <1>7 DEF TransferStep

\* Queries, and what happens to any process.
LEMMA OtherMoney ==
    ASSUME Pressure = FALSE, BankInv, MoneyInv, NEW q \in Procs,
           QueryStep(q) \/ Start(q) \/ Crash(q) \/ CacheStep(q)
    PROVE  MoneyMoves(q)
  <1> USE DEF At, Goto
  <1>1. /\ pc \in [Procs -> Statements]
        /\ page \in [Procs -> Book \cup {None}]
    BY DEF BankInv, BankTypeOK
  <1>2. pc[q] \notin Making /\ accounts # None
    BY DEF MoneyInv, MoneyLocal
  <1>3. CASE QueryStep(q) /\ StopRun(q)
    <2>1. accounts' = accounts
      BY <1>2, <1>3
      DEF QueryStep, ListOpen, ListMake, SearchOpen, SearchMake, HistoryOpen,
          HistoryMake, ListAccounts, SearchBalance, ListHistory, Display,
          OpenAccounts, CreateAccounts, OpenTransactions, CreateTransactions,
          Making, files
    <2> QED
      BY <1>3, <2>1, MoneyStop
  <1>4. CASE QueryStep(q) /\ ~StopRun(q)
    <2> DEFINE Points == {"l_read", "s_read", "h_read", "h_make"}
    <2>1. /\ UNCHANGED <<accounts, page>> /\ pc[q] # "t_credit"
          /\ \E there \in Points : pc' = [pc EXCEPT ![q] = there]
      BY <1>2, <1>4
      DEF QueryStep, ListOpen, ListMake, SearchOpen, SearchMake, HistoryOpen,
          HistoryMake, ListAccounts, SearchBalance, ListHistory, Display,
          OpenAccounts, CreateAccounts, OpenTransactions, CreateTransactions,
          Making, files, caches
    <2>2. pc'[q] \in Points
      BY <1>1, <2>1
    <2> QED
      BY <2>1, <2>2, MoneyPlain DEF Making, Opening, Creating, Deleting
  <1>5. CASE Start(q)
    <2>1. PICK program \in Programs : Goto(q, FirstStatement[program])
      BY <1>5 DEF Start
    <2>2. /\ UNCHANGED <<accounts, page>> /\ pc[q] # "t_credit"
          /\ pc'[q] = FirstStatement[program]
      BY <1>1, <1>5, <2>1 DEF Start, files, caches
    <2>3. /\ pc'[q] \in {"c_open", "d_open", "t_open", "l_open", "s_open",
                         "h_open"}
          /\ pc'[q] = "c_open" => "creation" \in Programs
          /\ pc'[q] = "d_open" => "deletion" \in Programs
      BY <2>2, OpeningOK DEF FirstStatement
    <2> QED
      BY <2>2, <2>3, MoneyPlain DEF Making, Opening, Creating, Deleting
  <1>6. CASE Crash(q)
    BY <1>6, MoneyStop DEF Crash, files
  <1>7. ~CacheStep(q)
    BY DEF CacheStep, FlushAccounts, DropAccounts, FlushTransactions
  <1> QED
    BY <1>3, <1>4, <1>5, <1>6, <1>7

\* MoneyInv holds initially.
LEMMA MoneyInvInit ==
    ASSUME BankInit
    PROVE  MoneyInv
  <1>1. OpeningBook \in Book /\ OpeningBook # None
    BY OpeningOK, NoneOK
  <1>2. Congruent(Total(OpeningBook) + 0, Total(OpeningBook))
    <2>1. PICK t \in Int : t = Total(OpeningBook)
      BY <1>1, TotalType
    <2>2. t + 0 = t + 0 * BalanceLimit
      BY <2>1, BankSizesOK
    <2> QED
      BY <2>1, <2>2 DEF Congruent
  <1>3. Balanced(OpeningBook, 0)
    BY <1>2 DEF Balanced, Fits, Kept, Complete
  <1> QED
    BY <1>1, <1>3
    DEF BankInit, NoProcess, MoneyInv, MoneyLocal, Making, Opening, Creating,
        Deleting

\* Every step keeps it: a process never reaches into another's page.
LEMMA MoneyInvStep ==
    ASSUME Pressure = FALSE, \A order \in Orders : order[1] # order[2],
           ~({"creation", "deletion"} \subseteq Programs),
           BankInv, MoneyInv, [BankNext]_bankVars
    PROVE  MoneyInv'
  <1>1. CASE UNCHANGED bankVars
    BY <1>1 DEF bankVars, files, caches, storage, MoneyInv, MoneyLocal, Owed,
                Fresh
  <1>2. ASSUME NEW q \in Procs, Step(q)
        PROVE  MoneyInv'
    <2>1. MoneyMoves(q)
      BY <1>2, CreationMoney, DeletionMoney, TransferMoneySteps, OtherMoney
      DEF Step, ProgramStep
    <2>2. accounts' # None /\ Balanced(accounts', 0)
      BY <2>1 DEF MoneyMoves, MoneyInv, MoneyLocal, Owed
    <2>3. ASSUME NEW p \in Procs, p # q
          PROVE  MoneyLocal(p)'
      BY <1>2, <2>3, Frame
      DEF BankInv, Untouched, MoneyInv, MoneyLocal, Owed, Fresh
    <2> QED
      BY <2>1, <2>2, <2>3 DEF MoneyMoves, MoneyInv
  <1> QED
    BY <1>1, <1>2 DEF BankNext, Step

\* Transfers conserve money, whatever the number of accounts and of processes,
\* whichever of them are killed and whenever (transfer-money.cbl:90-107): the
\* accounts file holds what it held, up to the digits its fields have no room
\* for, as long as no account is missing from it.  The first hypothesis is that
\* a cache keeps its pages until CLOSE, the second that nobody transfers to
\* himself, which does create money; and an account number that could be
\* deleted and created anew would come back with nothing on it.
THEOREM MoneyIsConserved ==
    ASSUME Pressure = FALSE, \A order \in Orders : order[1] # order[2],
           ~({"creation", "deletion"} \subseteq Programs)
    PROVE  BankSpec => []MoneyConserved
  <1>1. BankInv /\ MoneyInv => MoneyConserved
    <2>1. SUFFICES ASSUME BankInv, MoneyInv, Complete(accounts)
                   PROVE  (Total(accounts) - Total(OpeningBook))
                            % BalanceLimit = 0
      BY DEF MoneyConserved
    <2>2. accounts \in Book /\ OpeningBook \in Book
      BY <2>1, OpeningOK DEF MoneyInv, BankInv, BankTypeOK
    <2>3. PICK x \in Int, y \in Int :
             x = Total(accounts) /\ y = Total(OpeningBook)
      BY <2>2, TotalType
    <2>4. Congruent(x + 0, y)
      BY <2>1, <2>3 DEF MoneyInv, Balanced, Kept
    <2>5. (x - y) % BalanceLimit = 0
      BY <2>3, <2>4, CongruentRemainder
    <2> QED
      BY <2>3, <2>5
  <1> QED
    BY <1>1, MoneyInvInit, MoneyInvStep, BankInvariant, PTL DEF BankSpec
=============================================================================
