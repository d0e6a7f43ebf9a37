---------------------------- MODULE BankProofs ------------------------------
(***************************************************************************)
(* Proofs about the legacy bank for every number of processes, accounts    *)
(* and programs: the types, and that a run only gets shorter.              *)
(***************************************************************************)
EXTENDS Bank, TLAPS

-----------------------------------------------------------------------------
(* The records.                                                            *)

\* What a balance field keeps is a balance.
LEMMA StoredType ==
    ASSUME NEW x \in Int
    PROVE  Stored(x) \in Balances
  <1>1. CASE x < 0
    <2>1. -x \in Int /\ BalanceLimit \in Nat \ {0}
      BY BankSizesOK
    <2>2. (-x) % BalanceLimit \in 0..(BalanceLimit - 1)
      BY <2>1
    <2> QED
      BY <1>1, <2>1, <2>2 DEF Stored, Balances
  <1>2. CASE ~(x < 0)
    <2>1. BalanceLimit \in Nat \ {0}
      BY BankSizesOK
    <2>2. x % BalanceLimit \in 0..(BalanceLimit - 1)
      BY <2>1
    <2> QED
      BY <1>2, <2>1, <2>2 DEF Stored, Balances
  <1> QED
    BY <1>1, <1>2

\* An amount is a number no balance field is too small for.
LEMMA AmountType == Amounts \subseteq Int /\ 0 \in Ids /\ 0 \in Balances
  BY BankSizesOK DEF Ids, Balances

\* Adding to a buffer changes only its balance.
LEMMA PlusBuffer ==
    ASSUME NEW b \in Buffer, NEW x \in Int
    PROVE  /\ Plus(b, x) \in Buffer
           /\ Plus(b, x).id = b.id /\ Plus(b, x).name = b.name
           /\ Plus(b, x).balance = Stored(b.balance + x)
  <1>1. b.balance \in Int
    BY BankSizesOK DEF Buffer, Balances
  <1>2. Stored(b.balance + x) \in Balances
    BY <1>1, StoredType
  <1> QED
    BY <1>2 DEF Plus, Buffer

\* Adding to an account changes only its balance.
LEMMA PlusAccount ==
    ASSUME NEW a \in Account, NEW x \in Int
    PROVE  /\ Plus(a, x) \in Account
           /\ Plus(a, x).name = a.name
           /\ Plus(a, x).balance = Stored(a.balance + x)
  <1>1. a.balance \in Int
    BY BankSizesOK DEF Account, Balances
  <1>2. Stored(a.balance + x) \in Balances
    BY <1>1, StoredType
  <1> QED
    BY <1>2 DEF Plus, Account

\* Moving a record to a buffer and back loses nothing.
LEMMA BufferType ==
    /\ \A b \in Buffer : FromBuffer(b) \in Account /\ b.id \in Ids
    /\ \A b \in Book : \A i \in Ids :
         b[i] # None =>
           ToBuffer(b, i) \in Buffer /\ FromBuffer(ToBuffer(b, i)) = b[i]
    /\ \A b \in Buffer : FromBuffer(b) # None /\ b # None
    /\ EmptyBook \in Book /\ EmptyLog \in Log
    /\ EmptyBook # None /\ EmptyLog # None
  <1>1. \A b \in Buffer : FromBuffer(b) \in Account /\ b.id \in Ids
    BY DEF Buffer, FromBuffer, Account
  <1>2. EmptyBook \in Book /\ EmptyLog \in Log
    BY DEF EmptyBook, EmptyLog, Book, Log
  <1>3. ASSUME NEW b \in Book, NEW i \in Ids, b[i] # None
        PROVE  ToBuffer(b, i) \in Buffer /\ FromBuffer(ToBuffer(b, i)) = b[i]
    <2>1. b[i] \in Account
      BY <1>3 DEF Book
    <2> QED
      BY <2>1 DEF ToBuffer, FromBuffer, Buffer, Account
  <1> QED
    BY <1>1, <1>2, <1>3, NoneOK

\* The next ID is an ID.
LEMMA NextIdType ==
    ASSUME NEW n \in Ids
    PROVE  NextId(n) \in Ids
  BY BankSizesOK DEF NextId, Ids

-----------------------------------------------------------------------------
(* The invariant behind the types: what a process at a statement can rely  *)
(* on.                                                                     *)

UsesAccounts ==
    { "c_count", "c_new", "c_zero", "c_read", "c_rewrite", "c_name",
      "c_write", "d_read", "d_delete",
      "t_source", "t_destination", "t_debit", "t_credit" }

UsesJournal ==
    { "t_count", "t_new", "t_zero", "t_read", "t_rewrite", "t_write" }

Paying ==
    { "t_credit", "j_open", "j_make", "t_count", "t_new", "t_zero",
      "t_read", "t_rewrite", "t_write", "t_close", "j_close" }

HasPeer == { "t_debit" } \cup Paying

HasRecord == { "c_write", "c_close", "t_destination" } \cup HasPeer

Ready(p) ==
    /\ pc[p] \in UsesAccounts => accounts # None
    /\ pc[p] \in UsesJournal => journal # None
    /\ pc[p] \in HasRecord => record[p] # None
    /\ pc[p] \in HasPeer => peer[p] # None
    /\ pc[p] \in Paying => amount[p] \in Amounts
    /\ p \in dirty => page[p] # None

BankInv ==
    /\ BankTypeOK
    /\ \A p \in Procs : Ready(p)
    /\ \A c \in Counters : holder[c] # None => counter[c] # None

\* The accounts a process reads are a book once ACCOUNTS.DAT is open.
LEMMA ViewType ==
    ASSUME BankInv, NEW p \in Procs, pc[p] \in UsesAccounts
    PROVE  View(p) \in Book
  BY DEF BankInv, BankTypeOK, Ready, View

\* Opening and creating an indexed file keeps every type.
LEMMA OpenTypes ==
    ASSUME BankTypeOK, NEW p \in Procs, NEW here,
           NEW missing \in Statements, NEW found \in Statements,
           \/ OpenAccounts(p, here, missing, found)
           \/ CreateAccounts(p, here, found)
           \/ OpenTransactions(p, here, missing, found)
           \/ CreateTransactions(p, here, found)
    PROVE  BankTypeOK'
  BY BufferType DEF BankTypeOK, OpenAccounts, CreateAccounts, Goto,
     OpenTransactions, CreateTransactions, files, locks, caches, storage

\* The statements on a counter file keep every type.
LEMMA CounterTypes ==
    ASSUME BankInv, NEW p \in Procs, NEW c \in Counters, NEW here,
           NEW found \in Statements, NEW missing \in Statements,
           \/ OpenCounter(p, c, here, missing, found)
           \/ CreateCounter(p, c, here, found)
           \/ ZeroCounter(p, c, here, found)
           \/ ReadCounter(p, c, here, found, missing)
           \/ RewriteCounter(p, c, here, found)
    PROVE  /\ BankTypeOK'
           /\ \A d \in Counters : holder'[d] # None => counter'[d] # None
  <1> USE DEF BankInv, BankTypeOK, Goto, Lock, files, locks, caches, storage
  <1>0. Empty # None /\ Empty \notin Ids /\ 0 \in Ids /\ None \notin Ids
    BY BankProcsOK, AmountType, NoneOK
  <1>1. CASE OpenCounter(p, c, here, missing, found)
    BY <1>1, <1>0 DEF OpenCounter
  <1>2. CASE CreateCounter(p, c, here, found)
    BY <1>2, <1>0 DEF CreateCounter
  <1>3. CASE ZeroCounter(p, c, here, found)
    BY <1>3, <1>0 DEF ZeroCounter
  <1>4. CASE ReadCounter(p, c, here, found, missing)
    <2>1. number'[p] \in Ids
      <3>1. holder[c] = p /\ counter[c] # Empty => counter[c] \in Ids
        BY BankProcsOK
      <3> QED
        BY <1>4, <1>0, <3>1, NextIdType DEF ReadCounter
    <2> QED
      BY <1>4, <2>1 DEF ReadCounter
  <1>5. CASE RewriteCounter(p, c, here, found)
    BY <1>5, <1>0 DEF RewriteCounter
  <1> QED
    BY <1>1, <1>2, <1>3, <1>4, <1>5

\* STOP RUN keeps the types of what is the process's own.
LEMMA StopTypes ==
    ASSUME BankTypeOK, NEW p \in Procs, StopRun(p)
    PROVE  /\ pc' \in [Procs -> Statements]
           /\ page' \in [Procs -> Book \cup {None}]
           /\ dirty' \in SUBSET Procs
           /\ logPage' \in [Procs -> Log \cup {None}]
           /\ number' \in [Procs -> Ids]
           /\ record' \in [Procs -> Buffer \cup {None}]
           /\ peer' \in [Procs -> Buffer \cup {None}]
           /\ amount' \in [Procs -> Amounts \cup {0}]
  BY AmountType DEF BankTypeOK, StopRun, Goto, Statements

\* A step of p that leaves what is another process's alone, and deletes no
\* file, leaves the other process what it relies on.
LEMMA OthersReady ==
    ASSUME BankInv, NEW p \in Procs, NEW q \in Procs, q # p,
           pc'[q] = pc[q], record'[q] = record[q], peer'[q] = peer[q],
           amount'[q] = amount[q], page'[q] = page[q],
           q \in dirty' => q \in dirty,
           accounts # None => accounts' # None,
           journal # None => journal' # None
    PROVE  Ready(q)'
  BY DEF BankInv, Ready

\* Opening or creating ACCOUNTS.DAT keeps the invariant.
LEMMA OpenAccountsKeeps ==
    ASSUME BankInv, NEW p \in Procs, NEW here,
           NEW missing \in Statements \ (UsesAccounts \cup UsesJournal \cup HasRecord),
           NEW found \in Statements \ (UsesJournal \cup HasRecord),
           \/ OpenAccounts(p, here, missing, found)
           \/ CreateAccounts(p, here, found)
    PROVE  BankInv'
  <1>1. BankTypeOK'
    BY OpenTypes DEF BankInv
  <1>2. Ready(p)'
    BY BufferType DEF BankInv, BankTypeOK, Ready, OpenAccounts, Goto, HasRecord,
       HasPeer, CreateAccounts, files, locks, caches, storage
  <1>3. ASSUME NEW q \in Procs, q # p
        PROVE  Ready(q)'
    BY <1>3, OthersReady, BufferType DEF BankInv, BankTypeOK, OpenAccounts,
       CreateAccounts, Goto, files, locks, caches, storage
  <1> QED
    BY <1>1, <1>2, <1>3 DEF BankInv, OpenAccounts, CreateAccounts, locks

\* The same for TRANSACTIONS.DAT, which a transfer opens with its buffers
\* filled.
LEMMA OpenTransactionsKeeps ==
    ASSUME BankInv, NEW p \in Procs, NEW here,
           NEW missing \in Statements \ (UsesAccounts \cup UsesJournal),
           NEW found \in Statements \ UsesAccounts,
           missing \in HasRecord \/ found \in HasRecord => here \in Paying,
           \/ OpenTransactions(p, here, missing, found)
           \/ CreateTransactions(p, here, found)
    PROVE  BankInv'
  <1>1. BankTypeOK'
    BY OpenTypes DEF BankInv
  <1>2. Ready(p)'
    BY BufferType DEF BankInv, BankTypeOK, Ready, OpenTransactions, Goto, At,
       HasRecord, HasPeer, CreateTransactions, files, locks, caches, storage
  <1>3. ASSUME NEW q \in Procs, q # p
        PROVE  Ready(q)'
    BY <1>3, OthersReady, BufferType DEF BankInv, BankTypeOK, OpenTransactions,
       CreateTransactions, Goto, files, locks, caches, storage
  <1> QED
    BY <1>1, <1>2, <1>3 DEF BankInv, OpenTransactions, CreateTransactions, locks

\* The statements on a counter keep the invariant when what they lead to
\* relies on no more than they do.
LEMMA CounterKeeps ==
    ASSUME BankInv, NEW p \in Procs, NEW c \in Counters, NEW here,
           NEW there \in Statements, NEW other \in Statements,
           here \notin UsesAccounts =>
             there \notin UsesAccounts /\ other \notin UsesAccounts,
           here \notin UsesJournal =>
             there \notin UsesJournal /\ other \notin UsesJournal,
           here \notin Paying =>
             there \notin HasRecord /\ other \notin HasRecord,
           \/ OpenCounter(p, c, here, other, there)
           \/ CreateCounter(p, c, here, there)
           \/ ZeroCounter(p, c, here, there)
           \/ ReadCounter(p, c, here, there, other)
           \/ RewriteCounter(p, c, here, there)
    PROVE  BankInv'
  <1>1. /\ BankTypeOK'
        /\ \A d \in Counters : holder'[d] # None => counter'[d] # None
    BY CounterTypes
  <1>2. /\ UNCHANGED <<files, caches, record, peer, amount>>
        /\ At(p, here) /\ (Goto(p, there) \/ Goto(p, other))
    BY DEF OpenCounter, CreateCounter, ZeroCounter, ReadCounter,
       RewriteCounter, storage
  <1>3. Ready(p)'
    BY <1>2 DEF BankInv, BankTypeOK, Ready, Goto, At, HasRecord, HasPeer,
       files, caches
  <1>4. ASSUME NEW q \in Procs, q # p
        PROVE  Ready(q)'
    BY <1>2, <1>4, OthersReady DEF BankInv, BankTypeOK, Goto, files, caches
  <1> QED
    BY <1>1, <1>3, <1>4 DEF BankInv

\* STOP RUN keeps the invariant, whether ACCOUNTS.DAT is written back with
\* it or locks are released.
LEMMA StopKeeps ==
    ASSUME BankInv, NEW p \in Procs, StopRun(p),
           accounts' = accounts \/ (p \in dirty /\ accounts' = page[p]),
           holder' = holder \/ holder' = Unlocked(p),
           UNCHANGED <<journal, counter>>
    PROVE  BankInv'
  <1>1. BankTypeOK'
    BY StopTypes DEF BankInv, BankTypeOK, Ready, Unlocked
  <1>2. Ready(p)'
    BY DEF BankInv, BankTypeOK, Ready, StopRun, Goto, UsesAccounts,
       UsesJournal, HasRecord, HasPeer, Paying
  <1>3. ASSUME NEW q \in Procs, q # p
        PROVE  Ready(q)'
    BY <1>3, OthersReady DEF BankInv, BankTypeOK, Ready, StopRun, Goto
  <1>4. \A c \in Counters : holder'[c] # None => counter'[c] # None
    BY DEF BankInv, Unlocked
  <1> QED
    BY <1>1, <1>2, <1>3, <1>4 DEF BankInv

-----------------------------------------------------------------------------
(* The programs.                                                           *)
(* The types of a page, of a buffer and of an amount carry over to the new *)
(* ones.                                                                   *)

\* What a program reads, writes and deletes in a book leaves a book.
LEMMA BookTypes ==
    ASSUME NEW b \in Book
    PROVE  /\ \A r \in Buffer : [b EXCEPT ![r.id] = FromBuffer(r)] \in Book
           /\ \A i \in Ids : [b EXCEPT ![i] = None] \in Book
           /\ \A i \in Ids : b[i] # None => ToBuffer(b, i) \in Buffer
  BY BufferType DEF Book

\* A statement of p on its own pages and buffers keeps the invariant when it
\* leaves p with what it relies on.
LEMMA OwnKeeps ==
    ASSUME BankInv, NEW p \in Procs, UNCHANGED <<files, locks>>,
           NEW there \in Statements, Goto(p, there),
           \/ Use(p) /\ View(p) \in Book
           \/ \E b \in Book : Change(p, b)
           \/ UNCHANGED <<page, dirty>>,
           logPage' = logPage \/ \E g \in Log : logPage' = [logPage EXCEPT ![p] = g],
           number' = number \/ \E i \in Ids : number' = [number EXCEPT ![p] = i],
           record' = record \/ \E r \in Buffer : record' = [record EXCEPT ![p] = r],
           peer' = peer \/ \E r \in Buffer : peer' = [peer EXCEPT ![p] = r],
           amount' = amount
             \/ \E a \in Amounts \cup {0} : amount' = [amount EXCEPT ![p] = a],
           there \in UsesAccounts => accounts # None,
           there \in UsesJournal => journal # None,
           there \in HasRecord => record'[p] # None,
           there \in HasPeer => peer'[p] # None,
           there \in Paying => amount'[p] \in Amounts
    PROVE  BankInv'
  <1> USE DEF BankInv, BankTypeOK, files, locks, Goto
  <1>1. page' \in [Procs -> Book \cup {None}] /\ dirty' \in SUBSET Procs
    BY DEF Use, Change
  <1>2. BankTypeOK'
    <2>1. number' \in [Procs -> Ids] /\ record' \in [Procs -> Buffer \cup {None}]
      OBVIOUS
    <2>2. /\ peer' \in [Procs -> Buffer \cup {None}]
          /\ amount' \in [Procs -> Amounts \cup {0}]
      OBVIOUS
    <2>3. logPage' \in [Procs -> Log \cup {None}]
      OBVIOUS
    <2> QED
      BY <1>1, <2>1, <2>2, <2>3
  <1>3. Ready(p)'
    <2>1. p \in dirty' => page'[p] # None
      BY NoneOK DEF Ready, Use, Change
    <2> QED
      BY <2>1 DEF Ready
  <1>4. ASSUME NEW q \in Procs, q # p
        PROVE  Ready(q)'
    <2>1. page'[q] = page[q] /\ (q \in dirty' => q \in dirty)
      BY <1>4 DEF Use, Change
    <2>2. /\ record'[q] = record[q] /\ peer'[q] = peer[q]
          /\ pc'[q] = pc[q] /\ amount'[q] = amount[q]
      BY <1>4
    <2> QED
      BY <1>4, <2>1, <2>2, OthersReady
  <1> QED
    BY <1>2, <1>3, <1>4

\* CLOSE of ACCOUNTS.DAT, before STOP RUN, keeps the invariant.
LEMMA CloseKeeps ==
    ASSUME BankInv, NEW p \in Procs, WriteBack(p),
           page' = [page EXCEPT ![p] = None],
           NEW there \in Statements \ (UsesAccounts \cup UsesJournal),
           there \in HasRecord => pc[p] \in Paying,
           Goto(p, there), UNCHANGED <<journal, locks, logPage, storage>>
    PROVE  BankInv'
  <1> USE DEF BankInv, BankTypeOK, locks, storage, Goto, WriteBack
  <1>1. accounts' \in Book \cup {None} /\ (accounts # None => accounts' # None)
    BY DEF Ready
  <1>2. BankTypeOK'
    BY <1>1
  <1>3. Ready(p)'
    BY DEF Ready, HasRecord, HasPeer
  <1>4. ASSUME NEW q \in Procs, q # p
        PROVE  Ready(q)'
    BY <1>1, <1>4, OthersReady
  <1> QED
    BY <1>2, <1>3, <1>4
\* The steps of a creation keep the invariant.
LEMMA CreationKeeps ==
    ASSUME BankInv, NEW p \in Procs, CreationStep(p)
    PROVE  BankInv'
  <1> USE DEF Statements, UsesAccounts, UsesJournal, HasRecord, HasPeer,
              Paying, Counters
  <1>1. CASE CreationOpen(p) \/ CreationMake(p)
    BY <1>1, OpenAccountsKeeps DEF CreationOpen, CreationMake
  <1>2. CASE \/ CreationCounter(p) \/ CreationCounterNew(p)
             \/ CreationCounterZero(p) \/ CreationRead(p)
             \/ CreationRewrite(p)
    <2>1. /\ "accounts" \in Counters
          /\ \A x \in {"c_count", "c_new", "c_zero", "c_read", "c_rewrite",
                      "c_name"} :
               /\ x \in Statements /\ x \in UsesAccounts
               /\ x \notin UsesJournal /\ x \notin HasRecord
      OBVIOUS
    <2> HIDE DEF Statements, UsesAccounts, UsesJournal, HasRecord, HasPeer,
                 Paying, Counters
    <2>2. CASE CreationCounter(p)
      BY <2>1, <2>2, CounterKeeps DEF CreationCounter
    <2>3. CASE CreationCounterNew(p)
      BY <2>1, <2>3, CounterKeeps DEF CreationCounterNew
    <2>4. CASE CreationCounterZero(p)
      BY <2>1, <2>4, CounterKeeps DEF CreationCounterZero
    <2>5. CASE CreationRead(p)
      BY <2>1, <2>5, CounterKeeps DEF CreationRead
    <2>6. CASE CreationRewrite(p)
      BY <2>1, <2>6, CounterKeeps DEF CreationRewrite
    <2> QED
      BY <1>2, <2>2, <2>3, <2>4, <2>5, <2>6
  <1>3. CASE TypeName(p)
    <2>1. PICK name \in Names :
            record' = [record EXCEPT
              ![p] = [id |-> number[p], name |-> name, balance |-> 0]]
      BY <1>3 DEF TypeName
    <2> DEFINE r == [id |-> number[p], name |-> name, balance |-> 0]
    <2>2. r \in Buffer /\ r # None
      BY AmountType, BufferType DEF Buffer, BankInv, BankTypeOK
    <2>3. record'[p] = r /\ record' = [record EXCEPT ![p] = r]
      BY <2>1 DEF BankInv, BankTypeOK
    <2>4. accounts # None
      BY <1>3 DEF BankInv, Ready, TypeName, At
    <2> QED
      BY <1>3, <2>2, <2>3, <2>4, OwnKeeps DEF TypeName, caches
  <1>4. CASE WriteAccount(p)
    <2>1. record[p] \in Buffer /\ View(p) \in Book
      BY <1>4, ViewType DEF WriteAccount, At, BankInv, BankTypeOK, Ready
    <2>2. [View(p) EXCEPT ![record[p].id] = FromBuffer(record[p])] \in Book
      BY <2>1, BookTypes
    <2>3. record[p] # None
      BY <2>1, BufferType
    <2>4. Use(p) \/ \E b \in Book : Change(p, b)
      BY <1>4, <2>2 DEF WriteAccount
    <2> QED
      BY <1>4, <2>1, <2>3, <2>4, OwnKeeps DEF WriteAccount, storage
  <1>5. CASE CreationClose(p)
    BY <1>5, CloseKeeps DEF CreationClose, At
  <1>6. CASE CreationEnd(p)
    BY <1>6, StopKeeps DEF CreationEnd, files
  <1> QED
    BY <1>1, <1>2, <1>3, <1>4, <1>5, <1>6 DEF CreationStep

\* The steps of a deletion keep the invariant.
LEMMA DeletionKeeps ==
    ASSUME BankInv, NEW p \in Procs, DeletionStep(p)
    PROVE  BankInv'
  <1> USE DEF Statements, UsesAccounts, UsesJournal, HasRecord, HasPeer, Paying
  <1>1. CASE DeletionOpen(p) \/ DeletionMake(p)
    BY <1>1, OpenAccountsKeeps DEF DeletionOpen, DeletionMake
  <1>2. CASE FindAccount(p)
    <2>1. View(p) \in Book /\ accounts # None
      BY <1>2, ViewType DEF FindAccount, At, BankInv, Ready
    <2>2. PICK i \in Ids :
            \/ /\ Use(p)
               /\ number' = [number EXCEPT ![p] = i]
               /\ Goto(p, "d_delete")
               /\ UNCHANGED <<logPage, record, peer, amount>>
            \/ StopRun(p)
      BY <1>2 DEF FindAccount
    <2>3. UNCHANGED <<files, locks>>
      BY <1>2 DEF FindAccount
    <2>4. CASE StopRun(p)
      BY <2>3, <2>4, StopKeeps DEF files, locks
    <2>5. CASE ~StopRun(p)
      BY <2>1, <2>2, <2>3, <2>5, OwnKeeps
    <2> QED
      BY <2>4, <2>5
  <1>3. CASE DeleteAccount(p)
    <2>1. View(p) \in Book
      BY <1>3, ViewType DEF DeleteAccount, At
    <2>2. [View(p) EXCEPT ![number[p]] = None] \in Book
      BY <2>1, BookTypes DEF BankInv, BankTypeOK
    <2>3. Use(p) \/ \E b \in Book : Change(p, b)
      BY <1>3, <2>2 DEF DeleteAccount
    <2> QED
      BY <1>3, <2>1, <2>3, OwnKeeps DEF DeleteAccount, storage
  <1>4. CASE DeletionClose(p)
    BY <1>4, StopKeeps DEF DeletionClose, locks
  <1> QED
    BY <1>1, <1>2, <1>3, <1>4 DEF DeletionStep

\* The steps of a transfer keep the invariant.
LEMMA TransferKeeps ==
    ASSUME BankInv, NEW p \in Procs, TransferStep(p)
    PROVE  BankInv'
  <1> USE DEF Statements, UsesAccounts, UsesJournal, HasRecord, HasPeer,
              Paying, Counters
  <1>1. CASE TransferOpen(p) \/ TransferMake(p)
    BY <1>1, OpenAccountsKeeps DEF TransferOpen, TransferMake
  <1>2. CASE ReadSource(p)
    <2>1. View(p) \in Book /\ accounts # None
      BY <1>2, ViewType DEF ReadSource, At, BankInv, Ready
    <2>2. UNCHANGED <<files, locks>>
      BY <1>2 DEF ReadSource
    <2>3. PICK order \in Orders :
            \/ /\ View(p)[order[1]] # None
               /\ Use(p)
               /\ record' = [record EXCEPT ![p] = ToBuffer(View(p), order[1])]
               /\ Goto(p, "t_destination")
               /\ UNCHANGED <<logPage, number, peer, amount>>
            \/ StopRun(p)
      BY <1>2 DEF ReadSource
    <2>4. CASE StopRun(p)
      BY <2>2, <2>4, StopKeeps DEF files, locks
    <2>5. CASE ~StopRun(p)
      <3> DEFINE r == ToBuffer(View(p), order[1])
      <3>1. r \in Buffer /\ r # None
        BY <2>1, <2>3, <2>5, BookTypes, BufferType, BankProcsOK
      <3>2. record' = [record EXCEPT ![p] = r] /\ record'[p] = r
        BY <2>3, <2>5 DEF BankInv, BankTypeOK
      <3> HIDE DEF r
      <3> QED
        BY <2>1, <2>2, <2>3, <2>5, <3>1, <3>2, OwnKeeps
    <2> QED
      BY <2>4, <2>5
  <1>3. CASE ReadDestination(p)
    <2>1. View(p) \in Book /\ accounts # None /\ record[p] # None
      BY <1>3, ViewType DEF ReadDestination, At, BankInv, Ready
    <2>2. UNCHANGED <<files, locks>>
      BY <1>3 DEF ReadDestination
    <2>3. PICK order \in Orders :
            \/ /\ View(p)[order[2]] # None
               /\ Use(p)
               /\ peer' = [peer EXCEPT ![p] = ToBuffer(View(p), order[2])]
               /\ Goto(p, "t_debit")
               /\ UNCHANGED <<logPage, number, record, amount>>
            \/ StopRun(p)
      BY <1>3 DEF ReadDestination
    <2>4. CASE StopRun(p)
      BY <2>2, <2>4, StopKeeps DEF files, locks
    <2>5. CASE ~StopRun(p)
      <3> DEFINE r == ToBuffer(View(p), order[2])
      <3>1. r \in Buffer /\ r # None
        BY <2>1, <2>3, <2>5, BookTypes, BufferType, BankProcsOK
      <3>2. peer' = [peer EXCEPT ![p] = r] /\ peer'[p] = r
        BY <2>3, <2>5 DEF BankInv, BankTypeOK
      <3> HIDE DEF r
      <3> QED
        BY <2>1, <2>2, <2>3, <2>5, <3>1, <3>2, OwnKeeps
    <2> QED
      BY <2>4, <2>5
  <1>4. CASE Debit(p)
    <2>1. View(p) \in Book /\ accounts # None
      BY <1>4, ViewType DEF Debit, At, BankInv, Ready
    <2>2. UNCHANGED <<files, locks>>
      BY <1>4 DEF Debit
    <2>3. record[p] \in Buffer /\ peer[p] \in Buffer
      BY <1>4 DEF Debit, At, BankInv, BankTypeOK, Ready
    <2>4. PICK a \in Amounts :
            \/ /\ record' = [record EXCEPT ![p] = Plus(record[p], -a)]
               /\ amount' = [amount EXCEPT ![p] = a]
               /\ Change(p, Rewritten(p, Plus(record[p], -a)))
               /\ Goto(p, "t_credit")
               /\ UNCHANGED <<logPage, number, peer>>
            \/ StopRun(p)
      BY <1>4 DEF Debit
    <2>5. CASE StopRun(p)
      BY <2>2, <2>5, StopKeeps DEF files, locks
    <2>6. CASE ~StopRun(p)
      <3> DEFINE r == Plus(record[p], -a)
      <3>1. -a \in Int
        BY BankSizesOK
      <3>2. r \in Buffer /\ r # None /\ peer[p] # None
        BY <2>3, <3>1, PlusBuffer, BufferType
      <3>3. record' = [record EXCEPT ![p] = r] /\ record'[p] = r
        BY <2>4, <2>6 DEF BankInv, BankTypeOK
      <3>4. \E b \in Book : Change(p, b)
        BY <2>1, <2>4, <2>6, <3>2, BookTypes DEF Rewritten
      <3>5. amount' = [amount EXCEPT ![p] = a] /\ amount'[p] \in Amounts
        BY <2>4, <2>6 DEF BankInv, BankTypeOK
      <3> HIDE DEF r
      <3> QED
        BY <2>1, <2>2, <2>4, <2>6, <3>2, <3>3, <3>4, <3>5, OwnKeeps
    <2> QED
      BY <2>5, <2>6
  <1>5. CASE Credit(p)
    <2>1. View(p) \in Book
      BY <1>5, ViewType DEF Credit, At
    <2>2. record[p] \in Buffer /\ peer[p] \in Buffer
      BY <1>5 DEF Credit, At, BankInv, BankTypeOK, Ready
    <2>3. amount[p] \in Amounts /\ amount[p] \in Int
      BY <1>5, AmountType DEF Credit, At, BankInv, Ready
    <2> DEFINE r == Plus(peer[p], amount[p])
    <2>4. r \in Buffer /\ r # None /\ record[p] # None
      BY <2>2, <2>3, PlusBuffer, BufferType
    <2>5. peer' = [peer EXCEPT ![p] = r] /\ peer'[p] = r
      BY <1>5 DEF Credit, BankInv, BankTypeOK
    <2>6. Use(p) \/ \E b \in Book : Change(p, b)
      BY <1>5, <2>1, <2>4, BookTypes DEF Credit, Rewritten
    <2> HIDE DEF r
    <2> QED
      BY <1>5, <2>1, <2>3, <2>4, <2>5, <2>6, OwnKeeps DEF Credit
  <1>6. CASE JournalOpen(p) \/ JournalMake(p)
    BY <1>6, OpenTransactionsKeeps DEF JournalOpen, JournalMake
  <1>7. CASE \/ TransferCounter(p) \/ TransferCounterNew(p)
             \/ TransferCounterZero(p) \/ TransferRead(p)
             \/ TransferRewrite(p)
    <2>1. /\ "transactions" \in Counters
          /\ \A x \in {"t_count", "t_new", "t_zero", "t_read", "t_rewrite",
                      "t_write"} :
               /\ x \in Statements /\ x \in UsesJournal
               /\ x \notin UsesAccounts /\ x \in Paying
      OBVIOUS
    <2> HIDE DEF Statements, UsesAccounts, UsesJournal, HasRecord, HasPeer,
                 Paying, Counters
    <2>2. CASE TransferCounter(p)
      BY <2>1, <2>2, CounterKeeps DEF TransferCounter
    <2>3. CASE TransferCounterNew(p)
      BY <2>1, <2>3, CounterKeeps DEF TransferCounterNew
    <2>4. CASE TransferCounterZero(p)
      BY <2>1, <2>4, CounterKeeps DEF TransferCounterZero
    <2>5. CASE TransferRead(p)
      BY <2>1, <2>5, CounterKeeps DEF TransferRead
    <2>6. CASE TransferRewrite(p)
      BY <2>1, <2>6, CounterKeeps DEF TransferRewrite
    <2> QED
      BY <1>7, <2>2, <2>3, <2>4, <2>5, <2>6
  <1>8. CASE WriteTransaction(p)
    <2>1. /\ record[p] \in Buffer /\ peer[p] \in Buffer
          /\ record[p] # None /\ peer[p] # None /\ journal \in Log
      BY <1>8 DEF WriteTransaction, At, BankInv, BankTypeOK, Ready
    <2>2. amount[p] \in Amounts /\ number[p] \in Ids
      BY <1>8 DEF WriteTransaction, At, BankInv, BankTypeOK, Ready
    <2>3. Transaction(p) \in Entry
      BY <2>1, <2>2, BufferType DEF Transaction, Entry
    <2>4. [journal EXCEPT ![number[p]] = Transaction(p)] \in Log
      BY <2>1, <2>2, <2>3 DEF Log
    <2>5. logPage' = logPage \/ \E g \in Log : logPage' = [logPage EXCEPT ![p] = g]
      BY <1>8, <2>4 DEF WriteTransaction
    <2>6. UNCHANGED <<number, record, peer, amount, files, locks, page, dirty>>
      BY <1>8 DEF WriteTransaction, storage
    <2> QED
      BY <1>8, <2>1, <2>2, <2>5, <2>6, OwnKeeps DEF WriteTransaction
  <1>9. CASE TransferClose(p)
    BY <1>9, CloseKeeps DEF TransferClose, At
  <1>10. CASE JournalClose(p)
    <2>1. journal' \in Log \cup {None} /\ (journal # None => journal' # None)
      BY <1>10 DEF JournalClose, BankInv, BankTypeOK
    <2>2. BankTypeOK'
      BY <1>10, <2>1
      DEF JournalClose, BankInv, BankTypeOK, locks, storage, Goto
    <2>3. Ready(p)'
      BY <1>10 DEF JournalClose, BankInv, BankTypeOK, Ready, Goto
    <2>4. ASSUME NEW q \in Procs, q # p
          PROVE  Ready(q)'
      BY <1>10, <2>1, <2>4, OthersReady
      DEF JournalClose, BankInv, BankTypeOK, storage, Goto
    <2> QED
      BY <1>10, <2>2, <2>3, <2>4 DEF JournalClose, BankInv, locks
  <1>11. CASE TransferEnd(p)
    BY <1>11, StopKeeps DEF TransferEnd, files
  <1> QED
    BY <1>1, <1>2, <1>3, <1>4, <1>5, <1>6, <1>7, <1>8, <1>9, <1>10, <1>11
    DEF TransferStep

\* The steps of a query keep the invariant.
LEMMA QueryKeeps ==
    ASSUME BankInv, NEW p \in Procs, QueryStep(p)
    PROVE  BankInv'
  <1> USE DEF Statements, UsesAccounts, UsesJournal, HasRecord, HasPeer, Paying
  <1>1. CASE \/ ListOpen(p) \/ ListMake(p)
             \/ SearchOpen(p) \/ SearchMake(p)
    BY <1>1, OpenAccountsKeeps DEF ListOpen, ListMake, SearchOpen, SearchMake
  <1>2. CASE HistoryOpen(p) \/ HistoryMake(p)
    <2>1. /\ "h_make" \in Statements \ (UsesAccounts \cup UsesJournal)
          /\ "h_read" \in Statements \ UsesAccounts
          /\ "h_make" \notin HasRecord /\ "h_read" \notin HasRecord
      OBVIOUS
    <2> HIDE DEF Statements, UsesAccounts, UsesJournal, HasRecord, HasPeer,
                 Paying
    <2> QED
      BY <1>2, <2>1, OpenTransactionsKeeps DEF HistoryOpen, HistoryMake
  <1>3. CASE ListAccounts(p) \/ SearchBalance(p) \/ ListHistory(p)
    BY <1>3, StopKeeps
    DEF ListAccounts, SearchBalance, ListHistory, Display, files, locks
  <1> QED
    BY <1>1, <1>2, <1>3 DEF QueryStep

\* A program that starts finds nothing to rely on yet.
LEMMA StartKeeps ==
    ASSUME BankInv, NEW p \in Procs, Start(p)
    PROVE  BankInv'
  <1>1. PICK program \in Programs : Goto(p, FirstStatement[program])
    BY DEF Start
  <1>2. program \in {"creation", "deletion", "transfer", "list", "search",
                     "history"}
    BY OpeningOK
  <1>3. FirstStatement[program] \in {"c_open", "d_open", "t_open", "l_open",
                                     "s_open", "h_open"}
    BY <1>2 DEF FirstStatement
  <1> QED
    BY <1>1, <1>3
    DEF Start, BankInv, BankTypeOK, Ready, Goto, files, locks, caches, storage,
        Statements, UsesAccounts, UsesJournal, HasRecord, HasPeer, Paying

\* A page that is written early or dropped keeps the invariant.
LEMMA CacheKeeps ==
    ASSUME BankInv, NEW p \in Procs, CacheStep(p)
    PROVE  BankInv'
  <1>1. CASE FlushAccounts(p)
    BY <1>1
    DEF FlushAccounts, WriteBack, BankInv, BankTypeOK, Ready, locks, storage
  <1>2. CASE DropAccounts(p)
    BY <1>2 DEF DropAccounts, BankInv, BankTypeOK, Ready, files, locks, storage
  <1>3. CASE FlushTransactions(p)
    BY <1>3
    DEF FlushTransactions, BankInv, BankTypeOK, Ready, locks, storage
  <1> QED
    BY <1>1, <1>2, <1>3 DEF CacheStep

\* A process that is killed takes nothing along that others rely on.
LEMMA CrashKeeps ==
    ASSUME BankInv, NEW p \in Procs, Crash(p)
    PROVE  BankInv'
  BY StopKeeps DEF Crash, files

-----------------------------------------------------------------------------
(* The invariant.                                                          *)

\* It holds of a bank without files and of one that has been in use.
LEMMA BankInvInit ==
    ASSUME FreshBankInit \/ BankInit
    PROVE  BankInv
  BY AmountType, OpeningOK, NoneOK, BankProcsOK
  DEF FreshBankInit, BankInit, NoProcess, BankInv, BankTypeOK, Ready,
      Statements, UsesAccounts, UsesJournal, HasRecord, HasPeer, Paying, Counters

\* Every step keeps it.
LEMMA BankInvStep ==
    ASSUME BankInv, [BankNext]_bankVars
    PROVE  BankInv'
  <1>1. CASE UNCHANGED bankVars
    BY <1>1 DEF bankVars, files, locks, caches, storage, BankInv, BankTypeOK,
                Ready, View
  <1>2. ASSUME NEW p \in Procs,
               Start(p) \/ ProgramStep(p) \/ CacheStep(p) \/ Crash(p)
        PROVE  BankInv'
    BY <1>2, StartKeeps, CreationKeeps, DeletionKeeps, TransferKeeps,
       QueryKeeps, CacheKeeps, CrashKeeps
    DEF ProgramStep
  <1> QED
    BY <1>1, <1>2 DEF BankNext

\* From a bank without files, one in use, or either.
THEOREM BankInvariant ==
    FreshBankSpec \/ BankSpec \/ EitherBankSpec => []BankInv
  <1>1. FreshBankSpec => []BankInv
    BY BankInvInit, BankInvStep, PTL DEF FreshBankSpec
  <1>2. BankSpec => []BankInv
    BY BankInvInit, BankInvStep, PTL DEF BankSpec
  <1>3. EitherBankSpec => []BankInv
    BY BankInvInit, BankInvStep, PTL DEF EitherBankSpec
  <1> QED
    BY <1>1, <1>2, <1>3, PTL

\* Whatever runs at the same time, is killed, or is written by the caches,
\* files, pages and buffers hold whole records, and balances fit their field.
THEOREM BankTypeCorrect ==
    FreshBankSpec \/ BankSpec \/ EitherBankSpec => []BankTypeOK
  <1>1. BankInv => BankTypeOK
    BY DEF BankInv
  <1> QED
    BY <1>1, BankInvariant, PTL

-----------------------------------------------------------------------------
(* A process leaves alone what is another's.                               *)

Step(q) == Start(q) \/ ProgramStep(q) \/ CacheStep(q) \/ Crash(q)

Untouched(p) ==
    /\ pc'[p] = pc[p] /\ page'[p] = page[p] /\ logPage'[p] = logPage[p]
    /\ p \in dirty' <=> p \in dirty
    /\ number'[p] = number[p] /\ record'[p] = record[p]
    /\ peer'[p] = peer[p] /\ amount'[p] = amount[p]

\* The operations on files touch only the process that runs them.
LEMMA FilesFrame ==
    ASSUME BankTypeOK, NEW p \in Procs, NEW q \in Procs, p # q,
           NEW c, NEW here, NEW there, NEW other
    PROVE  /\ OpenAccounts(q, here, there, other) => Untouched(p)
           /\ CreateAccounts(q, here, there) => Untouched(p)
           /\ OpenTransactions(q, here, there, other) => Untouched(p)
           /\ CreateTransactions(q, here, there) => Untouched(p)
           /\ OpenCounter(q, c, here, there, other) => Untouched(p)
           /\ CreateCounter(q, c, here, there) => Untouched(p)
           /\ ZeroCounter(q, c, here, there) => Untouched(p)
           /\ ReadCounter(q, c, here, there, other) => Untouched(p)
           /\ RewriteCounter(q, c, here, there) => Untouched(p)
           /\ StopRun(q) => Untouched(p)
           /\ CacheStep(q) => Untouched(p)
  <1> USE DEF BankTypeOK, Untouched, Goto, files, locks, caches, storage
  <1>1. OpenAccounts(q, here, there, other) => Untouched(p)
    BY DEF OpenAccounts
  <1>2. CreateAccounts(q, here, there) => Untouched(p)
    BY DEF CreateAccounts
  <1>3. OpenTransactions(q, here, there, other) => Untouched(p)
    BY DEF OpenTransactions
  <1>4. CreateTransactions(q, here, there) => Untouched(p)
    BY DEF CreateTransactions
  <1>5. OpenCounter(q, c, here, there, other) => Untouched(p)
    BY DEF OpenCounter
  <1>6. CreateCounter(q, c, here, there) => Untouched(p)
    BY DEF CreateCounter
  <1>7. ZeroCounter(q, c, here, there) => Untouched(p)
    BY DEF ZeroCounter
  <1>8. ReadCounter(q, c, here, there, other) => Untouched(p)
    BY DEF ReadCounter
  <1>9. RewriteCounter(q, c, here, there) => Untouched(p)
    BY DEF RewriteCounter
  <1>10. StopRun(q) => Untouched(p)
    BY DEF StopRun
  <1>11. CacheStep(q) => Untouched(p)
    BY DEF CacheStep, FlushAccounts, DropAccounts, FlushTransactions, WriteBack
  <1> QED
    BY <1>1, <1>2, <1>3, <1>4, <1>5, <1>6, <1>7, <1>8, <1>9, <1>10, <1>11

\* So does every step.
LEMMA Frame ==
    ASSUME BankTypeOK, NEW p \in Procs, NEW q \in Procs, p # q, Step(q)
    PROVE  Untouched(p)
  <1>1. CASE Start(q)
    BY <1>1
    DEF Start, Goto, BankTypeOK, Untouched, files, locks, caches, storage
  <1>2. CASE CreationStep(q)
    <2> USE DEF BankTypeOK, Untouched, Goto, Use, Change, WriteBack, caches,
                storage
    <2>1. CASE TypeName(q)
      BY <2>1 DEF TypeName
    <2>2. CASE WriteAccount(q)
      BY <2>2 DEF WriteAccount
    <2>3. CASE CreationClose(q)
      BY <2>3 DEF CreationClose
    <2>4. CASE CreationEnd(q)
      BY <2>4, FilesFrame DEF CreationEnd
    <2> HIDE DEF BankTypeOK, Untouched, Goto
    <2> QED
      BY <1>2, <2>1, <2>2, <2>3, <2>4, FilesFrame
      DEF CreationStep, CreationOpen, CreationMake, CreationCounter,
          CreationCounterNew, CreationCounterZero, CreationRead,
          CreationRewrite
  <1>3. CASE DeletionStep(q)
    <2> USE DEF BankTypeOK, Untouched, Goto, Use, Change, storage
    <2>1. CASE FindAccount(q)
      BY <2>1, FilesFrame DEF FindAccount
    <2>2. CASE DeleteAccount(q)
      BY <2>2 DEF DeleteAccount
    <2>3. CASE DeletionClose(q)
      BY <2>3, FilesFrame DEF DeletionClose
    <2> HIDE DEF BankTypeOK, Untouched, Goto
    <2> QED
      BY <1>3, <2>1, <2>2, <2>3, FilesFrame
      DEF DeletionStep, DeletionOpen, DeletionMake
  <1>4. CASE TransferStep(q)
    <2> USE DEF BankTypeOK, Untouched, Goto, Use, Change, WriteBack, storage
    <2>1. CASE ReadSource(q)
      BY <2>1, FilesFrame DEF ReadSource
    <2>2. CASE ReadDestination(q)
      BY <2>2, FilesFrame DEF ReadDestination
    <2>3. CASE Debit(q)
      BY <2>3, FilesFrame DEF Debit
    <2>4. CASE Credit(q)
      BY <2>4 DEF Credit
    <2>5. CASE WriteTransaction(q)
      BY <2>5 DEF WriteTransaction
    <2>6. CASE TransferClose(q)
      BY <2>6 DEF TransferClose
    <2>7. CASE JournalClose(q)
      BY <2>7 DEF JournalClose
    <2>8. CASE TransferEnd(q)
      BY <2>8, FilesFrame DEF TransferEnd
    <2> HIDE DEF BankTypeOK, Untouched, Goto
    <2> QED
      BY <1>4, <2>1, <2>2, <2>3, <2>4, <2>5, <2>6, <2>7, <2>8, FilesFrame
      DEF TransferStep, TransferOpen, TransferMake, JournalOpen, JournalMake,
          TransferCounter, TransferCounterNew, TransferCounterZero,
          TransferRead, TransferRewrite
  <1>5. CASE QueryStep(q)
    BY <1>5, FilesFrame
    DEF QueryStep, ListOpen, ListMake, SearchOpen, SearchMake, HistoryOpen,
        HistoryMake, ListAccounts, SearchBalance, ListHistory, Display
  <1>6. CASE CacheStep(q) \/ Crash(q)
    BY <1>6, FilesFrame DEF Crash
  <1> QED
    BY <1>1, <1>2, <1>3, <1>4, <1>5, <1>6 DEF Step, ProgramStep

-----------------------------------------------------------------------------
(* A run gets shorter with every statement.                                *)

\* Between OPEN OUTPUT and CLOSE of a counter its file exists.
MadeInv ==
    \A p \in Procs :
        /\ pc[p] = "c_zero" => counter["accounts"] # None
        /\ pc[p] = "t_zero" => counter["transactions"] # None

\* No statement removes a counter file.
LEMMA CountersStay ==
    ASSUME BankTypeOK, NEW q \in Procs, Step(q), NEW c \in Counters,
           counter[c] # None
    PROVE  counter'[c] # None
  <1>0. /\ Empty # None /\ None \notin Ids /\ 0 \in Ids
        /\ "accounts" \in Counters /\ "transactions" \in Counters
    BY BankProcsOK, NoneOK, AmountType DEF Counters
  <1>1. CASE UNCHANGED counter
    BY <1>1
  <1>2. ASSUME NEW d \in Counters, NEW here, NEW there,
               \/ CreateCounter(q, d, here, there)
               \/ ZeroCounter(q, d, here, there)
               \/ RewriteCounter(q, d, here, there)
        PROVE  counter'[c] # None
    BY <1>0, <1>2 DEF BankTypeOK, CreateCounter, ZeroCounter, RewriteCounter, locks
  <1>3. CASE CreationStep(q)
    BY <1>0, <1>1, <1>2, <1>3
    DEF CreationStep, CreationOpen, CreationMake, CreationCounter,
        CreationCounterNew, CreationCounterZero, CreationRead,
        CreationRewrite, TypeName, WriteAccount, CreationClose, CreationEnd,
        OpenAccounts, CreateAccounts, OpenCounter, ReadCounter, locks
  <1>4. CASE TransferStep(q)
    BY <1>0, <1>1, <1>2, <1>4
    DEF TransferStep, TransferOpen, TransferMake, ReadSource,
        ReadDestination, Debit, Credit, JournalOpen, JournalMake,
        TransferCounter, TransferCounterNew, TransferCounterZero,
        TransferRead, TransferRewrite, WriteTransaction, TransferClose,
        JournalClose, TransferEnd, OpenAccounts, CreateAccounts,
        OpenTransactions, CreateTransactions, OpenCounter, ReadCounter, locks
  <1>5. CASE DeletionStep(q) \/ QueryStep(q)
    BY <1>1, <1>5
    DEF DeletionStep, DeletionOpen, DeletionMake, FindAccount, DeleteAccount,
        DeletionClose, QueryStep, ListOpen, ListMake, ListAccounts,
        SearchOpen, SearchMake, SearchBalance, HistoryOpen, HistoryMake,
        ListHistory, Display, OpenAccounts, CreateAccounts, OpenTransactions,
        CreateTransactions, locks
  <1>6. CASE Start(q) \/ CacheStep(q) \/ Crash(q)
    BY <1>1, <1>6
    DEF Start, CacheStep, FlushAccounts, DropAccounts, FlushTransactions,
        Crash, locks
  <1> QED
    BY <1>3, <1>4, <1>5, <1>6 DEF Step, ProgramStep

\* The number of statements left is a number, and 0 at the end only.
LEMMA LeftType ==
    ASSUME BankTypeOK, NEW p \in Procs
    PROVE  /\ StatementsLeft(p) \in 0..18
           /\ pc[p] = "idle" => StatementsLeft(p) = 0
           /\ StatementsLeft(p) = 0 => pc[p] = "idle"
  <1>1. pc[p] \in Statements
    BY DEF BankTypeOK
  <1>2. /\ StatementsFrom[pc[p]] \in 0..18
        /\ pc[p] = "idle" <=> StatementsFrom[pc[p]] = 0
    BY <1>1 DEF StatementsFrom, Statements
  <1> QED
    BY <1>2 DEF StatementsLeft

\* What is left after a step of q that leads from here to there.
LEMMA LeftThere ==
    ASSUME BankTypeOK, NEW q \in Procs, NEW there \in Statements, Goto(q, there)
    PROVE  /\ there \notin {"c_count", "t_count"} =>
                StatementsLeft(q)' = StatementsFrom[there]
           /\ there = "c_count" => StatementsLeft(q)' =
                IF counter'["accounts"] = None THEN 10 ELSE 7
           /\ there = "t_count" => StatementsLeft(q)' =
                IF counter'["transactions"] = None THEN 10 ELSE 7
  <1>1. pc'[q] = there
    BY DEF Goto, BankTypeOK
  <1>2. StatementsFrom["c_count"] = 7 /\ StatementsFrom["t_count"] = 7
    BY DEF StatementsFrom
  <1> QED
    BY <1>1, <1>2 DEF StatementsLeft

\* A statement that leads to a later one, not to OPEN of a counter.
LEMMA Onward ==
    ASSUME BankTypeOK, NEW q \in Procs, NEW here \in Statements, At(q, here),
           NEW there \in Statements \ {"c_count", "t_count"}, Goto(q, there),
           StatementsFrom[there] < StatementsFrom[here]
    PROVE  StatementsLeft(q)' < StatementsLeft(q)
  <1>1. StatementsLeft(q)' = StatementsFrom[there]
    BY LeftThere
  <1>2. /\ StatementsFrom["c_count"] = 7 /\ StatementsFrom["t_count"] = 7
        /\ StatementsFrom[here] \in Nat /\ StatementsFrom[there] \in Nat
    BY DEF StatementsFrom, Statements
  <1>3. StatementsLeft(q) >= StatementsFrom[here]
    BY <1>2 DEF StatementsLeft, At
  <1>4. StatementsLeft(q) \in Nat
    BY LeftType
  <1> QED
    BY <1>1, <1>2, <1>3, <1>4

\* A run that is over has nothing left.
LEMMA Over ==
    ASSUME BankTypeOK, NEW q \in Procs, pc[q] # "idle", StopRun(q)
    PROVE  /\ StatementsLeft(q)' < StatementsLeft(q)
           /\ StatementsLeft(q)' = 0
  <1>1. StatementsLeft(q)' = 0
    BY LeftThere DEF StopRun, Statements, StatementsFrom
  <1> QED
    BY <1>1, LeftType

\* The statements before OPEN of a counter, OPEN itself, and those that make
\* the file.
LEMMA CounterShorter ==
    ASSUME BankTypeOK, MadeInv, NEW q \in Procs,
           \/ CreationOpen(q) \/ CreationMake(q)
           \/ CreationCounter(q) \/ CreationCounterNew(q)
           \/ CreationCounterZero(q)
           \/ JournalOpen(q) \/ JournalMake(q)
           \/ TransferCounter(q) \/ TransferCounterNew(q)
           \/ TransferCounterZero(q)
    PROVE  StatementsLeft(q)' < StatementsLeft(q)
  <1> USE DEF At, Statements
  <1>0. /\ StatementsFrom["c_open"] = 12 /\ StatementsFrom["c_make"] = 11
        /\ StatementsFrom["c_new"] = 9 /\ StatementsFrom["c_zero"] = 8
        /\ StatementsFrom["c_read"] = 6
        /\ StatementsFrom["j_open"] = 12 /\ StatementsFrom["j_make"] = 11
        /\ StatementsFrom["t_new"] = 9 /\ StatementsFrom["t_zero"] = 8
        /\ StatementsFrom["t_read"] = 6
    BY DEF StatementsFrom
  <1>1. CASE CreationOpen(q) \/ CreationMake(q)
    BY <1>0, <1>1, LeftThere
    DEF CreationOpen, CreationMake, OpenAccounts, CreateAccounts, StatementsLeft
  <1>2. CASE JournalOpen(q) \/ JournalMake(q)
    BY <1>0, <1>2, LeftThere
    DEF JournalOpen, JournalMake, OpenTransactions, CreateTransactions,
        StatementsLeft
  <1>3. CASE CreationCounter(q) \/ TransferCounter(q)
    <2>1. CASE CreationCounter(q)
      BY <1>0, <2>1, LeftThere DEF CreationCounter, OpenCounter, StatementsLeft, StatementsFrom
    <2>2. CASE TransferCounter(q)
      BY <1>0, <2>2, LeftThere DEF TransferCounter, OpenCounter, StatementsLeft, StatementsFrom
    <2> QED
      BY <1>3, <2>1, <2>2
  <1>4. CASE CreationCounterNew(q) \/ TransferCounterNew(q)
    BY <1>0, <1>4, LeftThere
    DEF CreationCounterNew, TransferCounterNew, CreateCounter, StatementsLeft
  <1>5. CASE CreationCounterZero(q)
    <2>1. counter'["accounts"] # None
      BY <1>5, CountersStay
      DEF MadeInv, CreationCounterZero, ZeroCounter, Counters, Step,
          ProgramStep, CreationStep
    <2> QED
      BY <1>0, <1>5, <2>1, LeftThere
      DEF CreationCounterZero, ZeroCounter, StatementsLeft
  <1>6. CASE TransferCounterZero(q)
    <2>1. counter'["transactions"] # None
      BY <1>6, CountersStay
      DEF MadeInv, TransferCounterZero, ZeroCounter, Counters, Step,
          ProgramStep, TransferStep
    <2> QED
      BY <1>0, <1>6, <2>1, LeftThere
      DEF TransferCounterZero, ZeroCounter, StatementsLeft
  <1> QED
    BY <1>1, <1>2, <1>3, <1>4, <1>5, <1>6

\* Every statement of a program leaves fewer to execute.
LEMMA StatementShortens ==
    ASSUME BankTypeOK, MadeInv, NEW q \in Procs, ProgramStep(q)
    PROVE  StatementsLeft(q)' < StatementsLeft(q)
  <1> USE DEF At
  <1>1. CASE CreationStep(q)
    <2>1. CASE CreationRead(q) \/ CreationRewrite(q) \/ TypeName(q)
               \/ WriteAccount(q) \/ CreationClose(q)
      <3>1. /\ StatementsFrom["c_rewrite"] < StatementsFrom["c_read"]
            /\ StatementsFrom["c_name"] < StatementsFrom["c_read"]
            /\ StatementsFrom["c_name"] < StatementsFrom["c_rewrite"]
            /\ StatementsFrom["c_write"] < StatementsFrom["c_name"]
            /\ StatementsFrom["c_close"] < StatementsFrom["c_write"]
            /\ StatementsFrom["c_end"] < StatementsFrom["c_close"]
        BY DEF StatementsFrom
      <3> QED
        BY <2>1, <3>1, Onward
        DEF CreationRead, CreationRewrite, TypeName, WriteAccount,
            CreationClose, ReadCounter, RewriteCounter, Statements
    <2>2. CASE CreationEnd(q)
      BY <2>2, Over DEF CreationEnd
    <2> QED
      BY <1>1, <2>1, <2>2, CounterShorter DEF CreationStep
  <1>2. CASE DeletionStep(q)
    <2>1. /\ StatementsFrom["d_make"] < StatementsFrom["d_open"]
          /\ StatementsFrom["d_read"] < StatementsFrom["d_open"]
          /\ StatementsFrom["d_read"] < StatementsFrom["d_make"]
          /\ StatementsFrom["d_delete"] < StatementsFrom["d_read"]
          /\ StatementsFrom["d_close"] < StatementsFrom["d_delete"]
      BY DEF StatementsFrom
    <2>2. CASE DeletionOpen(q) \/ DeletionMake(q) \/ DeleteAccount(q)
      BY <2>1, <2>2, Onward
      DEF DeletionOpen, DeletionMake, DeleteAccount, OpenAccounts,
          CreateAccounts, Statements
    <2>3. CASE FindAccount(q)
      BY <2>1, <2>3, Onward, Over DEF FindAccount, Statements
    <2>4. CASE DeletionClose(q)
      BY <2>4, Over DEF DeletionClose
    <2> QED
      BY <1>2, <2>2, <2>3, <2>4 DEF DeletionStep
  <1>3. CASE TransferStep(q)
    <2>1. /\ StatementsFrom["t_make"] < StatementsFrom["t_open"]
          /\ StatementsFrom["t_source"] < StatementsFrom["t_open"]
          /\ StatementsFrom["t_source"] < StatementsFrom["t_make"]
          /\ StatementsFrom["t_destination"] < StatementsFrom["t_source"]
          /\ StatementsFrom["t_debit"] < StatementsFrom["t_destination"]
          /\ StatementsFrom["t_credit"] < StatementsFrom["t_debit"]
          /\ StatementsFrom["j_open"] < StatementsFrom["t_credit"]
          /\ StatementsFrom["t_rewrite"] < StatementsFrom["t_read"]
          /\ StatementsFrom["t_write"] < StatementsFrom["t_read"]
          /\ StatementsFrom["t_write"] < StatementsFrom["t_rewrite"]
          /\ StatementsFrom["t_close"] < StatementsFrom["t_write"]
          /\ StatementsFrom["j_close"] < StatementsFrom["t_close"]
          /\ StatementsFrom["t_end"] < StatementsFrom["j_close"]
      BY DEF StatementsFrom
    <2>2. CASE TransferOpen(q) \/ TransferMake(q) \/ Credit(q)
      BY <2>1, <2>2, Onward
      DEF TransferOpen, TransferMake, Credit, OpenAccounts, CreateAccounts,
          Statements
    <2>3. CASE ReadSource(q) \/ ReadDestination(q) \/ Debit(q)
      BY <2>1, <2>3, Onward, Over
      DEF ReadSource, ReadDestination, Debit, Statements
    <2>4. CASE TransferRead(q) \/ TransferRewrite(q) \/ WriteTransaction(q)
               \/ TransferClose(q) \/ JournalClose(q)
      BY <2>1, <2>4, Onward
      DEF TransferRead, TransferRewrite, WriteTransaction, TransferClose,
          JournalClose, ReadCounter, RewriteCounter, Statements
    <2>5. CASE TransferEnd(q)
      BY <2>5, Over DEF TransferEnd
    <2> QED
      BY <1>3, <2>2, <2>3, <2>4, <2>5, CounterShorter DEF TransferStep
  <1>4. CASE QueryStep(q)
    <2>1. /\ StatementsFrom["l_make"] < StatementsFrom["l_open"]
          /\ StatementsFrom["l_read"] < StatementsFrom["l_open"]
          /\ StatementsFrom["l_read"] < StatementsFrom["l_make"]
          /\ StatementsFrom["s_make"] < StatementsFrom["s_open"]
          /\ StatementsFrom["s_read"] < StatementsFrom["s_open"]
          /\ StatementsFrom["s_read"] < StatementsFrom["s_make"]
          /\ StatementsFrom["h_make"] < StatementsFrom["h_open"]
          /\ StatementsFrom["h_read"] < StatementsFrom["h_open"]
          /\ StatementsFrom["h_read"] < StatementsFrom["h_make"]
      BY DEF StatementsFrom
    <2>2. CASE ListOpen(q) \/ ListMake(q) \/ SearchOpen(q) \/ SearchMake(q)
      BY <2>1, <2>2, Onward
      DEF ListOpen, ListMake, SearchOpen, SearchMake, OpenAccounts,
          CreateAccounts, Statements
    <2>3. CASE HistoryOpen(q) \/ HistoryMake(q)
      BY <2>1, <2>3, Onward
      DEF HistoryOpen, HistoryMake, OpenTransactions, CreateTransactions,
          Statements
    <2>4. CASE ListAccounts(q) \/ SearchBalance(q) \/ ListHistory(q)
      BY <2>4, Over DEF ListAccounts, SearchBalance, ListHistory, Display
    <2> QED
      BY <1>4, <2>2, <2>3, <2>4 DEF QueryStep
  <1> QED
    BY <1>1, <1>2, <1>3, <1>4 DEF ProgramStep

\* What the other processes, the caches and a kill do leaves no more.
LEMMA OthersShorten ==
    ASSUME BankTypeOK, NEW p \in Procs, NEW q \in Procs, Step(q),
           p # q \/ CacheStep(q) \/ Crash(q)
    PROVE  StatementsLeft(p)' <= StatementsLeft(p)
  <1>1. StatementsLeft(p) \in Nat
    BY LeftType
  <1>2. CASE pc'[p] = pc[p]
    <2>1. /\ counter["accounts"] # None => counter'["accounts"] # None
          /\ counter["transactions"] # None => counter'["transactions"] # None
      BY CountersStay DEF Counters
    <2>2. /\ StatementsFrom["c_count"] = 7 /\ StatementsFrom["t_count"] = 7
      BY DEF StatementsFrom
    <2> QED
      BY <1>1, <1>2, <2>1, <2>2 DEF StatementsLeft
  <1>3. CASE pc'[p] # pc[p]
    <2>1. p = q /\ Crash(q)
      BY <1>3, Frame
      DEF Untouched, CacheStep, FlushAccounts, DropAccounts, FlushTransactions
    <2> QED
      BY <1>1, <2>1, Over, LeftType DEF Crash
  <1> QED
    BY <1>2, <1>3

\* The file that OPEN OUTPUT makes is there until CLOSE.
LEMMA MadeInvStep ==
    ASSUME BankTypeOK, MadeInv, [BankNext]_bankVars
    PROVE  MadeInv'
  <1>0. "accounts" \in Counters /\ "transactions" \in Counters /\ Empty # None
    BY BankProcsOK DEF Counters
  <1>1. ASSUME UNCHANGED bankVars
        PROVE  MadeInv'
    BY <1>1 DEF MadeInv, bankVars, locks
  <1>2. ASSUME NEW q \in Procs, Step(q)
        PROVE  MadeInv'
    <2>1. ASSUME NEW p \in Procs, pc'[p] = pc[p]
          PROVE  /\ pc'[p] = "c_zero" => counter'["accounts"] # None
                 /\ pc'[p] = "t_zero" => counter'["transactions"] # None
      BY <1>0, <1>2, <2>1, CountersStay DEF MadeInv
    <2>2. CASE pc'[q] \notin {"c_zero", "t_zero"}
      BY <1>2, <2>1, <2>2, Frame DEF MadeInv, Untouched
    <2>3. CASE pc'[q] = pc[q]
      BY <1>2, <2>1, <2>3, Frame DEF MadeInv, Untouched
    <2>4. CASE CreationCounterNew(q) \/ TransferCounterNew(q)
      <3>1. /\ pc'[q] = "c_zero" => counter'["accounts"] # None
            /\ pc'[q] = "t_zero" => counter'["transactions"] # None
        BY <1>0, <2>4
        DEF CreationCounterNew, TransferCounterNew, CreateCounter, Goto,
            BankTypeOK
      <3> QED
        BY <1>2, <2>1, <3>1, Frame DEF MadeInv, Untouched
    <2>5. \/ CreationCounterNew(q) \/ TransferCounterNew(q)
          \/ pc'[q] = pc[q] \/ pc'[q] \notin {"c_zero", "t_zero"}
      <3> USE DEF Goto, BankTypeOK
      <3>1. CASE Start(q)
        <4>1. PICK program \in Programs : Goto(q, FirstStatement[program])
          BY <3>1 DEF Start
        <4>2. FirstStatement[program] \notin {"c_zero", "t_zero"}
          BY <4>1, OpeningOK DEF FirstStatement
        <4> QED
          BY <4>1, <4>2
      <3>2. CASE CacheStep(q) \/ Crash(q)
        BY <3>2
        DEF CacheStep, FlushAccounts, DropAccounts, FlushTransactions, Crash,
            StopRun
      <3>3. CASE CreationStep(q)
        BY <3>3
        DEF CreationStep, CreationOpen, CreationMake, CreationCounter,
            CreationCounterZero, CreationRead, CreationRewrite, TypeName,
            WriteAccount, CreationClose, CreationEnd, OpenAccounts,
            CreateAccounts, OpenCounter, ZeroCounter, ReadCounter,
            RewriteCounter, StopRun
      <3>4. CASE DeletionStep(q) \/ QueryStep(q)
        BY <3>4
        DEF DeletionStep, DeletionOpen, DeletionMake, FindAccount,
            DeleteAccount, DeletionClose, QueryStep, ListOpen, ListMake,
            ListAccounts, SearchOpen, SearchMake, SearchBalance, HistoryOpen,
            HistoryMake, ListHistory, Display, OpenAccounts, CreateAccounts,
            OpenTransactions, CreateTransactions, StopRun
      <3>5. CASE TransferStep(q)
        BY <3>5
        DEF TransferStep, TransferOpen, TransferMake, ReadSource,
            ReadDestination, Debit, Credit, JournalOpen, JournalMake,
            TransferCounter, TransferCounterZero, TransferRead,
            TransferRewrite, WriteTransaction, TransferClose, JournalClose,
            TransferEnd, OpenAccounts, CreateAccounts, OpenTransactions,
            CreateTransactions, OpenCounter, ZeroCounter, ReadCounter,
            RewriteCounter, StopRun
      <3> QED
        BY <1>2, <3>1, <3>2, <3>3, <3>4, <3>5 DEF Step, ProgramStep
    <2> QED
      BY <2>2, <2>3, <2>4, <2>5
  <1> QED
    BY <1>1, <1>2 DEF BankNext, Step

\* From no files or from files in use, whatever else runs, is killed or is
\* written by the caches: a statement of a run leaves fewer to execute, and
\* nothing sends the run back.  With the fairness that a running process goes
\* on, this is why a run ends and gives back its lock
\* (account-creation.cbl:46-56, transfer-money.cbl:127-137).
THEOREM RunsGetShorter ==
    FreshBankSpec \/ BankSpec \/ EitherBankSpec => RunsShorten
  <1>1. ASSUME BankTypeOK, BankTypeOK', MadeInv, [BankNext]_bankVars
        PROVE  [\A p \in Procs :
                  /\ ProgramStep(p) => StatementsLeft(p)' < StatementsLeft(p)
                  /\ pc[p] # "idle" =>
                       StatementsLeft(p)' <= StatementsLeft(p)]_bankVars
    <2>1. CASE UNCHANGED bankVars
      BY <2>1
    <2>2. ASSUME NEW q \in Procs, Step(q), NEW p \in Procs
          PROVE  /\ ProgramStep(p) => StatementsLeft(p)' < StatementsLeft(p)
                 /\ pc[p] # "idle" => StatementsLeft(p)' <= StatementsLeft(p)
      <3>1. ProgramStep(p) => StatementsLeft(p)' < StatementsLeft(p)
        BY <1>1, StatementShortens
      <3>2. ASSUME pc[p] # "idle", ~ProgramStep(p)
            PROVE  p # q \/ CacheStep(q) \/ Crash(q)
        BY <2>2, <3>2 DEF Step, Start, At
      <3>3. StatementsLeft(p) \in Nat /\ StatementsLeft(p)' \in Nat
        <4>1. BankTypeOK => StatementsLeft(p) \in 0..18
          BY LeftType
        <4>2. (BankTypeOK => StatementsLeft(p) \in 0..18)'
          BY LeftType, PTL
        <4> QED
          BY <1>1, <4>1, <4>2
      <3> QED
        BY <1>1, <2>2, <3>1, <3>2, <3>3, OthersShorten
    <2> QED
      BY <1>1, <2>1, <2>2 DEF BankNext, Step
  <1>2. FreshBankInit \/ BankInit => MadeInv
    BY DEF FreshBankInit, BankInit, NoProcess, MadeInv
  <1>3. BankInv => BankTypeOK
    BY DEF BankInv
  <1>4. EitherBankSpec => RunsShorten
    BY <1>1, <1>2, <1>3, MadeInvStep, BankInvariant, PTL
    DEF EitherBankSpec, RunsShorten
  <1>5. FreshBankSpec \/ BankSpec => EitherBankSpec
    BY PTL DEF FreshBankSpec, BankSpec, EitherBankSpec
  <1> QED
    BY <1>4, <1>5, PTL
=============================================================================
