---------------------------- MODULE CounterProofs ---------------------------
(***************************************************************************)
(* Proofs that the counters number accounts and transactions with IDs      *)
(* nobody has used, for any number of processes that run every program,    *)
(* are killed and have their pages written at any time.                    *)
(*                                                                         *)
(* One invariant says what the lock of a counter means to each process,    *)
(* for both counters; on it rests that every ID on file, or in a page, is  *)
(* below the one being given out.  A counter has room for every process    *)
(* that may still increase it, so the next ID is never 0.                  *)
(*                                                                         *)
(* A transfer under the lock therefore finds its number unused, and what   *)
(* it writes there stays.                                                  *)
(***************************************************************************)
EXTENDS FileProofs, FiniteSetTheorems

-----------------------------------------------------------------------------
(* The statements of each program around its counter.                      *)

\* Until the counter is rewritten.
Climbing ==
    [ accounts |-> {"c_open", "c_make", "c_count", "c_new", "c_zero",
                    "c_read", "c_rewrite"},
      transactions |-> {"t_open", "t_make", "t_source", "t_destination",
                        "t_debit", "t_credit", "j_open", "j_make", "t_count",
                        "t_new", "t_zero", "t_read", "t_rewrite"} ]

Reading == [accounts |-> "c_read", transactions |-> "t_read"]

Rewriting == [accounts |-> "c_rewrite", transactions |-> "t_rewrite"]

\* Between READ or REWRITE of the counter and WRITE of the record.
Numbered ==
    [accounts |-> {"c_name", "c_write"}, transactions |-> {"t_write"}]

\* While the process may have the lock.
Working ==
    [ accounts |-> {"c_read", "c_rewrite", "c_name", "c_write", "c_close",
                    "c_end"},
      transactions |-> {"t_read", "t_rewrite", "t_write", "t_close",
                        "j_close", "t_end"} ]

\* Statements for a file that does not exist.
Absent ==
    {"c_make", "d_make", "t_make", "l_make", "s_make", "j_make", "h_make",
     "c_new", "c_zero", "t_new", "t_zero"}

\* How these sets lie.
LEMMA Points ==
    ASSUME NEW c \in Counters
    PROVE  /\ Reading[c] \in Climbing[c] \cap Working[c]
           /\ Rewriting[c] \in Climbing[c] \cap Working[c]
           /\ Reading[c] # Rewriting[c]
           /\ Reading[c] \notin Numbered[c] /\ Rewriting[c] \notin Numbered[c]
           /\ Numbered[c] \subseteq Working[c]
           /\ Numbered[c] \cap Climbing[c] = {}
           /\ "idle" \notin Working[c] \cup Climbing[c]
  BY DEF Counters, Reading, Rewriting, Climbing, Working, Numbered

-----------------------------------------------------------------------------
(* The invariant of a counter.                                             *)

CounterLocal(c, p) ==
    /\ holder[c] = p => pc[p] \in Working[c]
    /\ pc[p] = Rewriting[c] => holder[c] = p /\ number[p] = counter[c] + 1
    /\ pc[p] \in Numbered[c] =>
         IF holder[c] = p THEN number[p] = counter[c] /\ counter[c] > 1
         ELSE number[p] = 1

Ahead(c) == {p \in Procs : pc[p] \in Climbing[c]}

CounterInv(c) ==
    /\ counter[c] \in Ids \ {0}
    /\ counter[c] + Cardinality(Ahead(c)) < IdLimit
    /\ \A p \in Procs : CounterLocal(c, p)

PresentInv ==
    /\ accounts # None /\ journal # None
    /\ \A p \in Procs : pc[p] \notin Absent

CountersInv ==
    PresentInv /\ CounterInv("accounts") /\ CounterInv("transactions")

\* What a step of q may do to counter c and to its lock.
CounterMoves(c, q) ==
    /\ \/ counter'[c] = counter[c]
       \/ /\ holder[c] = q /\ holder'[c] = q
          /\ counter'[c] = counter[c] + 1
          /\ pc[q] \in Climbing[c] /\ pc'[q] \notin Climbing[c]
    /\ \/ holder'[c] = holder[c]
       \/ holder[c] = None /\ holder'[c] = q
       \/ holder[c] = q /\ holder'[c] = None
    /\ pc'[q] \in Climbing[c] /\ pc[q] \notin Climbing[c] => RoomLeft(c)
    /\ holder'[c] = q /\ pc'[q] \in Numbered[c] =>
         \/ holder[c] = q /\ pc[q] \in Numbered[c]
         \/ counter'[c] = counter[c] + 1
    /\ CounterLocal(c, q)'

\* A process on its way to a counter is finite in number.
LEMMA AheadFinite ==
    ASSUME NEW c
    PROVE  /\ IsFiniteSet(Ahead(c)) /\ Cardinality(Ahead(c)) \in Nat
           /\ Cardinality(Procs) \in Nat
  <1>1. Ahead(c) \subseteq Procs
    BY DEF Ahead
  <1> QED
    BY <1>1, BankProcsOK, FS_Subset, FS_CardinalityType

\* Such a step keeps the invariant of the counter.
LEMMA CounterMovesKeep ==
    ASSUME BankInv, NEW c \in Counters, CounterInv(c), NEW q \in Procs,
           \A p \in Procs \ {q} : Untouched(p), CounterMoves(c, q)
    PROVE  CounterInv(c)'
  <1>1. counter[c] \in Ids \ {0} /\ IdLimit \in Nat
    BY BankSizesOK DEF CounterInv
  <1>2. Ahead(c)' = {p \in Procs : pc'[p] \in Climbing[c]}
    BY DEF Ahead
  <1>3. /\ IsFiniteSet(Ahead(c)) /\ Cardinality(Ahead(c)) \in Nat
        /\ IsFiniteSet(Procs) /\ Cardinality(Procs) \in Nat
    BY AheadFinite, BankProcsOK
  <1>4. counter'[c] + Cardinality(Ahead(c)') < IdLimit
        /\ Cardinality(Ahead(c)') \in Nat
    <2>1. CASE counter'[c] = counter[c] /\ Ahead(c)' \subseteq Ahead(c)
      <3>1. /\ Cardinality(Ahead(c)') \in Nat
            /\ Cardinality(Ahead(c)') <= Cardinality(Ahead(c))
        BY <1>3, <2>1, FS_Subset, FS_CardinalityType
      <3> QED
        BY <1>1, <1>3, <2>1, <3>1 DEF CounterInv, Ids
    <2>2. CASE ~(Ahead(c)' \subseteq Ahead(c))
      <3>1. pc'[q] \in Climbing[c] /\ pc[q] \notin Climbing[c]
        BY <1>2, <2>2 DEF Ahead, Untouched
      <3>2. counter'[c] = counter[c] /\ RoomLeft(c)
        BY <3>1 DEF CounterMoves
      <3>3. Ahead(c)' \subseteq Procs
        BY <1>2
      <3>4. /\ Cardinality(Ahead(c)') \in Nat
            /\ Cardinality(Ahead(c)') <= Cardinality(Procs)
        BY <1>3, <3>3, FS_Subset, FS_CardinalityType
      <3> QED
        BY <1>1, <1>3, <3>2, <3>4 DEF RoomLeft, Ids
    <2>3. CASE counter'[c] # counter[c]
      <3>1. /\ counter'[c] = counter[c] + 1
            /\ pc[q] \in Climbing[c] /\ pc'[q] \notin Climbing[c]
        BY <2>3 DEF CounterMoves
      <3>2. Ahead(c)' = Ahead(c) \ {q} /\ q \in Ahead(c)
        BY <1>2, <3>1 DEF Ahead, Untouched
      <3>3. Cardinality(Ahead(c)') = Cardinality(Ahead(c)) - 1
        BY <1>3, <3>2, FS_RemoveElement
      <3>4. Cardinality(Ahead(c)') \in Nat
        BY <1>3, <3>2, FS_RemoveElement, FS_CardinalityType
      <3> QED
        BY <1>1, <1>3, <3>1, <3>3, <3>4 DEF CounterInv, Ids
    <2> QED
      BY <2>1, <2>2, <2>3
  <1>5. counter'[c] \in Ids \ {0}
    <2>1. counter'[c] \in Nat \ {0}
      BY <1>1 DEF CounterMoves, Ids
    <2> QED
      BY <1>1, <1>4, <2>1 DEF Ids
  <1>6. ASSUME NEW p \in Procs, p # q
        PROVE  CounterLocal(c, p)'
    <2>1. Untouched(p)
      BY <1>6
    <2>2. holder'[c] = p <=> holder[c] = p
      BY <1>6, BankProcsOK DEF CounterMoves
    <2>3. holder[c] = p => counter'[c] = counter[c]
      BY <1>6 DEF CounterMoves
    <2> QED
      BY <2>1, <2>2, <2>3 DEF Untouched, CounterInv, CounterLocal
  <1>7. CounterLocal(c, q)'
    BY DEF CounterMoves
  <1> QED
    BY <1>4, <1>5, <1>6, <1>7 DEF CounterInv

-----------------------------------------------------------------------------
(* What each statement does to a counter.                                  *)

\* The ID after that of a counter with room, and the one without the lock.
LEMMA NextIds ==
    /\ \A n \in Ids : n + 1 < IdLimit => NextId(n) = n + 1
    /\ NextId(0) = 1
  <1>1. IdLimit \in Nat /\ IdLimit > 1
    BY BankSizesOK
  <1>2. ASSUME NEW n \in Ids, n + 1 < IdLimit
        PROVE  NextId(n) = n + 1
    BY <1>1, <1>2 DEF NextId, Ids
  <1>3. 0 \in Ids /\ 0 + 1 < IdLimit
    BY <1>1 DEF Ids
  <1> QED
    BY <1>2, <1>3

\* OPEN, READ and REWRITE of the counter that is there.
LEMMA CountingMoves ==
    ASSUME BankInv, NEW c \in Counters, CounterInv(c), NEW q \in Procs,
           NEW here \in Climbing[c] \ Working[c], NEW missing,
           NEW there \in Numbered[c],
           \/ OpenCounter(q, c, here, missing, Reading[c])
           \/ ReadCounter(q, c, Reading[c], Rewriting[c], there)
           \/ RewriteCounter(q, c, Rewriting[c], there)
    PROVE  /\ CounterMoves(c, q) /\ UNCHANGED files
           /\ pc'[q] \in {Reading[c], Rewriting[c], there}
  <1>0. /\ pc \in [Procs -> Statements] /\ number \in [Procs -> Ids]
        /\ counter \in [Counters -> Ids \cup {None, Empty}]
        /\ holder \in [Counters -> Procs \cup {None}]
        /\ counter[c] \in Ids \ {0} /\ counter[c] # None /\ counter[c] # Empty
        /\ q # None
    BY BankProcsOK, NoneOK DEF BankInv, BankTypeOK, CounterInv
  <1>1. CASE OpenCounter(q, c, here, missing, Reading[c])
    <2>1. /\ counter' = counter /\ pc[q] = here /\ pc'[q] = Reading[c]
          /\ holder'[c] = IF holder[c] = None THEN q ELSE holder[c]
          /\ UNCHANGED files
      BY <1>0, <1>1 DEF OpenCounter, At, Goto, Lock
    <2> QED
      BY <1>0, <2>1, Points DEF CounterMoves, CounterLocal
  <1>2. CASE ReadCounter(q, c, Reading[c], Rewriting[c], there)
    <2>1. /\ UNCHANGED <<counter, holder, files>> /\ pc[q] = Reading[c]
          /\ number'[q] = IF holder[c] = q THEN NextId(counter[c]) ELSE NextId(0)
          /\ pc'[q] = IF holder[c] = q THEN Rewriting[c] ELSE there
      BY <1>0, <1>2 DEF ReadCounter, At, Goto, locks
    <2>2. NextId(counter[c]) = counter[c] + 1
      <3>1. q \in Ahead(c)
        BY <2>1, Points DEF Ahead
      <3>2. Cardinality(Ahead(c)) # 0
        BY <3>1, AheadFinite, FS_EmptySet
      <3>3. counter[c] + 1 < IdLimit
        BY <1>0, <3>2, AheadFinite, BankSizesOK DEF CounterInv, Ids
      <3> QED
        BY <1>0, <3>3, NextIds
    <2> QED
      BY <1>0, <2>1, <2>2, Points, NextIds DEF CounterMoves, CounterLocal
  <1>3. CASE RewriteCounter(q, c, Rewriting[c], there)
    <2>1. /\ UNCHANGED <<holder, number, files>> /\ pc[q] = Rewriting[c]
          /\ counter'[c] = number[q] /\ pc'[q] = there
      BY <1>0, <1>3 DEF RewriteCounter, At, Goto, storage
    <2>2. holder[c] = q /\ number[q] = counter[c] + 1
      BY <2>1 DEF CounterInv, CounterLocal
    <2>3. counter'[c] > 1
      BY <1>0, <2>1, <2>2, BankSizesOK DEF Ids
    <2> QED
      BY <2>1, <2>2, <2>3, Points DEF CounterMoves, CounterLocal
  <1> QED
    BY <1>1, <1>2, <1>3

\* A step between statements that have nothing to do with the lock of c.
LEMMA ElsewhereMoves ==
    ASSUME BankInv, NEW c \in Counters, CounterInv(c), NEW q \in Procs,
           counter'[c] = counter[c],
           holder'[c] = holder[c] \/ (holder[c] = q /\ holder'[c] = None),
           pc'[q] \in Climbing[c] /\ pc[q] \notin Climbing[c] => RoomLeft(c),
           pc'[q] \notin Working[c], holder'[c] # q
    PROVE  CounterMoves(c, q)
  BY Points DEF CounterMoves, CounterLocal

\* A step that leaves the counter, its lock and the number alone.
LEMMA NumberedMoves ==
    ASSUME BankInv, NEW c \in Counters, CounterInv(c), NEW q \in Procs,
           UNCHANGED <<counter, holder, number>>,
           pc'[q] = pc[q]
             \/ pc'[q] \in Working[c] \ (Climbing[c] \cup {Rewriting[c]}),
           pc'[q] \in Numbered[c] => pc[q] \in Numbered[c]
    PROVE  CounterMoves(c, q)
  BY Points DEF CounterMoves, CounterLocal, CounterInv

-----------------------------------------------------------------------------
(* What each program does to the counters.                                 *)

PresentMoves(q) ==
    accounts' # None /\ journal' # None /\ pc'[q] \notin Absent

CountersMove(q) ==
    /\ PresentMoves(q)
    /\ CounterMoves("accounts", q) /\ CounterMoves("transactions", q)

\* The run of q ends; its locks, if it has any, are released.
LEMMA StopMoves ==
    ASSUME BankInv, CountersInv, NEW q \in Procs, StopRun(q),
           UNCHANGED <<journal, counter>>, accounts' # None,
           \/ holder' = Unlocked(q)
           \/ /\ UNCHANGED holder
              /\ \A c \in Counters : pc[q] \notin Working[c]
    PROVE  CountersMove(q)
  <1>1. pc'[q] = "idle" /\ q # None
    BY BankProcsOK DEF StopRun, Goto, BankInv, BankTypeOK
  <1>2. PresentMoves(q)
    BY <1>1 DEF PresentMoves, CountersInv, PresentInv, Absent
  <1>3. ASSUME NEW c \in Counters, CounterInv(c)
        PROVE  CounterMoves(c, q)
    <2>1. /\ holder'[c] = holder[c] \/ (holder[c] = q /\ holder'[c] = None)
          /\ holder'[c] # q
      BY <1>1, <1>3 DEF Unlocked, CounterInv, CounterLocal
    <2> QED
      BY <1>1, <1>3, <2>1, Points, ElsewhereMoves
  <1> QED
    BY <1>2, <1>3 DEF CountersMove, CountersInv, Counters

\* A step that has nothing to do with the counters.
LEMMA AsideMoves ==
    ASSUME BankInv, CountersInv, NEW q \in Procs, UNCHANGED locks,
           accounts' # None, journal' # None, pc'[q] \notin Absent,
           \A c \in Counters :
             /\ pc[q] \notin Working[c] /\ pc'[q] \notin Working[c]
             /\ pc'[q] \in Climbing[c] => pc[q] \in Climbing[c] \/ RoomLeft(c)
    PROVE  CountersMove(q)
  <1>1. ASSUME NEW c \in Counters, CounterInv(c)
        PROVE  CounterMoves(c, q)
    <2>1. holder'[c] = holder[c] /\ counter'[c] = counter[c] /\ holder'[c] # q
      BY <1>1 DEF locks, CounterInv, CounterLocal
    <2> QED
      BY <1>1, <2>1, ElsewhereMoves
  <1> QED
    BY <1>1 DEF CountersMove, PresentMoves, CountersInv, Counters

\* What every program starts from.
LEMMA CountersFacts ==
    ASSUME BankInv, CountersInv, NEW q \in Procs
    PROVE  /\ pc \in [Procs -> Statements]
           /\ holder \in [Counters -> Procs \cup {None}]
           /\ counter \in [Counters -> Ids \cup {None, Empty}]
           /\ accounts # None /\ journal # None
           /\ pc[q] \notin Absent
           /\ \A c \in Counters : counter[c] # None /\ CounterInv(c)
           /\ q \in dirty => page[q] # None
           /\ "accounts" \in Counters /\ "transactions" \in Counters
  BY NoneOK
  DEF BankInv, BankTypeOK, Ready, CountersInv, PresentInv, CounterInv, Counters

\* A step on one counter leaves the other as it is.
LEMMA OneCounter ==
    ASSUME BankInv, CountersInv, NEW q \in Procs,
           NEW c \in Counters, NEW d \in Counters, c # d,
           NEW here, NEW there, NEW other,
           \/ OpenCounter(q, c, here, there, other)
           \/ ReadCounter(q, c, here, there, other)
           \/ RewriteCounter(q, c, here, there),
           pc'[q] \notin Working[d] \cup Climbing[d],
           pc[q] \notin Working[d]
    PROVE  CounterMoves(d, q)
  <1>1. counter'[d] = counter[d] /\ holder'[d] = holder[d]
    BY CountersFacts DEF OpenCounter, ReadCounter, RewriteCounter, Lock, locks
  <1>2. holder[d] # q /\ CounterInv(d)
    BY CountersFacts DEF CounterInv, CounterLocal
  <1> QED
    BY <1>1, <1>2, ElsewhereMoves

\* A creation counts accounts.
LEMMA CreationCounts ==
    ASSUME BankInv, CountersInv, NEW q \in Procs, CreationStep(q)
    PROVE  CountersMove(q)
  <1>1. CASE CreationOpen(q)
    BY <1>1, CountersFacts, AsideMoves
    DEF CreationOpen, OpenAccounts, At, Goto, files, Counters, Working,
        Climbing, Absent
  <1>2. CASE CreationMake(q) \/ CreationCounterNew(q) \/ CreationCounterZero(q)
    BY <1>2, CountersFacts
    DEF CreationMake, CreationCounterNew, CreationCounterZero, CreateAccounts,
        CreateCounter, ZeroCounter, At, Absent
  <1>3. CASE CreationCounter(q) \/ CreationRead(q) \/ CreationRewrite(q)
    <2>1. /\ "c_count" \in Climbing["accounts"] \ Working["accounts"]
          /\ "c_name" \in Numbered["accounts"]
          /\ Reading["accounts"] = "c_read"
          /\ Rewriting["accounts"] = "c_rewrite"
      BY DEF Climbing, Working, Numbered, Reading, Rewriting
    <2>2. /\ CounterMoves("accounts", q) /\ UNCHANGED files
          /\ pc'[q] \in {"c_read", "c_rewrite", "c_name"}
      BY <1>3, <2>1, CountersFacts, CountingMoves
      DEF CreationCounter, CreationRead, CreationRewrite
    <2>3. pc[q] \in {"c_count", "c_read", "c_rewrite"}
      BY <1>3
      DEF CreationCounter, CreationRead, CreationRewrite, OpenCounter,
          ReadCounter, RewriteCounter, At
    <2>4. /\ pc'[q] \notin Working["transactions"] \cup Climbing["transactions"]
          /\ pc[q] \notin Working["transactions"] /\ pc'[q] \notin Absent
      BY <2>2, <2>3 DEF Working, Climbing, Absent
    <2>5. CounterMoves("transactions", q)
      BY <1>3, <2>4, CountersFacts, OneCounter
      DEF CreationCounter, CreationRead, CreationRewrite
    <2> QED
      BY <2>2, <2>4, <2>5, CountersFacts DEF CountersMove, PresentMoves, files
  <1>4. CASE TypeName(q) \/ WriteAccount(q) \/ CreationClose(q)
    <2>1. /\ UNCHANGED <<locks, number, journal>> /\ accounts' # None
          /\ pc[q] \in {"c_name", "c_write", "c_close"}
          /\ pc'[q] \in {"c_write", "c_close", "c_end"}
          /\ pc[q] = "c_close" => pc'[q] = "c_end"
          /\ pc[q] = "c_write" => pc'[q] = "c_close"
      BY <1>4, CountersFacts
      DEF TypeName, WriteAccount, CreationClose, WriteBack, At, Goto, files,
          storage
    <2>2. CounterMoves("accounts", q)
      BY <2>1, CountersFacts, NumberedMoves
      DEF locks, Working, Climbing, Rewriting, Numbered
    <2>3. CounterMoves("transactions", q)
      <3>1. holder["transactions"] # q
        BY <2>1, CountersFacts DEF CounterInv, CounterLocal, Working
      <3> QED
        BY <2>1, <3>1, CountersFacts, ElsewhereMoves
        DEF locks, Working, Climbing
    <2> QED
      BY <2>1, <2>2, <2>3, CountersFacts DEF CountersMove, PresentMoves, Absent
  <1>5. CASE CreationEnd(q)
    BY <1>5, CountersFacts, StopMoves DEF CreationEnd, files
  <1> QED
    BY <1>1, <1>2, <1>3, <1>4, <1>5 DEF CreationStep

\* A deletion and a query count nothing.
LEMMA OthersCount ==
    ASSUME BankInv, CountersInv, NEW q \in Procs,
           DeletionStep(q) \/ QueryStep(q)
    PROVE  CountersMove(q)
  <1> DEFINE Places == {"d_open", "d_make", "d_read", "d_delete", "d_close",
                        "l_open", "l_make", "l_read", "s_open", "s_make",
                        "s_read", "h_open", "h_make", "h_read"}
  <1>1. /\ UNCHANGED <<locks, journal>> /\ accounts' # None
        /\ pc[q] \in Places
        /\ StopRun(q) \/ pc'[q] \in Places \ Absent
    BY CountersFacts
    DEF DeletionStep, DeletionOpen, DeletionMake, FindAccount, DeleteAccount,
        DeletionClose, QueryStep, ListOpen, ListMake, SearchOpen, SearchMake,
        HistoryOpen, HistoryMake, ListAccounts, SearchBalance, ListHistory,
        Display, OpenAccounts, CreateAccounts, OpenTransactions,
        CreateTransactions, At, Goto, files, Absent
  <1>2. \A c \in Counters : /\ Places \cap Working[c] = {}
                            /\ Places \cap Climbing[c] = {}
    BY DEF Counters, Working, Climbing
  <1>3. CASE StopRun(q)
    BY <1>1, <1>2, <1>3, StopMoves DEF locks
  <1>4. CASE pc'[q] \in Places \ Absent
    BY <1>1, <1>2, <1>4, CountersFacts, AsideMoves
  <1> QED
    BY <1>1, <1>3, <1>4

\* A transfer counts transactions.
LEMMA TransferCounts ==
    ASSUME BankInv, CountersInv, NEW q \in Procs, TransferStep(q)
    PROVE  CountersMove(q)
  <1> DEFINE Early == {"t_open", "t_make", "t_source", "t_destination",
                       "t_debit", "t_credit", "j_open", "j_make", "t_count"}
  <1>1. CASE \/ TransferOpen(q) \/ ReadSource(q) \/ ReadDestination(q)
             \/ Debit(q) \/ Credit(q) \/ JournalOpen(q)
    <2>1. /\ UNCHANGED <<locks, files>> /\ pc[q] \in Early
          /\ StopRun(q) \/ pc'[q] \in Early \ Absent
      BY <1>1, CountersFacts
      DEF TransferOpen, ReadSource, ReadDestination, Debit, Credit,
          JournalOpen, OpenAccounts, OpenTransactions, At, Goto, Absent
    <2>2. \A c \in Counters :
            /\ Early \cap Working[c] = {}
            /\ Early \subseteq Climbing[c] \/ Early \cap Climbing[c] = {}
      BY DEF Counters, Working, Climbing
    <2>3. CASE StopRun(q)
      BY <2>1, <2>2, <2>3, CountersFacts, StopMoves DEF locks, files
    <2>4. CASE pc'[q] \in Early \ Absent
      <3> HIDE DEF Early
      <3> QED
        BY <2>1, <2>2, <2>4, CountersFacts, AsideMoves DEF files
    <2> QED
      BY <2>1, <2>3, <2>4
  <1>2. CASE \/ TransferMake(q) \/ JournalMake(q)
             \/ TransferCounterNew(q) \/ TransferCounterZero(q)
    BY <1>2, CountersFacts
    DEF TransferMake, JournalMake, TransferCounterNew, TransferCounterZero,
        CreateAccounts, CreateTransactions, CreateCounter, ZeroCounter, At,
        Absent
  <1>3. CASE TransferCounter(q) \/ TransferRead(q) \/ TransferRewrite(q)
    <2>1. /\ "t_count" \in Climbing["transactions"] \ Working["transactions"]
          /\ "t_write" \in Numbered["transactions"]
          /\ Reading["transactions"] = "t_read"
          /\ Rewriting["transactions"] = "t_rewrite"
      BY DEF Climbing, Working, Numbered, Reading, Rewriting
    <2>2. /\ CounterMoves("transactions", q) /\ UNCHANGED files
          /\ pc'[q] \in {"t_read", "t_rewrite", "t_write"}
      BY <1>3, <2>1, CountersFacts, CountingMoves
      DEF TransferCounter, TransferRead, TransferRewrite
    <2>3. pc[q] \in {"t_count", "t_read", "t_rewrite"}
      BY <1>3
      DEF TransferCounter, TransferRead, TransferRewrite, OpenCounter,
          ReadCounter, RewriteCounter, At
    <2>4. /\ pc'[q] \notin Working["accounts"] \cup Climbing["accounts"]
          /\ pc[q] \notin Working["accounts"] /\ pc'[q] \notin Absent
      BY <2>2, <2>3 DEF Working, Climbing, Absent
    <2>5. CounterMoves("accounts", q)
      BY <1>3, <2>4, CountersFacts, OneCounter
      DEF TransferCounter, TransferRead, TransferRewrite
    <2> QED
      BY <2>2, <2>4, <2>5, CountersFacts DEF CountersMove, PresentMoves, files
  <1>4. CASE WriteTransaction(q) \/ TransferClose(q) \/ JournalClose(q)
    <2>1. /\ UNCHANGED <<locks, number>> /\ accounts' # None /\ journal' # None
          /\ pc[q] \in {"t_write", "t_close", "j_close"}
          /\ pc'[q] \in {"t_close", "j_close", "t_end"}
      BY <1>4, CountersFacts
      DEF WriteTransaction, TransferClose, JournalClose, WriteBack, At, Goto,
          files, storage
    <2>2. CounterMoves("transactions", q)
      BY <2>1, CountersFacts, NumberedMoves
      DEF locks, Working, Climbing, Rewriting, Numbered
    <2>3. CounterMoves("accounts", q)
      <3>1. holder["accounts"] # q
        BY <2>1, CountersFacts DEF CounterInv, CounterLocal, Working
      <3> QED
        BY <2>1, <3>1, CountersFacts, ElsewhereMoves
        DEF locks, Working, Climbing
    <2> QED
      BY <2>1, <2>2, <2>3, CountersFacts DEF CountersMove, PresentMoves, Absent
  <1>5. CASE TransferEnd(q)
    BY <1>5, CountersFacts, StopMoves DEF TransferEnd, files
  <1> QED
    BY <1>1, <1>2, <1>3, <1>4, <1>5 DEF TransferStep

\* A program starts if its counter has room for every process.
LEMMA StartCounts ==
    ASSUME BankInv, CountersInv, NEW q \in Procs, Start(q)
    PROVE  CountersMove(q)
  <1>1. UNCHANGED <<locks, files>> /\ pc[q] = "idle"
    BY DEF Start, At
  <1>2. PICK program \in Programs :
          /\ program = "creation" => RoomLeft("accounts")
          /\ program = "transfer" => RoomLeft("transactions")
          /\ Goto(q, FirstStatement[program])
    BY DEF Start
  <1>3. program \in {"creation", "deletion", "transfer", "list", "search",
                     "history"}
    BY OpeningOK
  <1>4. /\ pc'[q] \in {"c_open", "d_open", "t_open", "l_open", "s_open",
                       "h_open"}
        /\ pc'[q] = "c_open" => RoomLeft("accounts")
        /\ pc'[q] = "t_open" => RoomLeft("transactions")
    BY <1>2, <1>3, CountersFacts DEF FirstStatement, Goto
  <1>5. \A c \in Counters :
          /\ pc[q] \notin Working[c] /\ pc'[q] \notin Working[c]
          /\ pc'[q] \in Climbing[c] => RoomLeft(c)
    BY <1>1, <1>4 DEF Counters, Working, Climbing
  <1>6. pc'[q] \notin Absent /\ accounts' # None /\ journal' # None
    BY <1>1, <1>4, CountersFacts DEF Absent, files
  <1> QED
    BY <1>1, <1>5, <1>6, AsideMoves

\* What happens to any process.
LEMMA EventsCount ==
    ASSUME BankInv, CountersInv, NEW q \in Procs, CacheStep(q) \/ Crash(q)
    PROVE  CountersMove(q)
  <1>1. CASE Crash(q)
    BY <1>1, CountersFacts, StopMoves DEF Crash, files
  <1>2. CASE CacheStep(q)
    <2>1. /\ UNCHANGED <<counter, holder, number, pc>>
          /\ accounts' # None /\ journal' # None
      BY <1>2, CountersFacts
      DEF CacheStep, FlushAccounts, DropAccounts, FlushTransactions, WriteBack,
          locks, storage, files
    <2> QED
      BY <2>1, CountersFacts, NumberedMoves DEF CountersMove, PresentMoves
  <1> QED
    BY <1>1, <1>2

\* So does every step.
LEMMA StepCounts ==
    ASSUME BankInv, CountersInv, NEW q \in Procs, Step(q)
    PROVE  CountersMove(q)
  BY CreationCounts, OthersCount, TransferCounts, StartCounts, EventsCount
  DEF Step, ProgramStep

\* Counters and locks keep their meaning.
LEMMA CountersKeep ==
    ASSUME BankInv, CountersInv, NEW q \in Procs, Step(q)
    PROVE  CountersInv'
  <1>1. CountersMove(q) /\ \A p \in Procs \ {q} : Untouched(p)
    BY StepCounts, Frame DEF BankInv
  <1>2. PresentInv'
    BY <1>1 DEF CountersMove, PresentMoves, CountersInv, PresentInv, Untouched
  <1>3. CounterInv("accounts")' /\ CounterInv("transactions")'
    BY <1>1, CountersFacts, CounterMovesKeep DEF CountersMove
  <1> QED
    BY <1>2, <1>3 DEF CountersInv

-----------------------------------------------------------------------------
(* The IDs on file.                                                        *)

\* The highest ID that may be in use: the one being given out is not yet.
Top(c) ==
    IF holder[c] # None /\ pc[holder[c]] \in Numbered[c]
    THEN counter[c] - 1 ELSE counter[c]

Within(b, c) == \A i \in Ids : b[i] # None => i \in 1..Top(c)

IdsLocal(p) ==
    /\ page[p] # None => Within(page[p], "accounts")
    /\ logPage[p] # None => Within(logPage[p], "transactions")
    /\ pc[p] = "c_write" => record[p].id = number[p]

IdsInv ==
    /\ Within(accounts, "accounts") /\ Within(journal, "transactions")
    /\ \A p \in Procs : IdsLocal(p)

\* No step takes an ID out of use by the counter.
LEMMA TopGrows ==
    ASSUME BankInv, CountersInv, NEW q \in Procs, Step(q), NEW c \in Counters
    PROVE  /\ Top(c) \in Nat \ {0} /\ Top(c)' \in Nat /\ Top(c) <= Top(c)'
           /\ Top(c)' <= counter'[c]
  <1>1. /\ CounterMoves(c, q) /\ \A p \in Procs \ {q} : Untouched(p)
        /\ CounterInv(c) /\ CounterInv(c)'
    BY StepCounts, Frame, CountersFacts, CountersKeep
    DEF BankInv, CountersMove, CountersInv, Counters
  <1>2. /\ counter[c] \in Nat \ {0} /\ counter'[c] \in Nat \ {0}
        /\ holder[c] \in Procs \cup {None} /\ q # None
    BY <1>1, BankProcsOK, CountersFacts DEF CounterInv, Ids
  <1>3. holder[c] # None /\ pc[holder[c]] \in Numbered[c] => counter[c] > 1
    BY <1>1, <1>2 DEF CounterInv, CounterLocal
  <1>4. CASE counter'[c] = counter[c] + 1
    BY <1>2, <1>3, <1>4 DEF Top
  <1>5. CASE counter'[c] = counter[c]
    <2>1. ASSUME holder'[c] # None, pc'[holder'[c]] \in Numbered[c]
          PROVE  holder[c] # None /\ pc[holder[c]] \in Numbered[c]
      <3>1. CASE holder'[c] = q
        BY <1>1, <1>2, <1>5, <2>1, <3>1 DEF CounterMoves
      <3>2. CASE holder'[c] # q
        BY <1>1, <1>2, <2>1, <3>2 DEF CounterMoves, Untouched
      <3> QED
        BY <3>1, <3>2
    <2> QED
      BY <1>2, <1>3, <1>5, <2>1 DEF Top
  <1> QED
    BY <1>1, <1>4, <1>5 DEF CounterMoves

\* A file only takes over a page: nothing is created anew.
LEMMA FilesFromPages ==
    ASSUME BankInv, CountersInv, NEW q \in Procs, Step(q)
    PROVE  /\ \/ accounts' = accounts
              \/ page[q] # None /\ accounts' = page[q]
           /\ \/ journal' = journal
              \/ logPage[q] # None /\ journal' = logPage[q]
  BY CountersFacts
  DEF Step, Start, Crash, CacheStep, FlushAccounts, DropAccounts,
      FlushTransactions, ProgramStep, CreationStep, CreationOpen,
      CreationMake, CreationCounter, CreationCounterNew,
      CreationCounterZero, CreationRead, CreationRewrite, TypeName,
      WriteAccount, CreationClose, CreationEnd, DeletionStep, DeletionOpen,
      DeletionMake, FindAccount, DeleteAccount, DeletionClose,
      TransferStep, TransferOpen, TransferMake, ReadSource,
      ReadDestination, Debit, Credit, JournalOpen, JournalMake,
      TransferCounter, TransferCounterNew, TransferCounterZero,
      TransferRead, TransferRewrite, WriteTransaction, TransferClose,
      JournalClose, TransferEnd, QueryStep, ListOpen, ListMake, SearchOpen,
      SearchMake, HistoryOpen, HistoryMake, ListAccounts, SearchBalance,
      ListHistory, Display, OpenAccounts, CreateAccounts,
      OpenTransactions, CreateTransactions, OpenCounter, CreateCounter,
      ZeroCounter, ReadCounter, RewriteCounter, WriteBack, At, files,
      Absent

\* Only a creation adds an ID to a page of accounts.
LEMMA PagesShrink ==
    ASSUME BankInv, CountersInv, NEW q \in Procs, Step(q), ~WriteAccount(q)
    PROVE  \/ page'[q] = None
           \/ \A i \in Ids : page'[q][i] # None => View(q)[i] # None
  <1>1. page \in [Procs -> Book \cup {None}] /\ number \in [Procs -> Ids]
    BY DEF BankInv, BankTypeOK
  <1>2. CASE StopRun(q)
    BY <1>1, <1>2 DEF StopRun
  <1>3. CASE UNCHANGED page \/ page'[q] = None \/ Use(q)
    BY <1>1, <1>3 DEF View, Use
  <1>4. CASE DeleteAccount(q)
    <2>1. View(q) \in Book
      BY <1>4, ViewType DEF DeleteAccount, At, UsesAccounts
    <2> QED
      BY <1>1, <1>3, <1>4, <2>1 DEF DeleteAccount, Change, Book
  <1>5. CASE (Debit(q) \/ Credit(q)) /\ ~StopRun(q)
    <2>1. View(q) \in Book /\ record[q] \in Buffer /\ peer[q] \in Buffer
      BY <1>5, ViewType
      DEF Debit, Credit, At, UsesAccounts, BankInv, BankTypeOK, Ready,
          HasRecord, HasPeer, Paying
    <2>2. \/ Use(q)
          \/ \E r \in Buffer : View(q)[r.id] # None /\ Change(q, Rewritten(q, r))
      <3>1. CASE Debit(q)
        <4>1. PICK a \in Amounts :
                /\ View(q)[record[q].id] # None
                /\ Change(q, Rewritten(q, Plus(record[q], -a)))
          BY <1>5, <3>1 DEF Debit
        <4>2. -a \in Int
          BY BankSizesOK
        <4> QED
          BY <2>1, <4>1, <4>2, PlusBuffer
      <3>2. CASE Credit(q)
        <4>1. amount[q] \in Int
          BY <3>2, AmountType
          DEF Credit, At, BankInv, Ready, Paying
        <4> QED
          BY <2>1, <3>2, <4>1, PlusBuffer DEF Credit
      <3> QED
        BY <1>5, <3>1, <3>2
    <2>3. CASE Use(q)
      BY <1>3, <2>3
    <2>4. ASSUME NEW r \in Buffer, View(q)[r.id] # None,
                 Change(q, Rewritten(q, r))
          PROVE  \A i \in Ids : page'[q][i] # None => View(q)[i] # None
      <3>1. page'[q] = [View(q) EXCEPT ![r.id] = FromBuffer(r)]
        BY <1>1, <2>4 DEF Change, Rewritten
      <3> QED
        BY <2>1, <2>4, <3>1 DEF Book
    <2> QED
      BY <2>2, <2>3, <2>4
  <1>6. \/ StopRun(q) \/ UNCHANGED page \/ page'[q] = None \/ Use(q)
        \/ DeleteAccount(q) \/ Debit(q) \/ Credit(q)
    BY <1>1
    DEF Step, Start, Crash, CacheStep, FlushAccounts, DropAccounts,
        FlushTransactions, ProgramStep, CreationStep, CreationOpen,
        CreationMake, CreationCounter, CreationCounterNew,
        CreationCounterZero, CreationRead, CreationRewrite, TypeName,
        CreationClose, CreationEnd, DeletionStep, DeletionOpen,
        DeletionMake, FindAccount, DeletionClose, TransferStep,
        TransferOpen, TransferMake, ReadSource, ReadDestination,
        JournalOpen, JournalMake, TransferCounter, TransferCounterNew,
        TransferCounterZero, TransferRead, TransferRewrite,
        WriteTransaction, TransferClose, JournalClose, TransferEnd,
        QueryStep, ListOpen, ListMake, SearchOpen, SearchMake, HistoryOpen,
        HistoryMake, ListAccounts, SearchBalance, ListHistory, Display,
        OpenAccounts, CreateAccounts, OpenTransactions,
        CreateTransactions, OpenCounter, CreateCounter, ZeroCounter,
        ReadCounter, RewriteCounter, caches
  <1> QED
    BY <1>2, <1>3, <1>4, <1>5, <1>6

\* Only WRITE puts a changed page of the journal in the cache.
LEMMA LogPagesStay ==
    ASSUME BankInv, NEW q \in Procs, Step(q), ~WriteTransaction(q)
    PROVE  logPage'[q] \in {None, logPage[q]}
  BY DEF BankInv, BankTypeOK, StopRun,
      Step, Start, Crash, CacheStep, FlushAccounts, DropAccounts,
      FlushTransactions, ProgramStep, CreationStep, CreationOpen,
      CreationMake, CreationCounter, CreationCounterNew,
      CreationCounterZero, CreationRead, CreationRewrite, TypeName,
      WriteAccount, CreationClose, CreationEnd, DeletionStep, DeletionOpen,
      DeletionMake, FindAccount, DeleteAccount, DeletionClose,
      TransferStep, TransferOpen, TransferMake, ReadSource,
      ReadDestination, Debit, Credit, JournalOpen, JournalMake,
      TransferCounter, TransferCounterNew, TransferCounterZero,
      TransferRead, TransferRewrite, TransferClose,
      JournalClose, TransferEnd, QueryStep, ListOpen, ListMake, SearchOpen,
      SearchMake, HistoryOpen, HistoryMake, ListAccounts, SearchBalance,
      ListHistory, Display, OpenAccounts, CreateAccounts,
      OpenTransactions, CreateTransactions, OpenCounter, CreateCounter,
      ZeroCounter, ReadCounter, RewriteCounter, caches

\* Only the name leads to WRITE of the account.
LEMMA NamePoints ==
    ASSUME BankInv, NEW q \in Procs, Step(q), ~CacheStep(q), ~TypeName(q)
    PROVE  pc'[q] # "c_write"
  <1> USE DEF BankInv, BankTypeOK, Goto
  <1>1. CASE StopRun(q)
    BY <1>1 DEF StopRun
  <1>2. CASE Start(q)
    <2>1. PICK program \in Programs : Goto(q, FirstStatement[program])
      BY <1>2 DEF Start
    <2>2. program \in {"creation", "deletion", "transfer", "list", "search",
                       "history"}
      BY OpeningOK
    <2>3. FirstStatement[program] \in {"c_open", "d_open", "t_open", "l_open",
                                       "s_open", "h_open"}
      BY <2>2 DEF FirstStatement
    <2> QED
      BY <2>1, <2>3
  <1>3. CASE ~StopRun(q) /\ ~Start(q)
    BY <1>3
    DEF Step, Crash, ProgramStep, CreationStep, CreationOpen, CreationMake,
        CreationCounter, CreationCounterNew, CreationCounterZero,
        CreationRead, CreationRewrite, WriteAccount, CreationClose,
        CreationEnd, DeletionStep, DeletionOpen, DeletionMake, FindAccount,
        DeleteAccount, DeletionClose, TransferStep, TransferOpen,
        TransferMake, ReadSource, ReadDestination, Debit, Credit,
        JournalOpen, JournalMake, TransferCounter, TransferCounterNew,
        TransferCounterZero, TransferRead, TransferRewrite,
        WriteTransaction, TransferClose, JournalClose, TransferEnd,
        QueryStep, ListOpen, ListMake, SearchOpen, SearchMake, HistoryOpen,
        HistoryMake, ListAccounts, SearchBalance, ListHistory, Display,
        OpenAccounts, CreateAccounts, OpenTransactions,
        CreateTransactions, OpenCounter, CreateCounter, ZeroCounter,
        ReadCounter, RewriteCounter
  <1> QED
    BY <1>1, <1>2, <1>3

\* A record is written under an ID that its counter has reached.
LEMMA WrittenId ==
    ASSUME BankInv, CountersInv, NEW q \in Procs, NEW c \in Counters,
           Step(q), UNCHANGED locks,
           pc[q] \in Numbered[c], pc'[q] \notin Numbered[c]
    PROVE  number[q] \in 1..Top(c)'
  <1>1. /\ counter[c] \in Nat \ {0} /\ counter'[c] = counter[c]
        /\ holder'[c] = holder[c] /\ q # None
        /\ IF holder[c] = q THEN number[q] = counter[c] ELSE number[q] = 1
    BY CountersFacts, BankProcsOK, Points
    DEF CounterInv, CounterLocal, Ids, locks
  <1>2. CASE holder[c] = q
    <2>1. Top(c)' = counter[c]
      BY <1>1, <1>2 DEF Top
    <2> QED
      BY <1>1, <1>2, <2>1
  <1>3. CASE holder[c] # q
    BY <1>1, <1>3, TopGrows
  <1> QED
    BY <1>2, <1>3

\* The IDs on file, in pages and in buffers keep within the counters.
LEMMA IdsKeep ==
    ASSUME BankInv, CountersInv, IdsInv, NEW q \in Procs, Step(q)
    PROVE  IdsInv'
  <1>0. /\ "accounts" \in Counters /\ "transactions" \in Counters
        /\ page \in [Procs -> Book \cup {None}] /\ journal \in Log
        /\ logPage \in [Procs -> Log \cup {None}]
        /\ pc \in [Procs -> Statements]
    BY CountersFacts DEF BankInv, BankTypeOK
  <1>1. ASSUME NEW c \in Counters, NEW b, Within(b, c)
        PROVE  \A i \in Ids : b[i] # None => i \in 1..Top(c)'
    <2>1. /\ Top(c) \in Nat /\ Top(c)' \in Nat /\ Top(c) <= Top(c)'
      BY TopGrows
    <2> QED
      BY <1>1, <2>1 DEF Within
  <1>2. Within(accounts, "accounts")' /\ Within(journal, "transactions")'
    <2>1. /\ Within(accounts', "accounts") /\ Within(journal', "transactions")
      BY FilesFromPages DEF IdsInv, IdsLocal
    <2> QED
      BY <1>0, <1>1, <2>1 DEF Within
  <1>3. page'[q] # None => Within(page[q], "accounts")'
    <2>1. Within(View(q), "accounts")
      BY DEF View, IdsInv, IdsLocal
    <2>2. CASE ~WriteAccount(q)
      BY <1>0, <1>1, <2>1, <2>2, PagesShrink DEF Within
    <2>3. CASE WriteAccount(q)
      <3>1. /\ UNCHANGED locks /\ pc[q] = "c_write" /\ pc'[q] = "c_close"
            /\ record[q].id = number[q] /\ number[q] \in Ids
            /\ View(q) \in Book
        BY <1>0, <2>3, ViewType
        DEF WriteAccount, At, Goto, IdsInv, IdsLocal, BankInv, BankTypeOK,
            UsesAccounts
      <3>2. number[q] \in 1..Top("accounts")'
        BY <1>0, <3>1, WrittenId DEF Numbered
      <3>3. \/ page'[q] = View(q)
            \/ page'[q] = [View(q) EXCEPT ![number[q]] = FromBuffer(record[q])]
        BY <1>0, <2>3, <3>1 DEF WriteAccount, Change, Use
      <3>4. \A i \in Ids : page'[q][i] # None =>
                             View(q)[i] # None \/ i = number[q]
        BY <3>1, <3>3 DEF Book
      <3> QED
        BY <1>0, <1>1, <2>1, <3>2, <3>4 DEF Within
    <2> QED
      BY <2>2, <2>3
  <1>4. logPage'[q] # None => Within(logPage[q], "transactions")'
    <2>1. CASE ~WriteTransaction(q)
      <3>1. logPage'[q] # None => Within(logPage'[q], "transactions")
        BY <2>1, LogPagesStay DEF IdsInv, IdsLocal
      <3> QED
        BY <1>0, <1>1, <3>1 DEF Within
    <2>2. CASE WriteTransaction(q)
      <3>1. /\ UNCHANGED locks /\ pc[q] = "t_write" /\ pc'[q] = "t_close"
            /\ number[q] \in Ids
        BY <1>0, <2>2 DEF WriteTransaction, At, Goto, BankInv, BankTypeOK
      <3>2. number[q] \in 1..Top("transactions")'
        BY <1>0, <3>1, WrittenId DEF Numbered
      <3>3. \/ logPage'[q] = logPage[q]
            \/ logPage'[q] = [journal EXCEPT ![number[q]] = Transaction(q)]
        BY <1>0, <2>2 DEF WriteTransaction
      <3>4. CASE logPage'[q] = logPage[q]
        <4>1. logPage'[q] # None => Within(logPage'[q], "transactions")
          BY <3>4 DEF IdsInv, IdsLocal
        <4> QED
          BY <1>0, <1>1, <4>1 DEF Within
      <3>5. CASE logPage'[q] = [journal EXCEPT ![number[q]] = Transaction(q)]
        <4>1. \A i \in Ids : logPage'[q][i] # None =>
                               journal[i] # None \/ i = number[q]
          BY <1>0, <3>1, <3>5 DEF Log
        <4> QED
          BY <1>0, <1>1, <3>2, <4>1 DEF Within, IdsInv
      <3> QED
        BY <3>3, <3>4, <3>5
    <2> QED
      BY <2>1, <2>2
  <1>5. pc'[q] = "c_write" => record'[q].id = number'[q]
    <2>1. CASE TypeName(q)
      BY <2>1 DEF TypeName, BankInv, BankTypeOK
    <2>2. CASE CacheStep(q)
      BY <2>2
      DEF CacheStep, FlushAccounts, DropAccounts, FlushTransactions, storage,
          IdsInv, IdsLocal
    <2> QED
      BY <2>1, <2>2, NamePoints
  <1>6. IdsLocal(q)'
    BY <1>3, <1>4, <1>5 DEF IdsLocal
  <1>7. ASSUME NEW p \in Procs, p # q
        PROVE  IdsLocal(p)'
    <2>1. Untouched(p)
      BY <1>7, Frame DEF BankInv
    <2>2. /\ page'[p] # None => Within(page'[p], "accounts")
          /\ logPage'[p] # None => Within(logPage'[p], "transactions")
      BY <2>1 DEF Untouched, IdsInv, IdsLocal
    <2>3. /\ page'[p] # None => Within(page[p], "accounts")'
          /\ logPage'[p] # None => Within(logPage[p], "transactions")'
      BY <1>0, <1>1, <2>2 DEF Within
    <2> QED
      BY <2>1, <2>3 DEF Untouched, IdsInv, IdsLocal
  <1> QED
    BY <1>2, <1>6, <1>7 DEF IdsInv

-----------------------------------------------------------------------------
(* The theorems.                                                           *)

NumberingInv == CountersInv /\ IdsInv

\* The invariant holds of files that have been in use, and every step keeps
\* it.
LEMMA NumberingInvariant == BankSpec => [](BankInv /\ NumberingInv)
  <1>1. ASSUME BankInit
        PROVE  NumberingInv
    <2>1. ASSUME NEW c \in Counters
          PROVE  CounterInv(c) /\ Top(c) = OpeningCounter[c]
      <3>1. /\ counter[c] = OpeningCounter[c] /\ holder[c] = None
            /\ \A p \in Procs : pc[p] = "idle" /\ p # None
        BY <1>1, <2>1, BankProcsOK DEF BankInit, NoProcess
      <3>2. Ahead(c) = {}
        BY <2>1, <3>1, Points DEF Ahead
      <3>3. counter[c] \in Ids \ {0}
        BY <2>1, <3>1, OpeningOK
      <3>4. counter[c] + Cardinality(Ahead(c)) < IdLimit
        BY <3>2, <3>3, FS_EmptySet, BankSizesOK DEF Ids
      <3> QED
        BY <2>1, <3>1, <3>3, <3>4, Points DEF CounterInv, CounterLocal, Top
    <2>2. PresentInv
      BY <1>1, OpeningOK, NoneOK DEF BankInit, NoProcess, PresentInv, Absent
    <2>3. IdsInv
      BY <1>1, <2>1, OpeningOK
      DEF BankInit, NoProcess, IdsInv, IdsLocal, Within, Counters
    <2> QED
      BY <2>1, <2>2, <2>3 DEF NumberingInv, CountersInv, Counters
  <1>2. BankInv /\ NumberingInv /\ [BankNext]_bankVars => NumberingInv'
    <2>1. CASE UNCHANGED bankVars
      BY <2>1
      DEF bankVars, files, locks, caches, storage, NumberingInv, CountersInv,
          PresentInv, CounterInv, CounterLocal, Ahead, IdsInv, IdsLocal,
          Within, Top
    <2>2. CASE BankNext
      BY <2>2, CountersKeep, IdsKeep DEF BankNext, Step, NumberingInv
    <2> QED
      BY <2>1, <2>2
  <1> QED
    BY <1>1, <1>2, BankInvariant, PTL DEF BankSpec

\* No ID in use exceeds the counter, and none equals the one given out.
LEMMA TopMeans ==
    ASSUME CountersInv, NEW c \in Counters
    PROVE  /\ counter[c] \in Nat
           /\ \A i \in 1..Top(c) : i \in 1..counter[c]
           /\ \A p \in Procs :
                holder[c] = p /\ pc[p] \in Numbered[c] =>
                  number[p] = counter[c] /\ number[p] \notin 1..Top(c)
  <1>1. CounterInv(c) /\ counter[c] \in Nat \ {0}
    BY DEF CountersInv, CounterInv, Counters, Ids
  <1>2. ASSUME NEW p \in Procs, holder[c] = p, pc[p] \in Numbered[c]
        PROVE  number[p] = counter[c] /\ Top(c) = counter[c] - 1
    BY <1>1, <1>2, BankProcsOK DEF CounterInv, CounterLocal, Top
  <1> QED
    BY <1>1, <1>2 DEF Top

\* No account on file has an ID that the counter has not reached, whatever
\* runs, is killed or is written early.
THEOREM AccountsStayBehind == BankSpec => []AccountsBehindCounter
  <1>1. NumberingInv => AccountsBehindCounter
    BY TopMeans
    DEF NumberingInv, IdsInv, Within, AccountsBehindCounter, Counters
  <1> QED
    BY <1>1, NumberingInvariant, PTL

\* A process that has the lock of a counter writes its record under an ID
\* that is not in use, whatever runs, is killed or is written early.
THEOREM FreshNumbers == BankSpec => []NumbersAreFresh
  <1>1. ASSUME BankInv, NumberingInv, NEW p \in Procs,
               pc[p] = "c_write", holder["accounts"] = p
        PROVE  View(p)[number[p]] = None
    <2>1. number[p] \notin 1..Top("accounts")
      BY <1>1, TopMeans DEF NumberingInv, Counters, Numbered
    <2>2. Within(View(p), "accounts") /\ number[p] \in Ids
      BY <1>1 DEF NumberingInv, IdsInv, IdsLocal, View, BankInv, BankTypeOK
    <2> QED
      BY <2>1, <2>2 DEF Within
  <1>2. ASSUME BankInv, NumberingInv, NEW p \in Procs,
               pc[p] = "t_write", holder["transactions"] = p
        PROVE  journal[number[p]] = None
    <2>1. number[p] \notin 1..Top("transactions")
      BY <1>2, TopMeans DEF NumberingInv, Counters, Numbered
    <2>2. Within(journal, "transactions") /\ number[p] \in Ids
      BY <1>2 DEF NumberingInv, IdsInv, BankInv, BankTypeOK
    <2> QED
      BY <2>1, <2>2 DEF Within
  <1>3. BankInv /\ NumberingInv => NumbersAreFresh
    BY <1>1, <1>2 DEF NumbersAreFresh
  <1> QED
    BY <1>3, NumberingInvariant, PTL

-----------------------------------------------------------------------------
(* A payment made under the lock is recorded.                              *)

\* Where p's payment is, once p has written it under the lock.
Recorded(p) ==
    Locked(p) =>
      /\ pc[p] \in {"t_close", "j_close"} =>
           \/ journal[number[p]] = Transaction(p)
           \/ logPage[p] # None /\ logPage[p][number[p]] = Transaction(p)
      /\ pc[p] = "t_end" =>
           journal[number[p]] = Transaction(p) /\ Transaction(p) # None

RecordedInv == JournalInv /\ \A p \in Procs : Recorded(p)

\* The steps from WRITE of the transaction to CLOSE of the journal.
LEMMA RecordSteps ==
    ASSUME BankInv, NumberingInv, RecordedInv, NEW q \in Procs,
           TransferStep(q)
    PROVE  Recorded(q)'
  <1> USE DEF At, Goto
  <1>1. /\ pc \in [Procs -> Statements] /\ number \in [Procs -> Ids]
        /\ logPage \in [Procs -> Log \cup {None}]
        /\ journal \in Log /\ journal # None
    BY NoneOK
    DEF BankInv, BankTypeOK, NumberingInv, CountersInv, PresentInv
  <1>2. CASE WriteTransaction(q)
    <2>1. /\ pc[q] = "t_write" /\ pc'[q] = "t_close"
          /\ UNCHANGED <<journal, holder, number, record, peer, amount>>
      BY <1>1, <1>2 DEF WriteTransaction, files, locks, storage
    <2>2. SUFFICES ASSUME Locked(q)
                   PROVE  /\ logPage'[q] # None
                          /\ logPage'[q][number[q]] = Transaction(q)
      BY <2>1 DEF Recorded, Locked, Transaction
    <2>3. journal[number[q]] = None
      <3>1. number[q] \notin 1..Top("transactions")
        BY <2>1, <2>2, TopMeans DEF NumberingInv, Counters, Numbered, Locked
      <3> QED
        BY <1>1, <3>1 DEF NumberingInv, IdsInv, Within
    <2>4. logPage'[q] = [journal EXCEPT ![number[q]] = Transaction(q)]
      BY <1>1, <1>2, <2>3 DEF WriteTransaction
    <2>5. Transaction(q) \in Entry
      BY <2>1, BufferType
      DEF Transaction, Entry, BankInv, BankTypeOK, Ready, HasRecord, HasPeer,
          Paying
    <2>6. logPage'[q] \in Log /\ logPage'[q][number[q]] = Transaction(q)
      BY <1>1, <2>4, <2>5 DEF Log
    <2> QED
      BY <2>6, NoneOK
  <1>3. CASE TransferClose(q)
    <2>1. /\ pc[q] = "t_close" /\ pc'[q] = "j_close"
          /\ UNCHANGED <<journal, logPage, holder, number, record, peer,
                         amount>>
      BY <1>1, <1>3 DEF TransferClose, locks, storage
    <2> QED
      BY <2>1 DEF RecordedInv, Recorded, Locked, Transaction
  <1>4. CASE JournalClose(q)
    <2>1. /\ pc[q] = "j_close" /\ pc'[q] = "t_end"
          /\ UNCHANGED <<holder, number, record, peer, amount>>
          /\ journal' = IF logPage[q] # None THEN logPage[q] ELSE journal
      BY <1>1, <1>4 DEF JournalClose, locks, storage
    <2>2. logPage[q] # None =>
            \A i \in Ids : journal[i] # None => logPage[q][i] = journal[i]
      BY DEF RecordedInv, JournalInv, JournalLocal
    <2>3. Transaction(q) # None
      BY <2>1, BufferType, NoneOK
      DEF Transaction, Entry, BankInv, BankTypeOK, Ready, HasRecord, HasPeer,
          Paying
    <2> QED
      BY <1>1, <2>1, <2>2, <2>3 DEF RecordedInv, Recorded, Locked, Transaction
  <1>5. CASE ~(WriteTransaction(q) \/ TransferClose(q) \/ JournalClose(q))
    <2>1. pc'[q] \notin {"t_close", "j_close", "t_end"}
      BY <1>1, <1>5
      DEF TransferStep, TransferOpen, TransferMake, ReadSource,
          ReadDestination, Debit, Credit, JournalOpen, JournalMake,
          TransferCounter, TransferCounterNew, TransferCounterZero,
          TransferRead, TransferRewrite, TransferEnd, OpenAccounts,
          CreateAccounts, OpenTransactions, CreateTransactions, OpenCounter,
          CreateCounter, ZeroCounter, ReadCounter, RewriteCounter, StopRun
    <2> QED
      BY <2>1 DEF Recorded
  <1> QED
    BY <1>2, <1>3, <1>4, <1>5

\* The caches, and what has nothing to do with a transfer.
LEMMA RecordKept ==
    ASSUME BankInv, RecordedInv, NEW q \in Procs, Step(q), ~TransferStep(q)
    PROVE  Recorded(q)'
  <1> USE DEF At, Goto
  <1>1. /\ pc \in [Procs -> Statements]
        /\ logPage \in [Procs -> Log \cup {None}]
    BY DEF BankInv, BankTypeOK
  <1>2. CASE FlushAccounts(q) \/ DropAccounts(q)
    BY <1>2
    DEF FlushAccounts, DropAccounts, files, locks, storage, RecordedInv,
        Recorded, Locked, Transaction
  <1>3. CASE FlushTransactions(q)
    <2>1. /\ UNCHANGED <<pc, holder, number, record, peer, amount>>
          /\ logPage[q] # None /\ journal' = logPage[q]
      BY <1>3 DEF FlushTransactions, locks, storage
    <2>2. /\ Locked(q) /\ pc[q] \in {"t_close", "j_close"}
          /\ \A i \in Ids : journal[i] # None => logPage[q][i] = journal[i]
      BY <2>1 DEF RecordedInv, JournalInv, JournalLocal
    <2>3. Transaction(q) # None /\ number[q] \in Ids
      BY <2>2, BufferType, NoneOK
      DEF Transaction, Entry, BankInv, BankTypeOK, Ready, HasRecord, HasPeer,
          Paying
    <2>4. \/ journal[number[q]] = Transaction(q)
          \/ logPage[q][number[q]] = Transaction(q)
      BY <2>2 DEF RecordedInv, Recorded
    <2>5. journal'[number'[q]] = Transaction(q)'
      BY <2>1, <2>2, <2>3, <2>4 DEF Transaction
    <2> QED
      BY <2>1, <2>2, <2>5 DEF Recorded
  <1>4. CASE ~CacheStep(q)
    <2>1. pc'[q] \notin {"t_close", "j_close", "t_end"}
      BY <1>1, <1>4, OpeningOK
      DEF Step, Start, Crash, ProgramStep, FirstStatement, CreationStep,
          CreationOpen, CreationMake, CreationCounter, CreationCounterNew,
          CreationCounterZero, CreationRead, CreationRewrite, TypeName,
          WriteAccount, CreationClose, CreationEnd, DeletionStep,
          DeletionOpen, DeletionMake, FindAccount, DeleteAccount,
          DeletionClose, QueryStep, ListOpen, ListMake, SearchOpen,
          SearchMake, HistoryOpen, HistoryMake, ListAccounts, SearchBalance,
          ListHistory, Display, OpenAccounts, CreateAccounts,
          OpenTransactions, CreateTransactions, OpenCounter, CreateCounter,
          ZeroCounter, ReadCounter, RewriteCounter, StopRun
    <2> QED
      BY <2>1 DEF Recorded
  <1> QED
    BY <1>2, <1>3, <1>4 DEF CacheStep

\* The invariant is inductive: nobody else writes the journal meanwhile.
LEMMA RecordedInvStep ==
    ASSUME BankInv, NumberingInv, RecordedInv, [BankNext]_bankVars
    PROVE  RecordedInv'
  <1>1. CASE UNCHANGED bankVars
    BY <1>1, JournalInvStep
    DEF bankVars, files, locks, caches, storage, RecordedInv, Recorded,
        Locked, Transaction
  <1>2. ASSUME NEW q \in Procs, Step(q)
        PROVE  RecordedInv'
    <2>1. /\ JournalInv'
          /\ \A i \in Ids : journal[i] # None => journal'[i] = journal[i]
      BY <1>2, JournalInvStep DEF RecordedInv, BankNext, Step
    <2>2. Recorded(q)'
      BY <1>2, RecordSteps, RecordKept
    <2>3. ASSUME NEW p \in Procs, p # q
          PROVE  Recorded(p)'
      <3>1. Untouched(p)
        BY <1>2, <2>3, Frame DEF BankInv
      <3>2. Locked(p)' => Locked(p)
        BY <1>2, <2>3, StepMoves, BankProcsOK
        DEF RecordedInv, JournalMoves, Locked
      <3>3. /\ number[p] \in Ids
            /\ pc[p] \in {"t_close", "j_close"} => Transaction(p) # None
        BY BufferType, NoneOK
        DEF Transaction, Entry, BankInv, BankTypeOK, Ready, HasRecord,
            HasPeer, Paying
      <3> QED
        BY <2>1, <3>1, <3>2, <3>3
        DEF Untouched, RecordedInv, Recorded, Transaction
    <2> QED
      BY <2>1, <2>2, <2>3 DEF RecordedInv
  <1> QED
    BY <1>1, <1>2 DEF BankNext, Step

\* A transfer that has had the lock leaves its payment in the journal, for
\* any number of processes, kills and early writes, once transaction 1 has
\* been recorded.
THEOREM TransfersAreRecorded ==
    ASSUME OpeningLog[1] # None
    PROVE  BankSpec => []TransfersRecorded
  <1>1. BankInit => RecordedInv
    BY OpeningOK, NoneOK, BankProcsOK
    DEF BankInit, NoProcess, JournalInv, JournalLocal, Locked, Recording,
        Counters, RecordedInv, Recorded
  <1>2. RecordedInv => TransfersRecorded
    BY DEF RecordedInv, Recorded, Locked, TransfersRecorded
  <1> QED
    BY <1>1, <1>2, RecordedInvStep, BankInvariant, NumberingInvariant, PTL
    DEF BankSpec
=============================================================================
