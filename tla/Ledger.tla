------------------------------- MODULE Ledger -------------------------------
(***************************************************************************)
(* What the legacy bank promises a user who runs one program at a time:    *)
(* while a program runs, accounts are opened with nothing in them and      *)
(* closed, a payment moves both balances at once, and what is paid is      *)
(* recorded next, in a log that is never rewritten.                        *)
(*                                                                         *)
(* A payment made and not recorded is lost in two cases only.  Its program *)
(* is killed before it records it (Kill); or the log lost its numbering    *)
(* when a program was killed before there was any record (KillUnnumbered), *)
(* which leaves room for one, and the second payment finds it taken        *)
(* (Refuse).  The second case is not what is said of a failed WRITE        *)
(* (docs/legacy/API-TransferMoney.md:76).                                  *)
(*                                                                         *)
(* Two things are not promised: that the source can afford the payment,    *)
(* although docs/legacy/API-TransferMoney.md:58 says so; and that paying   *)
(* an account from itself leaves it as it was (Paid).                      *)
(***************************************************************************)
EXTENDS BankData

CONSTANT MayCrash    \* whether a program may be killed

VARIABLES
    book,        \* the accounts
    log,         \* the payments recorded
    due,         \* the payment made and not yet recorded, if any
    running,     \* whether a program runs
    unnumbered   \* whether the log has lost its numbering

ledgerVars == <<book, log, due, running, unnumbered>>

LedgerInit ==
    /\ book \in Book /\ log \in Log
    /\ due = None /\ running = FALSE /\ unnumbered = FALSE

\* A program is at work, and has no payment to record.
Free == running /\ due = None

Begin ==
    /\ ~running /\ running' = TRUE
    /\ UNCHANGED <<book, log, due, unnumbered>>

Stop ==
    /\ Free /\ running' = FALSE
    /\ UNCHANGED <<book, log, due, unnumbered>>

Open(i, name) ==
    /\ Free /\ book[i] = None
    /\ book' = [book EXCEPT ![i] = [name |-> name, balance |-> 0]]
    /\ UNCHANGED <<log, due, running, unnumbered>>

\* A deletion ends with CLOSE.
Close(i) ==
    /\ Free /\ book[i] # None
    /\ book' = [book EXCEPT ![i] = None]
    /\ running' = FALSE
    /\ UNCHANGED <<log, due, unnumbered>>

\* The book after a payment: both balances are the ones before it.
Paid(b, source, destination, amount) ==
    [b EXCEPT ![source] = Plus(b[source], -amount),
              ![destination] = Plus(b[destination], amount)]

Pay(source, destination, amount) ==
    /\ Free
    /\ book[source] # None /\ book[destination] # None
    /\ book' = Paid(book, source, destination, amount)
    /\ due' = [source |-> source, destination |-> destination,
               amount |-> amount]
    /\ UNCHANGED <<log, running, unnumbered>>

\* Without a numbering every payment is given number 1.
Record(t) ==
    /\ running /\ due # None
    /\ log[t] = None /\ (unnumbered => t = 1)
    /\ log' = [log EXCEPT ![t] = due]
    /\ due' = None
    /\ UNCHANGED <<book, running, unnumbered>>

Refuse ==
    /\ running /\ due # None
    /\ unnumbered /\ log[1] # None
    /\ due' = None
    /\ UNCHANGED <<book, log, running, unnumbered>>

Kill ==
    /\ MayCrash /\ running
    /\ running' = FALSE /\ due' = None
    /\ UNCHANGED <<book, log, unnumbered>>

KillUnnumbered ==
    /\ MayCrash /\ Free /\ log = EmptyLog
    /\ running' = FALSE /\ unnumbered' = TRUE
    /\ UNCHANGED <<book, log, due>>

LedgerNext ==
    \/ Begin \/ Stop
    \/ \E i \in Ids, name \in Names : Open(i, name)
    \/ \E i \in Ids : Close(i) \/ Record(i)
    \/ \E s \in Ids, d \in Ids, amount \in Amounts : Pay(s, d, amount)
    \/ Refuse \/ Kill \/ KillUnnumbered

LedgerSpec == LedgerInit /\ [][LedgerNext]_ledgerVars
=============================================================================
