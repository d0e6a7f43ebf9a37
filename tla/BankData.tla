------------------------------ MODULE BankData ------------------------------
(***************************************************************************)
(* The records of the legacy bank (copybooks acc-rec and tran-rec) and the *)
(* arithmetic of a balance.  An account's ID, or a transaction's, is a     *)
(* number below IdLimit (PIC 9(10)); a balance is signed and keeps its     *)
(* low-order digits only (PIC S9(10)V99, no ON SIZE ERROR).                *)
(*                                                                         *)
(* An indexed file is a function from keys to records.  Timestamps are     *)
(* only displayed and are left out.                                        *)
(***************************************************************************)
EXTENDS Integers

CONSTANTS
    Names,         \* the names of account holders, blank excluded
    IdLimit,       \* 10^10 in the code
    BalanceLimit,  \* 10^12 in the code, in cents
    Amounts,       \* the amounts a user may ask to transfer
    None           \* no record, no file, nobody

Ids == 0..(IdLimit - 1)
Balances == (1 - BalanceLimit)..(BalanceLimit - 1)

Account == [name : Names, balance : Balances]
Book == [Ids -> Account \cup {None}]

\* A record of ACCOUNTS.DAT moved to working storage, and back.
Buffer == [id : Ids, name : Names, balance : Balances]
ToBuffer(b, i) == [id |-> i, name |-> b[i].name, balance |-> b[i].balance]
FromBuffer(b) == [name |-> b.name, balance |-> b.balance]

Entry == [source : Ids, destination : Ids, amount : Amounts]
Log == [Ids -> Entry \cup {None}]

ASSUME BankSizesOK ==
    /\ IdLimit \in Nat /\ IdLimit > 1
    /\ BalanceLimit \in Nat \ {0}
    /\ Amounts \subseteq 0..(BalanceLimit - 1)

ASSUME NoneOK ==
    None \notin Account \cup Buffer \cup Entry \cup Book \cup Log \cup Ids

EmptyBook == [i \in Ids |-> None]
EmptyLog == [i \in Ids |-> None]

\* What a balance field keeps of x: the sign and the low-order digits.
Stored(x) == IF x < 0 THEN -((-x) % BalanceLimit) ELSE x % BalanceLimit

\* A slip to detect: a field that holds any result.
PlusUnbounded(account, amount) ==
    [account EXCEPT !.balance = @ + amount]

\* An account with amount added to its balance.
Plus(account, amount) == [account EXCEPT !.balance = Stored(@ + amount)]

\* The ID after n in a counter.
NextId(n) == (n + 1) % IdLimit
=============================================================================
