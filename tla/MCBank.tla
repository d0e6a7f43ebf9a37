------------------------------- MODULE MCBank -------------------------------
(* Instances of Bank for TLC.                                              *)
EXTENDS BankAudit

AllPrograms ==
    {"creation", "deletion", "transfer", "list", "search", "history"}

NoAccounts == EmptyBook
NoEntries == EmptyLog

\* Two accounts after a transfer of 1 from the first to the second.
Holder == CHOOSE name \in Names : TRUE
TwoAccounts ==
    [EmptyBook EXCEPT ![1] = [name |-> Holder, balance |-> -1],
                      ![2] = [name |-> Holder, balance |-> 1]]

\* The first has no room for another debit.
FullAndEmpty ==
    [EmptyBook EXCEPT ![1] = [name |-> Holder, balance |-> 1 - BalanceLimit],
                      ![2] = [name |-> Holder, balance |-> 0]]

\* The journal of a transfer of 1 from the first to the second.
OneEntry ==
    [EmptyLog EXCEPT ![1] = [source |-> 1, destination |-> 2, amount |-> 1]]
Used == [accounts |-> 2, transactions |-> 1]
UsedWithGap == [accounts |-> 2, transactions |-> 2]
Unused == [accounts |-> 1, transactions |-> 1]

AnyPair == Ids \X Ids
FirstToSecond == {<<1, 2>>}
DifferentPair == {order \in {1, 2} \X {1, 2} : order[1] # order[2]}
=============================================================================
