-------------------------- MODULE AccountDeletion ---------------------------
(* ACCOUNT-DELETION: READ by key, then DELETE.                             *)
EXTENDS BankFiles

DeletionOpen(p) == OpenAccounts(p, "d_open", "d_make", "d_read")
DeletionMake(p) == CreateAccounts(p, "d_make", "d_read")

\* ACCEPT of the ID and READ; the run ends if there is no such account.
FindAccount(p) ==
    /\ At(p, "d_read")
    /\ \E i \in Ids :
         \/ /\ View(p)[i] # None
            /\ Use(p)
            /\ number' = [number EXCEPT ![p] = i]
            /\ Goto(p, "d_delete")
            /\ UNCHANGED <<logPage, record, peer, amount>>
         \/ View(p)[i] = None /\ StopRun(p)
    /\ UNCHANGED <<files, locks>>

DeleteAccount(p) ==
    /\ At(p, "d_delete")
    /\ \/ View(p)[number[p]] # None
          /\ Change(p, [View(p) EXCEPT ![number[p]] = None])
       \/ View(p)[number[p]] = None /\ Use(p)
    /\ Goto(p, "d_close")
    /\ UNCHANGED <<files, locks, logPage, storage>>

\* CLOSE, STOP RUN.
DeletionClose(p) ==
    /\ At(p, "d_close")
    /\ accounts' = IF p \in dirty THEN page[p] ELSE accounts
    /\ StopRun(p)
    /\ UNCHANGED <<journal, locks>>

DeletionStep(p) ==
    \/ DeletionOpen(p) \/ DeletionMake(p)
    \/ FindAccount(p) \/ DeleteAccount(p) \/ DeletionClose(p)
=============================================================================
