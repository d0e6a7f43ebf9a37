-------------------------- MODULE AccountCreation ---------------------------
(* ACCOUNT-CREATION: a new ID from the counter, a name, a new account.  The *)
(* counter is open, and locked, from before it is read to the end.          *)
EXTENDS BankFiles

CreationOpen(p) == OpenAccounts(p, "c_open", "c_make", "c_count")
CreationMake(p) == CreateAccounts(p, "c_make", "c_count")

CreationCounter(p) == OpenCounter(p, "accounts", "c_count", "c_new", "c_read")
CreationCounterNew(p) == CreateCounter(p, "accounts", "c_new", "c_zero")
CreationCounterZero(p) == ZeroCounter(p, "accounts", "c_zero", "c_count")

CreationRead(p) == ReadCounter(p, "accounts", "c_read", "c_rewrite", "c_name")
CreationRewrite(p) == RewriteCounter(p, "accounts", "c_rewrite", "c_name")

\* A slip to detect: the loop repeats while the name is not blank.
TypeNameAgain(p) ==
    /\ At(p, "c_name")
    /\ \E name \in Names :
         record' = [record EXCEPT
                      ![p] = [id |-> number[p], name |-> name, balance |-> 0]]
    /\ UNCHANGED <<files, locks, pc, caches, number, peer, amount>>

\* A blank name is asked for again, which changes nothing.
TypeName(p) ==
    /\ At(p, "c_name")
    /\ \E name \in Names :
         record' = [record EXCEPT
                      ![p] = [id |-> number[p], name |-> name, balance |-> 0]]
    /\ Goto(p, "c_write")
    /\ UNCHANGED <<files, locks, caches, number, peer, amount>>

\* A slip to detect: an account that has the ID already is overwritten.
WriteAccountOver(p) ==
    /\ At(p, "c_write")
    /\ Change(p, [View(p) EXCEPT ![record[p].id] = FromBuffer(record[p])])
    /\ Goto(p, "c_close")
    /\ UNCHANGED <<files, locks, logPage, storage>>

\* WRITE fails (status 22) when an account has the ID already.  RETURN-CODE
\* is 0 in either case, so the account is reported as added.
WriteAccount(p) ==
    /\ At(p, "c_write")
    /\ \/ View(p)[record[p].id] = None
          /\ Change(p, [View(p) EXCEPT ![record[p].id] = FromBuffer(record[p])])
       \/ View(p)[record[p].id] # None /\ Use(p)
    /\ Goto(p, "c_close")
    /\ UNCHANGED <<files, locks, logPage, storage>>

CreationClose(p) ==
    /\ At(p, "c_close")
    /\ WriteBack(p)
    /\ page' = [page EXCEPT ![p] = None]
    /\ Goto(p, "c_end")
    /\ UNCHANGED <<journal, locks, logPage, storage>>

\* CLOSE of the counter, STOP RUN.
CreationEnd(p) ==
    /\ At(p, "c_end")
    /\ StopRun(p)
    /\ holder' = Unlocked(p)
    /\ UNCHANGED <<files, counter>>

CreationStep(p) ==
    \/ CreationOpen(p) \/ CreationMake(p)
    \/ CreationCounter(p) \/ CreationCounterNew(p) \/ CreationCounterZero(p)
    \/ CreationRead(p) \/ CreationRewrite(p)
    \/ TypeName(p) \/ WriteAccount(p)
    \/ CreationClose(p) \/ CreationEnd(p)
=============================================================================
