# Formal models of Projet Bateau

Projet Bateau is a turn-based trading game in GnuCOBOL: a ship sails between five
ports, buys and sells five goods whose prices move with every voyage, and must pay
for a tank of fuel before it can sail. Games are saved in five slots on disk. Beside
the game the repository keeps the programs of an earlier exercise, a bank ("legacy"):
accounts, transfers and a journal in files that several users' programs may open at once.

This directory holds TLA+ specifications of the game and of the bank, the TLC
configurations that check them on small instances, and TLAPS proofs that the main
properties hold for every number of ports, goods, slots, accounts and processes, every
price and every field width.

## 1. Inventory

Paths are relative to the repository; `src/` is its program directory. The program is the
COBOL in it (1 212 lines with its copybooks). The C headers that make up most of the
repository (`gnu-cobol/`) belong to a vendored compiler and contain nothing of the program.

| Part | State | Operations | Talks to |
|---|---|---|---|
| Shared data (`src/copybooks/game-dat`, `port-dat`, `gds-dat`, `pric-dat`) and `src/initialisation.cbl` | money, current port, visited count, status, fuel flag, cargo; visited flags; base prices; 5 × 5 grid of prices | `INITIALISATION` sets all of it, prices from `FUNCTION RANDOM` | passed by reference to every program |
| `src/port-screen.cbl` (`PORT-SCREEN`) | `WS-ACTION`, `WS-ARG` (the caller's), the quantity and the total of a trade | one menu choice per call: navigate, buy, sell, refuel; quit, save and load are left to the caller | called by `GAME`; standard input |
| `src/game.cbl` (`GAME`), `src/copybooks/save-dat` | slot flags of the last scan, slot number, file status; `data/GAME1.DAT` … `GAME5.DAT` on disk | startup with an offer to load, main loop, quit with an offer to save, save, load | the above; the file system; standard input |
| `src/end-screen.cbl` (`END-SCREEN`) | none | displays the outcome | called by `GAME` |
| Bank: `src/account-creation.cbl` | `ACCOUNTS.DAT`, `ACCOUNTS-COUNTER.DAT` | next ID from the counter, name, new account | other processes, through the files |
| Bank: `src/account-deletion.cbl` | `ACCOUNTS.DAT` | read, delete | the same |
| Bank: `src/transfer-money.cbl` | `ACCOUNTS.DAT`, `TRANSACTIONS.DAT`, `TRANSACTIONS-COUNTER.DAT` | two reads, debit, credit, journal entry numbered by the counter | the same |
| Bank: `src/account-list.cbl`, `history-list.cbl`, `search-account-balance.cbl` | none, but they create a missing file | display | the same |
| `src/copybooks/port-rec` | – | – | no program copies it |
| Build and test scripts, JCL, `gnu-cobol/` | – | – | tooling, vendored |

What makes each part correct, and what is hard about it:

* **Shared data, PORT-SCREEN.** Sequential, but every field has a width: `COMPUTE`, `ADD`
  and `SUBTRACT` are written without `ON SIZE ERROR`, so fractions are dropped and
  high-order digits are lost. A total is computed in whole dollars (`WS-PRICE PIC 9(10)`)
  while prices have cents. The visited count is kept beside the visited flags and alone
  decides the win; the tank is tested, emptied and filled at three different places. Hard:
  long sequences of legal choices, boundaries of fields, prompts that never end.
  Correct when the count matches the flags, wins and losses have their reasons, a tank is
  paid for each arrival, and trades cost what is posted.
* **GAME.** One process at a time, but it can die at any step, and its files outlive it. A
  save empties the file before it writes the record; either step can fail. Slot flags are
  as of an earlier scan. Correct when a load brings back exactly what was saved, saves
  touch nothing else, every save is a game that can be played, and the process ends when
  its input does.
* **The bank.** Any number of processes over the same files, each a list of statements with
  a user's answers in between, each killed anywhere. A transfer reads two balances, waits
  for its user twice and writes both back; what it has read may be stale by then, in its
  buffers or in the page cache of its run time. The counters are the only files under a
  lock, and a program that is refused the lock does not notice: it runs on with the ID 1.
  Files are created on a status 35 that may be out of date. Correct when no ID is given out
  twice, no journal entry is lost, a debit has its credit, money is neither made nor lost,
  and every run ends and gives its lock back. Where the code does not keep this, section 4
  says so.

The hazards behind these words are listed, each at its line, in `PROJECT.json`.

## 2. Modules

```
GameData ── PortScreen ──┬── Voyage
                         └── Game ──(refines)── Checkpoints
PortScreenProofs ──┬── VoyageProofs ── SumTheorems
                   └── GameProofs

BankData ── BankFiles ──┬── AccountCreation ──┐
    │                   ├── AccountDeletion ──┤
    │                   ├── TransferMoney ────┼── Bank ── BankAudit
    │                   └── BankQueries ──────┘    │
    └── Ledger ◄────────────(refines)──────────────┘
BankProofs ── FileProofs ──┬── CounterProofs ── LedgerRefinement
                           └── SumTheorems

MCPortScreen, MCVoyage, MCGame, MCBank          instances for TLC
```

| Module | Models |
|---|---|
| `GameData` | the shared data as one record (`GameStates`), its field widths as capacities, `NewGame` (INITIALISATION), `FluctuatePrices`, `ComputedPrice` |
| `PortScreen` | `PORT-SCREEN`, one action per answer at a prompt; on its own, under a loop that calls it while the status is `PLAYING` |
| `Voyage` | `PortScreen` with four history variables: tanks paid less arrivals, what the ship was worth when it arrived, the purchases made since and whether their totals fitted |
| `Game` | `GAME`: startup, main loop, quit, save, load, and what happens from outside (crash, removed file, end of input); `PORT-SCREEN` runs inside it |
| `Checkpoints` | the abstract specification of saving and loading: a live state, slots, and nothing else |
| `BankData` | the records of the bank and the arithmetic of a balance |
| `BankFiles` | the four files, what a statement does to them, locks, page caches, the end or the death of a process |
| `AccountCreation`, `AccountDeletion`, `TransferMoney`, `BankQueries` | the programs, one action per statement on a file |
| `Bank` | any number of processes running them; its properties |
| `BankAudit` | what balances and the journal add up to |
| `Ledger` | the abstract specification of the bank: a book of accounts, atomic payments, a log, and the two ways a payment goes unrecorded |

### The game

* `game` is `WS-GAME-DATA`, the visited flags and the price grid. `portVisited` is the set of
  ports whose flag is 1. Money and unit prices are counted in cents, or in whichever
  fraction `Scale` makes of a dollar; totals in dollars.
* `pc` is the `ACCEPT` (or, while a save is being written, the `WRITE`) the process is at.
  An action runs from one such point to the next, since nothing else can observe or
  disturb the process in between. `"goback"` is the return of `PORT-SCREEN` to its caller;
  `"off"` is no process.
* `action` is `WS-ACTION` until the caller has used it; `arg` is `WS-ARG` while a quantity is
  asked for it (it is overwritten before any other use).
* `saves[s]` is the file of slot `s`: absent (`NoFile`), a file without a whole record
  (`Torn`), or a record with the grid flattened to a row. `occupied` is
  `WS-SLOT-OCCUPIED`. `slot` is `WS-SLOT-NUMBER` while its file is open for output.
* `stdin` becomes `"eof"` when standard input ends; then every `ACCEPT` returns at once and
  stores 0 (`Typed`).

Field arithmetic: a field of capacity `C` stores `x % C`, and divisions drop the fraction
(`GameData`). Random numbers are a choice: `FUNCTION RANDOM` returns `r / RandomSteps` for
`r` in `Draws`, a draw per cell of the grid.

Semantics taken from the COBOL run time: stores truncate as said; `ACCEPT` at the end of the
input gives a numeric field 0 (`docs/Optimisations.md` SIM-4 relies on it); `READ` of an empty
or short file does not return status `00`; `OPEN OUTPUT` creates or empties the file and may
be refused; `WRITE` may fail.

### The bank

* On disk: `accounts` and `journal` are functions from keys to records, or `None` when there
  is no such file. `counter[c]` is the last ID given out, `Empty` for a file without a
  record, `None` for no file. `holder[c]` is the process that has the file locked.
* Of each process: `pc` is the statement on a file it is about to execute (its first letter is
  the program: `c_` creation, `d_` deletion, `t_` and `j_` transfer, `l_`, `s_`, `h_`
  queries). An `ACCEPT` belongs to the statement that follows it, since nothing else sees
  the answer; only the prompt for a name, which may repeat, is a step of its own. `number` is
  `LAST-ACCOUNT-ID`, `LAST-TRANSACTION-ID` or the ID typed; `record`, `peer` and `amount`
  are the working-storage copies of the source (or new) account, the destination and
  `WS-AMOUNT`.
* Of its run time: `page` is its cached copy of `ACCOUNTS.DAT`, `dirty` the processes whose
  copy has changed, `logPage` a changed copy of `TRANSACTIONS.DAT`.

Semantics taken from the run time (marked external in the map where a definition models
nothing else):

* *Sequential files* (the counters) are locked by `OPEN I-O` and `OPEN OUTPUT`, and the
  attempt fails at once with status 61 when another process has the lock
  (`gnu-cobol/ChangeLog_libcob.txt:1701`, `gnu-cobol/NEWS.txt:678`). The programs test for 35
  only. Each file has a `FILE STATUS`, so the run goes on: `READ` fails (47) on a record area
  of zeros, the ID becomes 1, `REWRITE` fails. On an empty counter file `READ` meets the end
  (10) and the `REWRITE` that should repair it fails (43): it stays empty. `CLOSE` or the death
  of the process releases the lock.
* *Indexed files* are Berkeley DB files. Without `DB_HOME` the run time opens them without an
  environment: no locks, and a cache private to the process, written back at `CLOSE` (`COB_SYNC`
  is off, `gnu-cobol/config/runtime.cfg:335`). A file is one page. What the cache does before
  `CLOSE` depends on its size: with `Pressure` it may write a changed page or drop an
  unchanged one at any time, which includes no caching at all; without it pages stay to the
  `CLOSE`, which is what happens to files of a few records.
* `WRITE` of a key in use fails with status 22 and leaves `RETURN-CODE` 0.
* A killed process loses its pages and its locks.

Some operators are commented "a slip to detect". They are wrong variants of the definition
that follows them, used by no specification: exchanging one for the original shows that a
property notices (`PROJECT.json`, "mutants").

## 3. Runs

Passing runs, with the number of distinct states TLC finds:

| Run | Instance | What it shows |
|---|---|---|
| `stay` (3.0 M) | 3 ports, 2 goods, at most 2 purchases in a stay, total capacity 4, money capacity 8, cargo capacity 3, quantities 0, 1, 2 | under every sequence of answers `CountMatchesVisited`, `OutcomeJustified`, `TradesAtPostedPrice`, `EveryArrivalHasItsTank`; `OnlyCentsAreEarnedInPort`: however trades are split and mixed in one port, they earn at most the cents the purchases drop, unless the total of one overflows |
| `saves` (367 k) | 2 ports × 2 goods, 2 slots, fair | `SavesArePlayable`, `EverySaveIsOffered`, `ImplementsCheckpoints` with crashes, failures and removed files, on a grid that would differ transposed; the screen's invariants survive loads; `EndOfInputSettles`: a process whose input has ended ends too, unless it asks for a destination; `EndOfInputShortens`: each of its steps brings it nearer |
| `one_user` (785 k) | 1 process, all six programs, crashes, any pair of IDs, from no files and from files in use | `BankTypeOK`; `ImplementsLedger`: killed or not, a run has opened, closed or paid entirely or not at all, and what it has paid it records, but for a kill and the case of `unrecorded`; `RunsShorten`: a run repeats no statement but the `OPEN` of a counter it had to make |
| `users` (284 k) | 2 processes that transfer and delete, crashes, the first account as far below 0 as its field goes | `MoneyConserved`, `DebitThenCredit`, `JournalKept`; `TransfersRecorded`: a transfer that had the lock is in the journal when it ends |
| `pressed` (3.2 M) | 2 processes that create, delete and transfer, cache pressure | `AccountsBehindCounter`, `NumbersAreFresh` where `REWRITE` and `DELETE` fail halfway |
| `creations` (71 k) | 3 processes that create, list and search, cache pressure, crashes, fair | `AccountsKept`; `EveryRunEnds` and gives back its lock |

Runs that refute what a document says (the counterexample is the finding):

| Run | Claim | Counterexample |
|---|---|---|
| `overflow` | `docs/Features.md:18`, a purchase is checked for "money ≥ cost" | the total overflows `WS-PRICE`; only its low-order digits are checked and charged |
| `self_transfer` | `docs/legacy/LegacyFeatures.md:27`, a transfer is "between two accounts" | one ID typed twice: the credit replaces the debit and the account gains the amount |
| `empty_counter` | `docs/legacy/API-AccountCreation.md:61`, a failed write displays an error | a creation killed while it makes the counter leaves it empty for good; every later creation is ID 1 and is reported as added |
| `lost_transfer` | `docs/legacy/API-TransferMoney.md:4`, a transfer moves the amount | two transfers at once: the journal has both, the balances one |
| `overdraft` | `docs/legacy/API-TransferMoney.md:58`, "Check if source balance >= amount." | an account just opened, with nothing in it, pays another (`transfer-money.cbl:94`) |
| `unrecorded` | `docs/legacy/API-TransferMoney.md:76`, a failed write displays an error | a transfer killed while it makes the journal's counter leaves it empty for good; the first transfer after it takes transaction 1, and the `WRITE` of the second fails (`transfer-money.cbl:157`): paid, not recorded, and reported as made. One user is enough |

Bounds, and why they are enough:

* *Ports.* With two every arrival is a first visit; three, in `stay`, add revisits between first
  visits. Two are enough for what saving and loading do. *Goods.* One good tells trades apart from everything
  else; two are used where the grid's layout or a mix of goods matters.
* *Fields of the game.* Capacities are small enough that each field the properties read is
  filled and, where the code lets it, overflows.
* *Money and fuel.* Enough for two or three tanks, so that a game can be won, lost and
  rescued by a sale. *Draws* of `stay` give one good a price that differs from port to
  port, so that a price read in the wrong port shows, and the other a price in cents that
  all ports share; in `saves` one draw makes prices fall with every voyage.
* *Slots.* Two distinguish the slot written from the others. *Quantities* hold 0 (refused),
  1, and one that overflows the cargo.
* *Purchases in a stay* (`MaxPurchases`, module `Voyage` only). The history variable that counts
  them must stop somewhere; with two, the bound on what they earn is reached exactly.
* *Processes of the bank.* Two interfere with each other in every way two statements can;
  three add a process that is locked out while another waits. With three only programs that
  share the account file are run, since their combinations with transfers are proved
  (section 6).
* *IDs* (`IdLimit`, 10^10 in the code). Runs start from two accounts and a payment between
  them; `one_user` also starts from no files, `empty_counter`, `overdraft` and
  `unrecorded` only so. `RoomLeft`,
  in the guard of `Start`, is the only bound in a guard of the bank: a creation or a transfer
  starts only while the counter cannot pass `IdLimit`.
* *Balances* (`BalanceLimit`, 10^12 cents in the code). Amounts are 1; limits of 2 to 4 let a
  balance fill its field on both sides and lose its high-order digits. A payment that
  overflows one side only changes the total by `BalanceLimit`, the weight of the lost digit;
  in `users` the first debit of account 1 does, so `MoneyConserved` is stated modulo it.

`CHECK_DEADLOCK FALSE` is said in the runs of `PortScreen` and `Voyage` only, where the program
stops for good once the game is over (and where the bound on purchases may stop it). In `Game` a
new process can always start, and in `Bank` a program that needs no new ID always can; with
creations or transfers only, as in the runs that refute, TLC meets the
violation first.

## 4. Known behaviours without a run of their own

Met while modelling, each a consequence of actions in the modules:

* The proceeds of a sale wrap `WS-MONEY` once a long game is rich enough
  (`port-screen.cbl:188`); `TradesAtPostedPrice` is stated for sums that fit.
* Totals drop cents, so buying twice and selling once earns a dollar
  (`port-screen.cbl:186`); `OnlyCentsAreEarnedInPort` bounds it.
* The destination prompt refuses 0 and asks again (`port-screen.cbl:226`), against
  `docs/Features.md:46`, "option 0 at any time"; at the end of the input it never stops.
* A crash between `OPEN OUTPUT` and `WRITE` leaves a slot flagged as holding a save without
  one (`docs/api/API-Game.md:44`); a load of it goes back to the game.
* A transfer does not compare the amount with the balance (run `overdraft`), so accounts go below
  0; below the field's least value a balance wraps, which `MoneyConserved` allows for.
* A creation or a transfer that finds its counter locked takes the ID 1. `WRITE` fails because
  ID 1 is in use; the creation says that the account was added, the transfer says that it
  was made and stays out of the journal, as in `unrecorded`.
* An account deleted by another process comes back when a transfer that has read it closes
  the file; and a creation closed in between is wiped by the same `CLOSE`. No ID is given out
  again for that (`AccountsBehindCounter`).
* A program that found no `ACCOUNTS.DAT` empties it with `OPEN OUTPUT` even if another process has
  created and filled it since (`account-list.cbl:31` and its like).
* A transfer killed between the `CLOSE` of the accounts and that of the journal has paid and
  not recorded it (`Kill` in `Ledger`).

## 5. Fairness

`FairGameSpec` assumes weak fairness of `Unattended`, the steps of the process that do not wait
for a player: the calls and the file operations, and every `ACCEPT` once the input has ended,
since it then returns at once. Nothing obliges a player to type, a process to be started or the
input to end; `EndOfInputSettles` says what follows when it does.

`FairBankSpec` assumes weak fairness of `ProgramStep(p)` for each process: a started program is
executed, and its user answers its prompts, in particular types a name that is not blank in
the end. No process waits for another (locks fail at once), so nothing is assumed of
their relative speed; nothing obliges a program to be started, a cache to write early or a
process to die.

## 6. Proofs

All proofs are checked by TLAPS with the SMT, Zenon and LS4 backends. They rest on the named
assumptions on constants only. For the game: `SizesOK`, `FieldsOK`, `AmountsOK`, `InputsOK`
(positive sizes and capacities, a starting sum that fits its field, draws and quantities that
fit theirs), `StayOK` (the bound on purchases is a number), `SlotsOK` (at most nine slots, the
range of a `PIC 9(01)` answer) and `ContentsOK` (the two markers of a file without a record
are not records). For the bank: `BankSizesOK` (more than one ID, amounts that fit a balance),
`NoneOK` and `BankProcsOK` (markers are not values, finitely many processes), `OpeningOK` (the
files in use have their IDs between 1 and the counter). TLC evaluates all of them.

| Theorem | Property | Argument |
|---|---|---|
| `ScreenTypeCorrect`, `CountCorrect`, `OutcomeCorrect` (`PortScreenProofs`) | `ScreenTypeOK`, `CountMatchesVisited`, `OutcomeJustified` | the invariant `ScreenInv` |
| `TradesCorrect` (`PortScreenProofs`) | `TradesAtPostedPrice` | `ScreenInv` and the lemmas on purchases and sales |
| `TanksCorrect` (`VoyageProofs`) | `EveryArrivalHasItsTank` | `VoyageInv` |
| `StayEarnsOnlyCents` (`VoyageProofs`) | `OnlyCentsAreEarnedInPort` | `StayInv` and the lemmas of `SumTheorems` |
| `SaveThenRestore` (`GameProofs`) | – | `PriceIndex` is a bijection from the grid to the row |
| `GameTypeCorrect`, `CountSurvivesLoads`, `OutcomeSurvivesLoads`, `SavesCorrect`, `OffersCorrect` (`GameProofs`) | `GameTypeOK`, `CountMatchesVisited`, `OutcomeJustified`, `SavesArePlayable`, `EverySaveIsOffered` | the invariant `GameInv` |
| `GameImplementsCheckpoints` (`GameProofs`) | `ImplementsCheckpoints` | `GameInv` and a step-by-step simulation |
| `EndOfInputBringsTheEnd` (`GameProofs`) | `EndOfInputShortens` | `GameInv` and the measure `StepsToEnd` |
| `BankTypeCorrect` (`BankProofs`) | `BankTypeOK` | the invariant `BankInv` |
| `RunsGetShorter` (`BankProofs`) | `RunsShorten` | `BankInv` and `MadeInv`; any programs, kills and pressure, from no files or from files in use |
| `JournalKeeps` (`FileProofs`) | `JournalKept` | `JournalInv`; once transaction 1 exists |
| `AccountsKeep` (`FileProofs`) | `AccountsKept` | `AccountInv`; creations and queries only, once account 1 exists |
| `DebitsAreCredited` (`FileProofs`) | `DebitThenCredit` | `CreditInv`; without `Pressure` |
| `MoneyIsConserved` (`FileProofs`) | `MoneyConserved` | `MoneyInv` and the lemmas of `SumTheorems`; without `Pressure`, between different accounts, beside deletions or creations but not both |
| `AccountsStayBehind`, `FreshNumbers` (`CounterProofs`) | `AccountsBehindCounter`, `NumbersAreFresh` | `CountersInv` and `IdsInv`; any programs, kills and pressure |
| `TransfersAreRecorded` (`CounterProofs`) | `TransfersRecorded` | `RecordedInv`; any programs, kills and pressure, once transaction 1 exists |
| `BankImplementsLedger` (`LedgerRefinement`) | `ImplementsLedger` | `LedgerInv`, `CounterOK` and a simulation; one process, without `Pressure`, killed or not |
| `BooksReconcile` (`LedgerRefinement`) | `Reconciled` | `BooksInv`; one process, neither killed nor under `Pressure` |

*ScreenInv.* The properties are not inductive by themselves: a screen that served a menu
with the status already `LOST` could refuel and break `OutcomeJustified`, and a count
beyond the number of ports could not be typed. `ScreenInv` adds that at every prompt the
status is `PLAYING`. Then the three facts about the count (it is the cardinality of the
flags, it is at most `NumPorts`, and it reaches `NumPorts` exactly when no port is missing)
follow from the cardinality theorems, and the win is final because no prompt follows it.

*VoyageInv* adds that the destination prompt is only reached with a full tank, which is what
makes the arrival, that empties it, an arrival paid for.

*Sums.* The value of a cargo and the money on file are sums over goods and accounts
(`SumFunctionOnSet`), whose number is a parameter. `SumTheorems` proves what is needed of such a
sum: it is an integer, it depends on its terms only, and when one term changes it changes by
the same amount (`SumChange`). The definition `CHOOSE`s a fold over all subsets of the set, so the
first step is that there is one; the inductions are on strict inclusion of finite sets, which
the library proves well-founded, and need no induction theorem with an operator parameter.

*StayInv* is the type invariant, `OnlyCentsAreEarnedInPort` itself and the type of its history
variables. Prices change only on arrival, where the account starts afresh; so by `SumChange` a
trade changes the worth of the ship by its payment and by the posted price of what the hold
gains. The payment is at most a dollar less one cent below that price if the total fits
(`PurchaseEarnsCents`) and the proceeds are never above it (`SaleEarnsNothing`), whatever
overflows in the money or the hold.

*GameInv* adds the files: a save is only ever written with the status `PLAYING`, because
`PORT-SCREEN` returns a choice of quit, save or load only with a game in play, because the
destination prompt is never reached with such a choice, and because the status becomes
`QUIT` after the save and not before. Records on disk are then games in play, and a load
re-establishes the invariant. `EverySaveIsOffered` is part of it.

*The refinement of Checkpoints.* A slot that is not readable is an empty abstract slot. `OPEN
OUTPUT` is damage to the slot, `WRITE` is the save (with the end of the session when quitting),
a load of a readable slot is a load by `SaveThenRestore`, a load of a torn one goes back to
the game. Damage is also what a removed file is, so any slot may be damaged at any time, and a
save may go to any slot: the refinement says that a slot never holds anything but a game as it
was when it was saved, not that the slot is the one chosen.

*StepsToEnd* is at most 7 at every prompt but the destination. With 0 for an answer a product prompt
leads to the menu, the menu to the quit prompt and that out of the loop, because its status is `QUIT`
whatever became of the save; a load or a save that is given up leads back to the menu. A
prompt for a quantity or a slot is reached with an answer that is not 0 only, and no step reaches
the destination prompt. What is left of `EndOfInputSettles` is that such a process can always take
its next step and, by fairness, does.

*BankInv* adds to the types what a process at a statement relies on (`Ready`): the file it reads
exists, the buffers it moves hold an account, the page it has changed is there. Types alone are
not inductive, since a missing file or an unset buffer is a value too. The actions are shared
by the programs, so there is a lemma for each operation of `BankFiles` and one for each program.

*MadeInv* says that a counter's file exists between `OPEN OUTPUT` and `CLOSE`, so that the second `OPEN
I-O` finds it, which the code does not test and the model, which uses one action for both,
relies on. With it `StatementsLeft`, at most 18, goes down at every statement: no step removes a
counter file, so no other process raises it. What is left of `EveryRunEnds` is that a running process
can always take its next step and, by fairness, does.

*JournalInv* says who may hold a changed page of the journal: only the process that has the
counter's lock, from its `WRITE` to its `CLOSE`, and that page extends the file. A process
without the lock is numbered 1, and with transaction 1 on file its `WRITE` fails, so it changes
nothing. This is where the order of the two `CLOSE`s matters. *AccountInv* is the same
argument for accounts. *CreditInv* says that the page of a transfer, once it has read both
accounts, keeps them whatever others do to the file, since it is used until `CLOSE`.

*MoneyInv* says of the accounts on file, and of every page, that with what their process still
owes (the amount, between the debit and the credit) they add up to what the bank opened with,
modulo `BalanceLimit`; and that a buffer about to be rewritten is what the page holds, which is
why a payment moves exactly the amount. The second buffer stays what the page holds through
the debit only if it is another account's, hence the hypothesis on `Orders`; without it
`self_transfer` refutes the property. A cache that drops its page between the reads breaks it
too, hence no `Pressure`. A `CLOSE` may bring back a stale page, with payments undone and
accounts returned, but a balanced one. An account deleted is missing from the file for good
unless such a page returns it with what it held; a creation could not, so the two do not run
together in the theorem. The invariant was checked with TLC, for transfers and deletions, before
it was proved.

*CountersInv* gives the lock its meaning at each statement (who holds it has read the counter, has
or has not rewritten it) and bounds the counter: with the number of processes that are
still to increment it, it stays below `IdLimit`, so it never wraps to an ID in use; this
induction is over cardinalities of finite sets. *IdsInv* bounds every ID in a file or in a
page by the counter, less one while its holder has rewritten it and not yet written the
account (`Top`). Stale pages, early writes and failed deletions only bring back IDs that
are below. `FreshNumbers` follows: the number in the holder's hand is above all of them.

*RecordedInv* follows a payment from the `WRITE` on: under the lock the number is new, so the
`WRITE` succeeds and the payment is in the page or, when the cache has written it early, in
the journal; `JournalInv` says that nobody else writes the journal until the `CLOSE`, and that
the page extends it.

*The refinement of Ledger.* The abstract book and log are what is on disk; the payment due is that
of the process between its two `CLOSE`s. A changed page changes nothing abstract until its
`CLOSE`, so the proof carries in `LedgerInv` what that page will be: the book with an account
opened or closed, with the source debited, or with both balances moved. The end of a run, by a
`CLOSE`, a `STOP RUN` or a kill, discards it.

A payment due is dropped in two ways only. `Kill` ends the program with it. `Refuse` is the case of
`unrecorded`: it needs a log `Unnumbered`, that is a counter left `Empty`, and transaction 1 on file.
That nothing else drops one is `CounterOK`: the lock of the counter is the process's own
(`LockOK`); the journal has only numbers the counter has reached, and number 1 at most when it
is empty (`JournalOK`); and the number in hand at the `WRITE` is the counter's and not on file,
or 1 with an empty counter (`NumberOK`). So a transfer at its second `CLOSE` has its entry in its
page of the journal, or the counter is empty and entry 1 is there. A kill empties the counter
(`KillUnnumbered`) only while the log is empty, since a counter is made only where there was
none. With `MayCrash = FALSE` the ledger has neither kind of kill, so the theorem says that
nothing paid goes unrecorded. With kills, a run that stopped by itself before its `Record` would
look like a killed one, as it would to anybody who reads the files; `RecordedInv` and
`BooksInv` say that it does not stop there.

*BooksInv* says of one process that the lock is always its own, so that what it pays is in its page
of the journal at the first `CLOSE`; and of every account that its balance is, modulo
`BalanceLimit`, what its opening balance and the journal make of it, with the payment due
between the two `CLOSE`s. `LedgerInv` says what each `CLOSE` does. The second part must also hold of an ID
that has not been given out, for which the journal must make 0: an account opened under
it would otherwise start with a debt. It is not true of an ID whose account is deleted, and
`IdsInv` says that such an ID does not come back. A transfer from an account to itself is
covered, since `Effect` books it as the program does. The property fails with two processes
(`lost_transfer`) and with one that is killed (the payment due is forgotten), which TLC shows
when `LostTransfer.cfg` is given one process and `MayCrash = TRUE`; with `FALSE` it
holds there.

Not proved: `EndOfInputSettles` and `EveryRunEnds` are liveness, out of the prover's reach
(`EndOfInputBringsTheEnd` and `RunsGetShorter` are the parts that are not). They stay with TLC, as do
the refuted claims.

## 7. Not modelled

`END-SCREEN` (displays only). Names, descriptions, notifications, screens. What a player types
that is not a number. Two `GAME` processes at once over the same slots: the game is played by
one person at one terminal and nothing in the repository starts two. A disk that reports
success and loses data. Seeding of `FUNCTION RANDOM`.

Of the bank: timestamps and what the queries display (`HISTORY-LIST` shows all transactions).
Indexed files of several pages, where a process could be killed, or read, between the
writes of two pages; one page is enough for what a user of this exercise stores. The end of
the input at the prompt for a name, where a creation repeats without end with its counter
locked: `FairBankSpec` assumes that users answer.

`copybooks/port-rec` is not used by a program. Scripts, JCL and the vendored `gnu-cobol/` are
tooling; what its run time does to a file appears in the models as the semantics of a statement.

## 8. Plan

Done, in this order: `GameData`, `PortScreen`, `Voyage`, `Checkpoints`, `Game` and their proofs;
`BankFiles`, the programs of the bank, `Ledger`, `Bank`, `BankAudit` and their proofs. Next:

1. `DebitsAreCredited` and the refinement of `Ledger` under `Pressure`, with the weaker ledger
   that early writes leave.
2. Indexed files of two pages.
