----------------------------- MODULE GameProofs -----------------------------
(***************************************************************************)
(* Proofs about Game, for every number of ports, goods and slots.          *)
(***************************************************************************)
EXTENDS Game, PortScreenProofs

-----------------------------------------------------------------------------
(* The row of prices in a save record has one cell for every port and good.*)

\* Multiplication by a natural number is monotone.
LEMMA TimesMonotone ==
    ASSUME NEW a \in Int, NEW b \in Int, NEW n \in Nat, a <= b
    PROVE  a * n <= b * n
  <1>1. PICK d \in Nat : b = a + d
    <2>1. b - a \in Nat /\ b = a + (b - a)
      OBVIOUS
    <2> QED
      BY <2>1
  <1>2. d * n \in Nat
    BY ProductNat
  <1>3. (a + d) * n = a * n + d * n
    BY SMT
  <1>4. a * n \in Int
    BY SMT
  <1> QED
    BY <1>1, <1>2, <1>3, <1>4

\* Quotient and remainder.
LEMMA DivisionIdentity ==
    ASSUME NEW a \in Nat, NEW n \in Nat \ {0}
    PROVE  (a \div n) * n + (a % n) = a
  BY SMT

\* The index of a cell lies in the row.
LEMMA PriceIndexCell ==
    ASSUME NEW i \in Ports, NEW j \in Goods
    PROVE  PriceIndex(i, j) \in Cells
  <1>1. /\ NumPorts \in Nat /\ NumGoods \in Nat
        /\ i \in 1..NumPorts /\ j \in 1..NumGoods
    BY SizesOK DEF Ports, Goods
  <1>2. (i - 1) * NumGoods \in Nat
    BY <1>1, ProductNat
  <1>3. (i - 1) * NumGoods <= (NumPorts - 1) * NumGoods
    BY <1>1, TimesMonotone
  <1>4. (NumPorts - 1) * NumGoods = NumPorts * NumGoods - NumGoods
    BY <1>1, SMT
  <1>5. NumPorts * NumGoods \in Nat
    BY <1>1, ProductNat
  <1> QED
    BY <1>1, <1>2, <1>3, <1>4, <1>5 DEF PriceIndex, Cells

\* Different cells of the grid have different indices.
LEMMA PriceIndexInjective ==
    ASSUME NEW i \in Ports, NEW j \in Goods, NEW k \in Ports, NEW m \in Goods,
           PriceIndex(i, j) = PriceIndex(k, m)
    PROVE  i = k /\ j = m
  <1>1. /\ NumGoods \in Nat
        /\ i \in Int /\ k \in Int
        /\ j \in 1..NumGoods /\ m \in 1..NumGoods
    BY SizesOK DEF Ports, Goods
  <1>2. /\ (i - 1) * NumGoods \in Int
        /\ (k - 1) * NumGoods \in Int
        /\ (i - 1) * NumGoods + j = (k - 1) * NumGoods + m
    BY <1>1, SMT DEF PriceIndex
  <1>3. ~(i < k)
    <2>1. SUFFICES ASSUME i < k PROVE FALSE
      OBVIOUS
    <2>2. i * NumGoods <= (k - 1) * NumGoods
      BY <1>1, <2>1, TimesMonotone
    <2>3. i * NumGoods = (i - 1) * NumGoods + NumGoods
      BY <1>1, SMT
    <2> QED
      BY <1>1, <1>2, <2>2, <2>3
  <1>4. ~(k < i)
    <2>1. SUFFICES ASSUME k < i PROVE FALSE
      OBVIOUS
    <2>2. k * NumGoods <= (i - 1) * NumGoods
      BY <1>1, <2>1, TimesMonotone
    <2>3. k * NumGoods = (k - 1) * NumGoods + NumGoods
      BY <1>1, SMT
    <2> QED
      BY <1>1, <1>2, <2>2, <2>3
  <1>5. i = k
    BY <1>1, <1>3, <1>4
  <1> QED
    BY <1>1, <1>2, <1>5

\* Every index of the row is that of a cell.
LEMMA PriceIndexOnto ==
    ASSUME NEW n \in Cells
    PROVE  \E c \in Ports \X Goods : PriceIndex(c[1], c[2]) = n
  <1> DEFINE u == (n - 1) \div NumGoods
             v == (n - 1) % NumGoods
  <1>1. /\ NumPorts \in Nat /\ NumGoods \in Nat \ {0}
        /\ NumPorts * NumGoods \in Nat
        /\ n \in 1..(NumPorts * NumGoods)
    BY SizesOK, ProductNat DEF Cells
  <1>2. n - 1 \in Nat /\ n - 1 < NumPorts * NumGoods
    BY <1>1
  <1>3. u \in Nat
    BY <1>1, <1>2, WholePart
  <1>4. v \in 0..(NumGoods - 1)
    BY <1>1, <1>2, ModRange
  <1>5. u * NumGoods + v = n - 1
    BY <1>1, <1>2, DivisionIdentity
  <1>6. u < NumPorts
    BY <1>1, <1>2, CapacityBound
  <1> HIDE DEF u, v
  <1>7. u + 1 \in Ports /\ v + 1 \in Goods
    BY <1>1, <1>3, <1>4, <1>6 DEF Ports, Goods
  <1>8. u * NumGoods \in Nat
    BY <1>1, <1>3, ProductNat
  <1>9. PriceIndex(u + 1, v + 1) = n
    <2>1. (u + 1) - 1 = u
      BY <1>3
    <2>2. PriceIndex(u + 1, v + 1) = u * NumGoods + (v + 1)
      BY <2>1 DEF PriceIndex
    <2> QED
      BY <1>1, <1>4, <1>5, <1>8, <2>2
  <1>10. <<u + 1, v + 1>> \in Ports \X Goods
    BY <1>7
  <1> QED
    BY <1>9, <1>10

\* The cell SAVE-GAME fills from a price is the one RESTORE-STATE reads for it.
LEMMA CellOfPrice ==
    ASSUME NEW i \in Ports, NEW j \in Goods
    PROVE  LET c == CHOOSE c \in Ports \X Goods :
                      PriceIndex(c[1], c[2]) = PriceIndex(i, j)
           IN  c[1] = i /\ c[2] = j
  <1> DEFINE c == CHOOSE c \in Ports \X Goods :
                    PriceIndex(c[1], c[2]) = PriceIndex(i, j)
  <1>1. \E d \in Ports \X Goods : PriceIndex(d[1], d[2]) = PriceIndex(i, j)
    BY PriceIndexCell, PriceIndexOnto
  <1>2. c \in Ports \X Goods /\ PriceIndex(c[1], c[2]) = PriceIndex(i, j)
    BY <1>1
  <1> HIDE DEF c
  <1>3. c[1] \in Ports /\ c[2] \in Goods
    BY <1>2
  <1>4. c[1] = i /\ c[2] = j
    BY <1>2, <1>3, PriceIndexInjective
  <1> QED
    BY <1>4 DEF c

-----------------------------------------------------------------------------
(* Save records.                                                           *)

\* SAVE-GAME makes a save record.
LEMMA SaveRecordType ==
    ASSUME NEW g \in GameStates
    PROVE  SaveRecord(g) \in Records
  <1> DEFINE cell(n) == CHOOSE c \in Ports \X Goods : PriceIndex(c[1], c[2]) = n
             row == [n \in Cells |-> g.goodsPrices[cell(n)[1]][cell(n)[2]]]
  <1>1. \A n \in Cells : cell(n) \in Ports \X Goods
    BY PriceIndexOnto
  <1>2. \A n \in Cells : cell(n)[1] \in Ports /\ cell(n)[2] \in Goods
    BY <1>1
  <1> HIDE DEF cell
  <1>3. \A i \in Ports, j \in Goods : g.goodsPrices[i][j] \in Prices
    BY DEF GameStates, Grids
  <1>4. row \in [Cells -> Prices]
    BY <1>2, <1>3
  <1>5. SaveRecord(g) = [g EXCEPT !.goodsPrices = row]
    BY DEF SaveRecord, cell
  <1> HIDE DEF row
  <1> QED
    BY <1>4, <1>5 DEF GameStates, Records

\* RESTORE-STATE makes a well-typed game of any save record.
LEMMA RestoreStateType ==
    ASSUME NEW r \in Records
    PROVE  /\ RestoreState(r) \in GameStates
           /\ RestoreState(r).status = r.status
           /\ RestoreState(r).visitedPortsCount = r.visitedPortsCount
           /\ RestoreState(r).portVisited = r.portVisited
  <1> DEFINE grid == [i \in Ports |->
                        [j \in Goods |-> r.goodsPrices[PriceIndex(i, j)]]]
  <1>1. grid \in Grids
    BY PriceIndexCell DEF Records, Grids
  <1>2. RestoreState(r) = [r EXCEPT !.goodsPrices = grid]
    BY DEF RestoreState
  <1> HIDE DEF grid
  <1> QED
    BY <1>1, <1>2 DEF Records, GameStates

\* Nothing is lost between SAVE-GAME and RESTORE-STATE.
THEOREM SaveThenRestore ==
    ASSUME NEW g \in GameStates
    PROVE  RestoreState(SaveRecord(g)) = g
  <1> DEFINE row == SaveRecord(g).goodsPrices
             grid == [i \in Ports |-> [j \in Goods |-> row[PriceIndex(i, j)]]]
  <1>1. \A i \in Ports, j \in Goods : row[PriceIndex(i, j)] = g.goodsPrices[i][j]
    <2>1. TAKE i \in Ports, j \in Goods
    <2> DEFINE n == PriceIndex(i, j)
               c == CHOOSE c \in Ports \X Goods : PriceIndex(c[1], c[2]) = n
    <2>2. n \in Cells
      BY PriceIndexCell
    <2>3. c[1] = i /\ c[2] = j
      BY CellOfPrice
    <2>4. row[n] = g.goodsPrices[c[1]][c[2]]
      BY <2>2 DEF SaveRecord, GameStates
    <2> QED
      BY <2>3, <2>4
  <1>2. SaveRecord(g) = [g EXCEPT !.goodsPrices = row]
    BY DEF SaveRecord, GameStates
  <1>3. RestoreState(SaveRecord(g)) = [SaveRecord(g) EXCEPT !.goodsPrices = grid]
    BY DEF RestoreState
  <1> HIDE DEF row
  <1>4. g.goodsPrices \in Grids
    BY DEF GameStates
  <1>5. grid = g.goodsPrices
    BY <1>1, <1>4 DEF Grids
  <1> HIDE DEF grid
  <1> QED
    BY <1>2, <1>3, <1>5 DEF GameStates

-----------------------------------------------------------------------------
(* The inductive invariant.  The game is being played at every prompt, and *)
(* still is when PORT-SCREEN returns with a choice of quit, save or load,  *)
(* so a save can only ever record a game in play; and a game loaded from a *)
(* save is again one in play.                                              *)

LeftToCaller == {0, 5, 6}

AtPrompt == pc \notin {"goback", "off"}

SavesInPlay == \A s \in Readable : InPlay(RestoreState(saves[s]))

GameInv ==
    /\ GameTypeOK
    /\ Sound(game)
    /\ AtPrompt => game.status = "PLAYING"
    /\ pc = "goback" /\ action \in LeftToCaller => game.status = "PLAYING"
    /\ pc = "destination" => action \notin LeftToCaller
    /\ SavesInPlay
    /\ EverySaveIsOffered

\* A slot that can be read holds a record.
LEMMA ReadableRecords ==
    ASSUME saves \in [Slots -> Contents]
    PROVE  \A s \in Readable : s \in Slots /\ saves[s] \in Records
  BY DEF Readable, Contents

\* A screen step that leaves the choice to the caller has not ended the game.
LEMMA ScreenStepLeaves ==
    ASSUME GameInv, ScreenStep
    PROVE  /\ pc' = "goback" /\ action' \in LeftToCaller => game'.status = "PLAYING"
           /\ pc' = "destination" => action' \notin LeftToCaller
           /\ pc' \in ScreenPoints
           /\ pc \in ScreenPoints \ {"goback"}
  <1> USE DEF GameInv, GameTypeOK, AtPrompt, LeftToCaller, ScreenPoints, Goback,
              Menu
  <1>1. ASSUME NEW q \in Quantities, Buy(q)
        PROVE  pc' = "goback" /\ pc = "buyQuantity" /\ game'.status = "PLAYING"
    <2>1. InPlay(game) /\ arg \in Goods /\ q \in Nat
      BY <1>1, QuantitiesNat DEF Buy, Quantity, InPlay
    <2> QED
      BY <1>1, <2>1, BoughtInPlay DEF Buy, Quantity, InPlay
  <1>2. ASSUME NEW q \in Quantities, Sell(q)
        PROVE  pc' = "goback" /\ pc = "sellQuantity" /\ game'.status = "PLAYING"
    <2>1. InPlay(game) /\ arg \in Goods /\ q \in Nat
      BY <1>2, QuantitiesNat DEF Sell, Quantity, InPlay
    <2> QED
      BY <1>2, <2>1, SoldInPlay DEF Sell, Quantity, InPlay
  <1>3. ASSUME NEW d \in Numbers, Sail(d)
        PROVE  /\ pc' = "goback" /\ pc = "destination"
               /\ action' \notin LeftToCaller
    BY <1>3 DEF Sail
  <1>4. CASE \/ \E q \in Quantities : Buy(q)
             \/ \E q \in Quantities : Sell(q)
             \/ \E d \in Numbers : Sail(d)
    BY <1>1, <1>2, <1>3, <1>4
  <1>5. ASSUME NEW v \in Digits, OtherChoice(v)
        PROVE  pc = "menu" /\ pc' = "goback" /\ game'.status = "PLAYING"
    BY <1>5 DEF OtherChoice
  <1>6. CASE Navigate
    BY <1>6 DEF Navigate
  <1>7. CASE NavigateRefused \/ Lose \/ Refuel \/ RefuelRefused
    BY <1>7 DEF NavigateRefused, Lose, Refuel, RefuelRefused
  <1>8. CASE AskProduct(2, "buyProduct") \/ AskProduct(3, "sellProduct")
    BY <1>8 DEF AskProduct
  <1>9. CASE \E d \in Numbers : DestinationRefused(d)
    BY <1>9 DEF DestinationRefused, screenVars
  <1>10. CASE \E k \in Numbers : BuyProduct(k) \/ SellProduct(k)
    BY <1>10 DEF BuyProduct, SellProduct, Product
  <1> QED
    BY <1>4, <1>5, <1>6, <1>7, <1>8, <1>9, <1>10 DEF ScreenStep

\* PORT-SCREEN preserves the invariant under the main program.
LEMMA PortStepInv ==
    ASSUME GameInv, PortStep
    PROVE  GameInv'
  <1>1. ScreenStep /\ UNCHANGED <<saves, occupied, slot>>
    BY DEF PortStep
  <1>2. ScreenInv
    BY <1>1, ScreenStepLeaves DEF GameInv, GameTypeOK, AtPrompt, ScreenInv,
       ScreenTypeOK, ScreenPoints
  <1>3. ScreenInv'
    BY <1>1, <1>2, ScreenStepInv
  <1>4. /\ pc' = "goback" /\ action' \in LeftToCaller => game'.status = "PLAYING"
        /\ pc' = "destination" => action' \notin LeftToCaller
        /\ pc' \in ScreenPoints
        /\ pc \in ScreenPoints
    BY <1>1, ScreenStepLeaves
  <1>5. GameTypeOK'
    BY <1>1, <1>3, <1>4 DEF GameInv, GameTypeOK, ScreenInv, ScreenTypeOK,
       GamePoints, ScreenPoints, Writing
  <1>6. SavesInPlay' /\ EverySaveIsOffered'
    BY <1>1, <1>4 DEF GameInv, SavesInPlay, EverySaveIsOffered, Readable,
       ScreenPoints
  <1> QED
    BY <1>3, <1>4, <1>5, <1>6 DEF GameInv, ScreenInv, AtPrompt, ScreenPoints

\* Going round the loop with a sound game re-establishes the invariant.
LEMMA LoopInv ==
    ASSUME NEW g, Sound(g), Loop(g),
           stdin' \in {"open", "eof"}, occupied' \in SUBSET Slots,
           saves' \in [Slots -> Contents], SavesInPlay'
    PROVE  GameInv'
  <1>1. /\ game' \in GameStates /\ Sound(game')
        /\ pc' \in {"menu", "off"}
        /\ pc' = "menu" => game'.status = "PLAYING"
        /\ action' = 0 /\ arg' = 0 /\ slot' = 0
    BY DEF Loop, Sound
  <1> QED
    BY <1>1 DEF GameInv, GameTypeOK, GamePoints, ScreenPoints, Writing, Digits,
       AtPrompt, EverySaveIsOffered, LeftToCaller

\* The files stay as they were, and so do the saves in them.
LEMMA SavesUnchanged ==
    ASSUME GameInv, UNCHANGED saves
    PROVE  SavesInPlay' /\ saves' \in [Slots -> Contents]
  BY DEF GameInv, GameTypeOK, SavesInPlay, Readable

\* Replacing one slot by damage or by the live game keeps the saves in play.
LEMMA NewContents ==
    ASSUME GameInv, NEW s \in Slots, NEW c \in Contents,
           c \in {NoFile, Torn} \/ InPlay(RestoreState(c)),
           saves' = [saves EXCEPT ![s] = c]
    PROVE  SavesInPlay' /\ saves' \in [Slots -> Contents]
  <1>1. saves \in [Slots -> Contents]
    BY DEF GameInv, GameTypeOK
  <1>2. saves' \in [Slots -> Contents]
    BY <1>1
  <1>3. ASSUME NEW t \in Slots, saves'[t] \notin {NoFile, Torn}
        PROVE  InPlay(RestoreState(saves'[t]))
    <2>1. CASE t = s
      BY <1>1, <1>3, <2>1
    <2>2. CASE t # s
      BY <1>1, <1>3, <2>2 DEF GameInv, SavesInPlay, Readable
    <2> QED
      BY <2>1, <2>2
  <1> QED
    BY <1>2, <1>3 DEF SavesInPlay, Readable

\* A new process establishes the invariant over whatever files it finds.
LEMMA StartInv ==
    ASSUME GameInv, Start
    PROVE  GameInv'
  <1>1. PICK random \in RandomGrids : game' = NewGame(random)
    BY DEF Start
  <1>2. InPlay(game')
    BY <1>1, NewGameInPlay
  <1>3. SavesInPlay' /\ saves' \in [Slots -> Contents]
    BY SavesUnchanged DEF Start
  <1>4. /\ pc' \in {"menu", "loadChoice"} /\ stdin' = "open"
        /\ UNCHANGED <<action, arg, saves, slot>> /\ pc = "off"
        /\ occupied' = Files
    BY DEF Start
  <1>5. Files' = Files /\ Files \subseteq Slots
    BY <1>4 DEF Files
  <1> QED
    BY <1>2, <1>3, <1>4, <1>5 DEF GameInv, GameTypeOK, GamePoints, ScreenPoints,
       Writing, AtPrompt, EverySaveIsOffered, InPlay, Sound

\* The load prompt preserves the invariant.
LEMMA LoadSlotInv ==
    ASSUME GameInv, NEW v \in Digits, LoadSlot(v)
    PROVE  GameInv'
  <1>1. /\ UNCHANGED <<stdin, saves, occupied>>
        /\ pc = "loadSlot"
    BY DEF LoadSlot
  <1>2. /\ SavesInPlay' /\ saves' \in [Slots -> Contents]
        /\ stdin' \in {"open", "eof"} /\ occupied' \in SUBSET Slots
    BY <1>1, SavesUnchanged DEF GameInv, GameTypeOK
  <1>3. CASE v = 0 /\ Loop(game)
    BY <1>2, <1>3, LoopInv DEF GameInv
  <1>4. CASE v \in Readable /\ Loop(RestoreState(saves[v]))
    <2>1. Sound(RestoreState(saves[v]))
      BY <1>4 DEF GameInv, SavesInPlay, InPlay
    <2> QED
      BY <1>2, <1>4, <2>1, LoopInv
  <1>5. CASE Loop(game)
    BY <1>2, <1>5, LoopInv DEF GameInv
  <1>6. CASE UNCHANGED <<game, pc, action, arg, slot>>
    BY <1>1, <1>2, <1>6 DEF GameInv, GameTypeOK, AtPrompt, EverySaveIsOffered, Files
  <1> QED
    BY <1>3, <1>4, <1>5, <1>6 DEF LoadSlot

\* The branches of the main loop on WS-ACTION.
LEMMA CallerInv ==
    ASSUME GameInv, AskQuit \/ AskSave \/ AskLoad \/ Turn
    PROVE  GameInv'
  <1>1. UNCHANGED <<stdin, saves>> /\ pc = "goback"
    BY DEF AskQuit, AskSave, AskLoad, Turn
  <1>2. Files' = Files /\ Files \subseteq Slots
    BY <1>1 DEF Files
  <1>3. /\ SavesInPlay' /\ saves' \in [Slots -> Contents]
        /\ stdin' \in {"open", "eof"} /\ occupied' \in SUBSET Slots
    BY <1>1, <1>2, SavesUnchanged
       DEF GameInv, GameTypeOK, AskQuit, AskSave, AskLoad, Turn
  <1>4. CASE Loop(game)
    BY <1>3, <1>4, LoopInv DEF GameInv
  <1>5. ASSUME pc' \in {"quitSlot", "saveSlot", "loadSlot"}, action' = 0,
               UNCHANGED <<game, arg, slot>>, action \in LeftToCaller,
               pc' = "loadSlot" => occupied' = Files
        PROVE  GameInv'
    BY <1>1, <1>2, <1>3, <1>5 DEF GameInv, GameTypeOK, GamePoints, ScreenPoints,
       Writing, Digits, AtPrompt, EverySaveIsOffered, LeftToCaller
  <1>6. CASE AskQuit \/ AskSave
    BY <1>5, <1>6 DEF AskQuit, AskSave, LeftToCaller
  <1>7. CASE AskLoad
    BY <1>4, <1>5, <1>7 DEF AskLoad, LeftToCaller
  <1>8. CASE Turn
    BY <1>4, <1>8 DEF Turn
  <1> QED
    BY <1>6, <1>7, <1>8

\* The save prompt, the open and the write preserve the invariant.
LEMMA SaveStepInv ==
    ASSUME GameInv, NEW quitting \in BOOLEAN, SaveStep(quitting)
    PROVE  GameInv'
  <1> DEFINE over == [game EXCEPT !.status = "QUIT"]
  <1>1. /\ UNCHANGED <<stdin, occupied>>
        /\ pc \in {"saveSlot", "quitSlot", "saveWrite", "quitWrite"}
    BY DEF SaveStep, CancelSave, SlotRefused, OpenFails, OpenOutput, Write,
       WriteFails, AskSlot, AtWrite
  <1>2. InPlay(game)
    BY <1>1 DEF GameInv, AtPrompt, InPlay
  <1>3. Sound(over)
    BY <1>2 DEF InPlay, Sound, GameStates, Statuses
  <1>4. /\ stdin' \in {"open", "eof"}
        /\ occupied' \in SUBSET Slots
    BY <1>1 DEF GameInv, GameTypeOK
  <1>5. ASSUME Saved(quitting), SavesInPlay', saves' \in [Slots -> Contents]
        PROVE  GameInv'
    <2>1. Loop(over) \/ Loop(game)
      BY <1>5 DEF Saved
    <2> QED
      BY <1>2, <1>3, <1>4, <1>5, <2>1, LoopInv DEF InPlay
  <1>6. CASE \/ CancelSave(quitting)
             \/ \E s \in Slots : OpenFails(s, quitting)
             \/ WriteFails(quitting)
    BY <1>5, <1>6, SavesUnchanged DEF CancelSave, OpenFails, WriteFails, AtWrite
  <1>7. ASSUME NEW v \in Digits, SlotRefused(v, quitting)
        PROVE  GameInv'
    BY <1>1, <1>7, SavesUnchanged
       DEF SlotRefused, GameInv, GameTypeOK, AtPrompt, EverySaveIsOffered
  <1>8. ASSUME NEW s \in Slots, OpenOutput(s, quitting)
        PROVE  GameInv'
    <2>1. SavesInPlay' /\ saves' \in [Slots -> Contents]
      BY <1>8, NewContents DEF OpenOutput, Contents
    <2>2. /\ pc' \in Writing /\ slot' = s
          /\ UNCHANGED <<game, action, arg>>
      BY <1>8 DEF OpenOutput, Writing
    <2> QED
      BY <1>1, <1>2, <1>4, <2>1, <2>2 DEF GameInv, GameTypeOK, GamePoints,
         ScreenPoints, Writing, AtPrompt, EverySaveIsOffered, InPlay
  <1>9. CASE Write(quitting)
    <2>1. slot \in Slots
      BY <1>9 DEF Write, AtWrite, GameInv, GameTypeOK, Writing
    <2>2. SaveRecord(game) \in Contents
      BY <1>2, SaveRecordType DEF InPlay, Sound, Contents
    <2>3. InPlay(RestoreState(SaveRecord(game)))
      BY <1>2, SaveThenRestore DEF InPlay, Sound
    <2>4. SavesInPlay' /\ saves' \in [Slots -> Contents]
      BY <1>9, <2>1, <2>2, <2>3, NewContents DEF Write
    <2> QED
      BY <1>5, <1>9, <2>4 DEF Write, AtWrite
  <1> QED
    BY <1>6, <1>7, <1>8, <1>9 DEF SaveStep

\* Crashes, removed files and the end of the input preserve the invariant.
LEMMA OutsideInv ==
    ASSUME GameInv, EndOfInput \/ Crash \/ \E s \in Slots : RemoveSave(s)
    PROVE  GameInv'
  <1>1. CASE EndOfInput
    BY <1>1, SavesUnchanged DEF EndOfInput, InputEnds, GameInv, GameTypeOK,
       AtPrompt, EverySaveIsOffered, Files
  <1>2. CASE Crash
    BY <1>2, SavesUnchanged DEF Crash, GameInv, GameTypeOK, GamePoints, Writing,
       Digits, AtPrompt, EverySaveIsOffered
  <1>3. ASSUME NEW s \in Slots, RemoveSave(s)
        PROVE  GameInv'
    <2>1. SavesInPlay' /\ saves' \in [Slots -> Contents]
      BY <1>3, NewContents DEF RemoveSave, Contents
    <2>2. Files' \subseteq Files
      BY <1>3 DEF RemoveSave, Files, GameInv, GameTypeOK
    <2> QED
      BY <1>3, <2>1, <2>2 DEF RemoveSave, GameInv, GameTypeOK, AtPrompt,
         EverySaveIsOffered
  <1> QED
    BY <1>1, <1>2, <1>3

\* GameInv holds initially and is preserved by every step.
LEMMA GameInvInductive ==
    /\ GameInit => GameInv
    /\ GameInv /\ [GameNext]_gameVars => GameInv'
  <1>1. ASSUME GameInit
        PROVE  GameInv
    <2>1. PICK random \in RandomGrids : game = NewGame(random)
      BY <1>1 DEF GameInit
    <2>2. InPlay(game)
      BY <2>1, NewGameInPlay
    <2>3. Readable = {} /\ saves \in [Slots -> Contents]
      BY <1>1 DEF GameInit, Readable, Contents
    <2> QED
      BY <1>1, <2>2, <2>3 DEF GameInit, GameInv, GameTypeOK, GamePoints, Writing,
         Digits, AtPrompt, SavesInPlay, EverySaveIsOffered, InPlay, Sound
  <1>2. ASSUME GameInv, [GameNext]_gameVars
        PROVE  GameInv'
    <2>1. CASE MainStep
      <3>1. ASSUME NEW v \in Digits, LoadChoice(v)
            PROVE  GameInv'
        BY <1>2, <3>1, SavesUnchanged DEF LoadChoice, GameInv, GameTypeOK,
           GamePoints, ScreenPoints, Writing, AtPrompt, EverySaveIsOffered, Files
      <3> QED
        BY <1>2, <2>1, <3>1, LoadSlotInv, CallerInv, SaveStepInv DEF MainStep
    <2>2. CASE UNCHANGED gameVars
      BY <1>2, <2>2, SavesUnchanged DEF gameVars, GameInv, GameTypeOK, AtPrompt,
         EverySaveIsOffered, Files
    <2> QED
      BY <1>2, <2>1, <2>2, StartInv, PortStepInv, OutsideInv DEF GameNext
  <1> QED
    BY <1>1, <1>2

-----------------------------------------------------------------------------
(* The theorems.                                                           *)

\* GameInv is an inductive invariant of the whole game, its files included.
THEOREM GameInvariant == GameSpec => []GameInv
  BY GameInvInductive, PTL DEF GameSpec

\* Processes, files and the shared data keep their types through every save,
\* load, failure and crash.
THEOREM GameTypeCorrect == GameSpec => []GameTypeOK
  <1>1. GameInv => GameTypeOK
    BY DEF GameInv
  <1> QED
    BY <1>1, GameInvariant, PTL

\* Loading never separates the count of visited ports from their flags.
THEOREM CountSurvivesLoads == GameSpec => []CountMatchesVisited
  <1>1. GameInv => CountMatchesVisited
    BY DEF GameInv, Sound, CountMatchesVisited
  <1> QED
    BY <1>1, GameInvariant, PTL

\* A game is won and lost for the reasons of PORT-SCREEN, loaded or not.
THEOREM OutcomeSurvivesLoads == GameSpec => []OutcomeJustified
  <1>1. GameInv => OutcomeJustified
    BY DEF GameInv, Sound, OutcomeJustified
  <1> QED
    BY <1>1, GameInvariant, PTL

\* Whatever record SAVE-GAME leaves on disk is a game to be played on, the one
\* written on the way out included.
THEOREM SavesCorrect == GameSpec => []SavesArePlayable
  <1>1. GameInv => SavesArePlayable
    <2>1. SUFFICES ASSUME GameInv, NEW s \in Readable
                   PROVE  /\ saves[s].status = "PLAYING"
                          /\ saves[s].visitedPortsCount
                               = Cardinality(saves[s].portVisited)
                          /\ saves[s].portVisited # Ports
      BY DEF SavesArePlayable
    <2>2. saves[s] \in Records
      BY <2>1, ReadableRecords DEF GameInv, GameTypeOK
    <2>3. InPlay(RestoreState(saves[s]))
      BY <2>1 DEF GameInv, SavesInPlay
    <2> QED
      BY <2>2, <2>3, RestoreStateType DEF InPlay, Sound
  <1> QED
    BY <1>1, GameInvariant, PTL

\* The flags ASK-LOAD-SLOT trusts never hide a file from the player.
THEOREM OffersCorrect == GameSpec => []EverySaveIsOffered
  <1>1. GameInv => EverySaveIsOffered
    BY DEF GameInv
  <1> QED
    BY <1>1, GameInvariant, PTL

-----------------------------------------------------------------------------
(* Game implements Checkpoints.                                            *)

Kept(c) == IF c \in {NoFile, Torn} THEN NoFile ELSE RestoreState(c)

\* The abstract slots, slot by slot.
LEMMA StoredIs == Stored = [s \in Slots |-> Kept(saves[s])]
  BY DEF Stored, Kept, Readable

\* Files that do not change are abstract slots that do not change.
LEMMA StoredSame ==
    ASSUME UNCHANGED saves
    PROVE  Stored' = Stored
  BY DEF Stored, Readable

\* Writing one file changes one abstract slot.
LEMMA StoredChange ==
    ASSUME saves \in [Slots -> Contents], NEW s \in Slots, NEW c,
           saves' = [saves EXCEPT ![s] = c]
    PROVE  Stored' = [Stored EXCEPT ![s] = Kept(c)]
  <1>1. Stored' = [t \in Slots |-> Kept(saves'[t])]
    BY DEF Stored, Kept, Readable
  <1>2. \A t \in Slots : saves'[t] = IF t = s THEN c ELSE saves[t]
    OBVIOUS
  <1> QED
    BY <1>1, <1>2, StoredIs

\* What Loop(g) looks like from outside: back to the game, or the end of it.
LEMMA LoopSeen ==
    ASSUME NEW g, Loop(g)
    PROVE  /\ g.status = "PLAYING" => Live' = g /\ Mode' = "playing"
           /\ g.status # "PLAYING" => Live' = NoFile /\ Mode' = "off"
  BY DEF Loop, Live, Mode, Writing

\* The abstract mode at each prompt.
LEMMA ModeOf ==
    /\ pc = "off" => Mode = "off" /\ Live = NoFile
    /\ pc # "off" => Mode # "off" /\ Live = game
    /\ pc = "loadSlot" => Mode = "loading"
    /\ pc \in {"saveSlot", "quitSlot"} \cup Writing => Mode = "saving"
    /\ pc \in ScreenPoints \cup {"loadChoice"} => Mode = "playing"
  BY DEF Mode, Live, Writing, ScreenPoints

\* The abstract mode after a step.
LEMMA ModeOfNext ==
    /\ pc' = "off" => Mode' = "off" /\ Live' = NoFile
    /\ pc' # "off" => Mode' # "off" /\ Live' = game'
    /\ pc' = "loadSlot" => Mode' = "loading"
    /\ pc' \in {"saveSlot", "quitSlot"} \cup Writing => Mode' = "saving"
    /\ pc' \in ScreenPoints \cup {"loadChoice"} => Mode' = "playing"
  BY DEF Mode, Live, Writing, ScreenPoints

AbstractStep == [Abstract!CheckpointsNext]_(Abstract!checkpointVars)

-----------------------------------------------------------------------------
\* The load prompt is an abstract load, a return to the game or a stutter.
LEMMA LoadSlotRefines ==
    ASSUME GameInv, NEW v \in Digits, LoadSlot(v)
    PROVE  AbstractStep
  <1>1. /\ Mode = "loading" /\ Live = game /\ Stored' = Stored
        /\ game.status = "PLAYING"
    BY ModeOf, StoredSame DEF LoadSlot, GameInv, AtPrompt
  <1>2. CASE Loop(game)
    <2>1. Abstract!Leave
      BY <1>1, <1>2, LoopSeen DEF Abstract!Leave, Abstract!Resume
    <2> QED
      BY <2>1 DEF AbstractStep, Abstract!CheckpointsNext
  <1>3. CASE v \in Readable /\ Loop(RestoreState(saves[v]))
    <2>1. v \in Slots /\ InPlay(RestoreState(saves[v]))
      BY <1>3 DEF GameInv, SavesInPlay, Readable
    <2>2. Stored[v] = RestoreState(saves[v])
      BY <1>3, <2>1 DEF Stored
    <2>3. Stored[v] # NoFile
      BY <2>1, <2>2, ContentsOK DEF InPlay, Sound
    <2>4. Abstract!Load(v)
      BY <1>1, <1>3, <2>1, <2>2, <2>3, LoopSeen
         DEF Abstract!Load, Abstract!Resume, InPlay
    <2> QED
      BY <2>1, <2>4 DEF AbstractStep, Abstract!CheckpointsNext
  <1>4. CASE UNCHANGED <<game, pc, action, arg, slot>>
    BY <1>1, <1>4 DEF AbstractStep, Abstract!checkpointVars, Live, Mode
  <1> QED
    BY <1>2, <1>3, <1>4 DEF LoadSlot

\* The main loop's own steps are abstract steps.
LEMMA CallerRefines ==
    ASSUME GameInv, AskQuit \/ AskSave \/ AskLoad \/ Turn
    PROVE  AbstractStep
  <1>1. Mode = "playing" /\ Live = game /\ Stored' = Stored /\ pc = "goback"
    BY ModeOf, StoredSame DEF AskQuit, AskSave, AskLoad, Turn, ScreenPoints
  <1>2. CASE Loop(game) /\ game.status = "PLAYING"
    BY <1>1, <1>2, LoopSeen DEF AbstractStep, Abstract!checkpointVars
  <1>3. CASE Loop(game) /\ game.status # "PLAYING"
    <2>1. Abstract!Stop
      BY <1>1, <1>3, LoopSeen DEF Abstract!Stop, Abstract!Resume
    <2> QED
      BY <2>1 DEF AbstractStep, Abstract!CheckpointsNext
  <1>4. CASE pc' \in {"quitSlot", "saveSlot", "loadSlot"} /\ UNCHANGED game
    <2>1. Mode' \in {"saving", "loading"} /\ Live' = Live
      BY <1>1, <1>4, ModeOfNext
    <2>2. Abstract!Ask
      BY <1>1, <2>1 DEF Abstract!Ask
    <2> QED
      BY <2>2 DEF AbstractStep, Abstract!CheckpointsNext
  <1> QED
    BY <1>2, <1>3, <1>4 DEF AskQuit, AskSave, AskLoad, Turn

\* Opening a slot damages it, and writing it saves the live game.
LEMMA SaveStepRefines ==
    ASSUME GameInv, NEW quitting \in BOOLEAN, SaveStep(quitting)
    PROVE  AbstractStep
  <1>1. pc \in {"saveSlot", "quitSlot"} \cup Writing
    BY DEF SaveStep, CancelSave, SlotRefused, OpenFails, OpenOutput, Write,
       WriteFails, AskSlot, AtWrite, Writing
  <1>2. /\ Mode = "saving" /\ Live = game
        /\ InPlay(game) /\ saves \in [Slots -> Contents]
    BY <1>1, ModeOf DEF GameInv, GameTypeOK, AtPrompt, InPlay, Writing
  <1>3. ASSUME Saved(quitting)
        PROVE  \/ Live' = Live /\ Mode' = "playing"
               \/ Live' = NoFile /\ Mode' = "off"
    <2>1. CASE quitting
      <3>1. [game EXCEPT !.status = "QUIT"].status = "QUIT"
        BY <1>2 DEF InPlay, Sound, GameStates
      <3> QED
        BY <1>3, <2>1, <3>1, LoopSeen DEF Saved
    <2>2. CASE ~quitting
      BY <1>2, <1>3, <2>2, LoopSeen DEF Saved, InPlay
    <2> QED
      BY <2>1, <2>2
  <1>4. CASE \/ CancelSave(quitting)
             \/ \E s \in Slots : OpenFails(s, quitting)
             \/ WriteFails(quitting)
    <2>1. Saved(quitting) /\ Stored' = Stored
      BY <1>4, StoredSame DEF CancelSave, OpenFails, WriteFails, AtWrite
    <2>2. Abstract!Leave \/ Abstract!Stop
      BY <1>2, <1>3, <2>1 DEF Abstract!Leave, Abstract!Stop, Abstract!Resume
    <2> QED
      BY <2>2 DEF AbstractStep, Abstract!CheckpointsNext
  <1>5. ASSUME NEW v \in Digits, SlotRefused(v, quitting)
        PROVE  AbstractStep
    <2>1. Stored' = Stored /\ Live' = Live /\ Mode' = Mode
      BY <1>5, StoredSame DEF SlotRefused, Live, Mode
    <2> QED
      BY <2>1 DEF AbstractStep, Abstract!checkpointVars
  <1>6. ASSUME NEW s \in Slots, OpenOutput(s, quitting)
        PROVE  AbstractStep
    <2>1. Stored' = [Stored EXCEPT ![s] = NoFile]
      BY <1>2, <1>6, StoredChange DEF OpenOutput, Kept
    <2>2. pc' \in Writing /\ game' = game
      BY <1>6 DEF OpenOutput, Writing
    <2>3. Live' = Live /\ Mode' = Mode
      BY <1>2, <2>2, ModeOfNext DEF Writing
    <2>4. Abstract!Damage(s)
      BY <2>1, <2>3 DEF Abstract!Damage
    <2> QED
      BY <2>4 DEF AbstractStep, Abstract!CheckpointsNext
  <1>7. CASE Write(quitting)
    <2>1. slot \in Slots
      BY <1>7 DEF Write, AtWrite, GameInv, GameTypeOK, Writing
    <2>2. game \in GameStates
      BY <1>2 DEF InPlay, Sound
    <2>3. SaveRecord(game) \notin {NoFile, Torn}
      BY <2>2, SaveRecordType, ContentsOK
    <2>4. Kept(SaveRecord(game)) = game
      BY <2>2, <2>3, SaveThenRestore DEF Kept
    <2>5. Stored' = [Stored EXCEPT ![slot] = game]
      BY <1>2, <1>7, <2>1, <2>4, StoredChange DEF Write
    <2>6. game \in OpenStates
      BY <1>2, <2>2 DEF OpenStates, InPlay
    <2>7. Abstract!Save(slot)
      BY <1>2, <1>3, <1>7, <2>5, <2>6
         DEF Abstract!Save, Abstract!Resume, Write, AtWrite
    <2> QED
      BY <2>1, <2>7 DEF AbstractStep, Abstract!CheckpointsNext
  <1> QED
    BY <1>4, <1>5, <1>6, <1>7 DEF SaveStep

\* Crashes stop the session, removed files damage a slot.
LEMMA OutsideRefines ==
    ASSUME GameInv, EndOfInput \/ Crash \/ \E s \in Slots : RemoveSave(s)
    PROVE  AbstractStep
  <1>1. CASE EndOfInput
    <2>1. Stored' = Stored /\ Live' = Live /\ Mode' = Mode
      BY <1>1, StoredSame DEF EndOfInput, InputEnds, Live, Mode
    <2> QED
      BY <2>1 DEF AbstractStep, Abstract!checkpointVars
  <1>2. CASE Crash
    <2>1. Stored' = Stored /\ Live' = NoFile /\ Mode' = "off" /\ Mode # "off"
      BY <1>2, StoredSame, ModeOf, ModeOfNext DEF Crash
    <2>2. Abstract!Stop
      BY <2>1 DEF Abstract!Stop, Abstract!Resume
    <2> QED
      BY <2>2 DEF AbstractStep, Abstract!CheckpointsNext
  <1>3. ASSUME NEW s \in Slots, RemoveSave(s)
        PROVE  AbstractStep
    <2>1. Stored' = [Stored EXCEPT ![s] = NoFile]
      BY <1>3, StoredChange DEF RemoveSave, Kept, GameInv, GameTypeOK
    <2>2. Live' = Live /\ Mode' = Mode
      BY <1>3 DEF RemoveSave, Live, Mode
    <2>3. Abstract!Damage(s)
      BY <2>1, <2>2 DEF Abstract!Damage
    <2> QED
      BY <2>3 DEF AbstractStep, Abstract!CheckpointsNext
  <1> QED
    BY <1>1, <1>2, <1>3

\* Every step of the game is an abstract step or a stutter.
LEMMA StepRefines ==
    ASSUME GameInv, GameInv', [GameNext]_gameVars
    PROVE  AbstractStep
  <1>1. CASE Start
    <2>1. PICK random \in RandomGrids : game' = NewGame(random)
      BY <1>1 DEF Start
    <2>2. /\ Mode = "off" /\ Mode' = "playing" /\ Live' = game'
          /\ Stored' = Stored
      BY <1>1, ModeOf, ModeOfNext, StoredSame DEF Start, ScreenPoints
    <2>3. Abstract!Begin
      BY <2>1, <2>2 DEF Abstract!Begin
    <2> QED
      BY <2>3 DEF AbstractStep, Abstract!CheckpointsNext
  <1>2. CASE PortStep
    <2>1. pc \in ScreenPoints /\ pc' \in ScreenPoints
      BY <1>2, ScreenStepLeaves DEF PortStep
    <2>2. /\ Mode = "playing" /\ Mode' = "playing" /\ Live' = game'
          /\ Stored' = Stored
      BY <1>2, <2>1, ModeOf, ModeOfNext, StoredSame DEF PortStep, ScreenPoints
    <2>3. game' \in GameStates
      BY DEF GameInv, GameTypeOK
    <2>4. Abstract!Play
      BY <2>2, <2>3 DEF Abstract!Play
    <2> QED
      BY <2>4 DEF AbstractStep, Abstract!CheckpointsNext
  <1>3. ASSUME NEW v \in Digits, LoadChoice(v)
        PROVE  AbstractStep
    <2>1. /\ Mode = "playing" /\ Live = game /\ Stored' = Stored
          /\ UNCHANGED game /\ pc' \in {"loadSlot", "menu"}
      BY <1>3, ModeOf, StoredSame DEF LoadChoice
    <2>2. Live' = Live /\ Mode' \in {"loading", "playing"}
      BY <2>1, ModeOfNext DEF ScreenPoints
    <2>3. Abstract!Ask \/ UNCHANGED <<Live, Stored, Mode>>
      BY <2>1, <2>2 DEF Abstract!Ask
    <2> QED
      BY <2>3 DEF AbstractStep, Abstract!CheckpointsNext, Abstract!checkpointVars
  <1>4. CASE MainStep
    BY <1>3, <1>4, LoadSlotRefines, CallerRefines, SaveStepRefines DEF MainStep
  <1>5. CASE UNCHANGED gameVars
    <2>1. Stored' = Stored /\ Live' = Live /\ Mode' = Mode
      BY <1>5, StoredSame DEF gameVars, Live, Mode
    <2> QED
      BY <2>1 DEF AbstractStep, Abstract!checkpointVars
  <1> QED
    BY <1>1, <1>2, <1>4, <1>5, OutsideRefines DEF GameNext

\* Saves and loads are checkpoints: a load returns to exactly the state that
\* was live when its slot was saved last, and between the two nothing that
\* plays, loads, quits or crashes touches the slot.
THEOREM GameImplementsCheckpoints == GameSpec => ImplementsCheckpoints
  <1>1. GameInit => Abstract!CheckpointsInit
    <2>1. SUFFICES ASSUME GameInit PROVE Abstract!CheckpointsInit
      OBVIOUS
    <2>2. Live = NoFile /\ Mode = "off"
      BY <2>1, ModeOf DEF GameInit
    <2>3. Stored = [s \in Slots |-> NoFile]
      BY <2>1 DEF GameInit, Stored, Readable
    <2> QED
      BY <2>2, <2>3 DEF Abstract!CheckpointsInit
  <1>2. GameInv /\ GameInv' /\ [GameNext]_gameVars => AbstractStep
    BY StepRefines
  <1> QED
    BY <1>1, <1>2, GameInvariant, PTL
       DEF GameSpec, ImplementsCheckpoints, Abstract!CheckpointsSpec, AbstractStep

-----------------------------------------------------------------------------
(* What is left once the input has ended.                                  *)

\* The steps from each prompt.
LEMMA StepsAt ==
    /\ StepsFrom["off"] = 0 /\ StepsFrom["quitWrite"] = 1
    /\ StepsFrom["quitSlot"] = 2 /\ StepsFrom["menu"] = 4
    /\ StepsFrom["loadChoice"] = 5 /\ StepsFrom["loadSlot"] = 5
    /\ StepsFrom["saveSlot"] = 5 /\ StepsFrom["saveWrite"] = 5
    /\ StepsFrom["goback"] = 6
    /\ StepsFrom["buyProduct"] = 7 /\ StepsFrom["buyQuantity"] = 7
    /\ StepsFrom["sellProduct"] = 7 /\ StepsFrom["sellQuantity"] = 7
    /\ StepsFrom["destination"] = 8
  BY DEF StepsFrom

\* Wherever the process is, a step back to the head of the main loop is a
\* step forward, but from the head itself and from the quit prompt.
LEMMA LoopShortens ==
    ASSUME NEW g, Loop(g),
           \/ pc \in {"loadSlot", "saveSlot", "saveWrite"}
           \/ pc = "goback" /\ action # 0
           \/ pc \in {"quitSlot", "quitWrite"} /\ g.status # "PLAYING"
    PROVE  StepsToEnd' < StepsToEnd
  BY StepsAt DEF Loop, StepsToEnd

\* PORT-SCREEN, given 0 at every prompt.
LEMMA ScreenShortens ==
    ASSUME GameInv, stdin = "eof", pc # "destination", ScreenStep
    PROVE  StepsToEnd' < StepsToEnd
  <1> USE StepsAt DEF StepsToEnd, Typed, Menu, Goback
  <1>1. ASSUME NEW v \in Digits, OtherChoice(v)
        PROVE  StepsToEnd' < StepsToEnd
    BY <1>1 DEF OtherChoice
  <1>2. ~Navigate /\ ~NavigateRefused /\ ~Lose /\ ~Refuel /\ ~RefuelRefused
        /\ ~AskProduct(2, "buyProduct") /\ ~AskProduct(3, "sellProduct")
    BY DEF Navigate, NavigateRefused, Lose, Refuel, RefuelRefused, AskProduct
  <1>3. ASSUME NEW d \in Numbers
        PROVE  ~Sail(d) /\ ~DestinationRefused(d)
    BY DEF Sail, DestinationRefused
  <1>4. ASSUME NEW k \in Numbers, BuyProduct(k) \/ SellProduct(k)
        PROVE  StepsToEnd' < StepsToEnd
    <2>1. k = 0 /\ 0 \notin Goods
      BY <1>4 DEF BuyProduct, SellProduct, Product, Goods
    <2> QED
      BY <1>4, <2>1 DEF BuyProduct, SellProduct, Product
  <1>5. ASSUME NEW q \in Quantities, Buy(q) \/ Sell(q)
        PROVE  StepsToEnd' < StepsToEnd
    BY <1>5 DEF Buy, Sell, Quantity
  <1> QED
    BY <1>1, <1>2, <1>3, <1>4, <1>5 DEF ScreenStep

\* The main program, given 0 at every prompt.
LEMMA MainShortens ==
    ASSUME GameInv, stdin = "eof", pc # "destination", MainStep
    PROVE  StepsToEnd' < StepsToEnd
  <1>1. ASSUME NEW v \in Digits, LoadChoice(v)
        PROVE  StepsToEnd' < StepsToEnd
    BY <1>1, StepsAt DEF LoadChoice, Typed, StepsToEnd
  <1>2. ASSUME NEW v \in Digits, LoadSlot(v)
        PROVE  StepsToEnd' < StepsToEnd
    BY <1>2, LoopShortens DEF LoadSlot, Typed
  <1>3. CASE AskQuit \/ AskSave
    BY <1>3, StepsAt DEF AskQuit, AskSave, StepsToEnd
  <1>4. CASE AskLoad \/ Turn
    BY <1>4, StepsAt, LoopShortens DEF AskLoad, Turn, StepsToEnd
  <1>5. ASSUME NEW quitting \in BOOLEAN, SaveStep(quitting)
        PROVE  StepsToEnd' < StepsToEnd
    <2>1. ASSUME Saved(quitting),
                 pc \in IF quitting THEN {"quitSlot", "quitWrite"}
                                    ELSE {"saveSlot", "saveWrite"}
          PROVE  StepsToEnd' < StepsToEnd
      <3>1. CASE quitting
        <4>1. [game EXCEPT !.status = "QUIT"].status # "PLAYING"
          BY DEF GameInv, GameTypeOK, GameStates
        <4> QED
          BY <2>1, <3>1, <4>1, LoopShortens DEF Saved
      <3>2. CASE ~quitting
        BY <2>1, <3>2, LoopShortens DEF Saved
      <3> QED
        BY <3>1, <3>2
    <2>2. CASE CancelSave(quitting) \/ Write(quitting) \/ WriteFails(quitting)
      BY <2>1, <2>2 DEF CancelSave, AskSlot, Write, WriteFails, AtWrite
    <2>3. ASSUME NEW v
          PROVE  ~SlotRefused(v, quitting)
      BY DEF SlotRefused, AskSlot, Typed
    <2>4. ASSUME NEW s \in Slots
          PROVE  ~OpenFails(s, quitting) /\ ~OpenOutput(s, quitting)
      BY SlotsOK DEF OpenFails, OpenOutput, AskSlot, Typed, Slots
    <2> QED
      BY <1>5, <2>2, <2>3, <2>4 DEF SaveStep
  <1> QED
    BY <1>1, <1>2, <1>3, <1>4, <1>5 DEF MainStep

\* Once the input has ended each step of a process, at any prompt but the
\* destination, brings it nearer to its end, with any files, any choice made
\* before and any failure of a write; with fairness this is why
\* EndOfInputSettles holds (game.cbl:58-89).
THEOREM EndOfInputBringsTheEnd == GameSpec => EndOfInputShortens
  <1>1. ASSUME GameInv, [GameNext]_gameVars
        PROVE  [stdin = "eof" /\ pc \notin {"off", "destination"} =>
                  /\ PortStep \/ MainStep => StepsToEnd' < StepsToEnd
                  /\ StepsToEnd' <= StepsToEnd]_gameVars
    <2> SUFFICES ASSUME GameNext, stdin = "eof", pc \notin {"off", "destination"}
                 PROVE  /\ PortStep \/ MainStep => StepsToEnd' < StepsToEnd
                        /\ StepsToEnd' <= StepsToEnd
      BY <1>1
    <2>1. PortStep \/ MainStep => StepsToEnd' < StepsToEnd
      BY <1>1, ScreenShortens, MainShortens DEF PortStep
    <2>2. StepsToEnd \in Nat /\ StepsToEnd' \in Nat
      <3>1. GameTypeOK /\ GameTypeOK'
        BY <1>1, GameInvInductive DEF GameInv
      <3> QED
        BY <3>1, StepsAt
        DEF GameTypeOK, GamePoints, ScreenPoints, StepsToEnd
    <2>3. CASE Crash
      <3>1. StepsToEnd' = 0
        BY <2>3, StepsAt DEF Crash, StepsToEnd
      <3> QED
        BY <2>1, <2>2, <3>1
    <2>4. CASE \E s \in Slots : RemoveSave(s)
      <3>1. StepsToEnd' = StepsToEnd
        BY <2>4 DEF RemoveSave, StepsToEnd
      <3> QED
        BY <2>1, <2>2, <3>1
    <2>5. ~Start /\ ~EndOfInput
      BY DEF Start, EndOfInput, InputEnds
    <2> QED
      BY <2>1, <2>2, <2>3, <2>4, <2>5 DEF GameNext
  <1> QED
    BY <1>1, GameInvariant, PTL DEF GameSpec, EndOfInputShortens
=============================================================================
