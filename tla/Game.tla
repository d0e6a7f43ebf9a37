-------------------------------- MODULE Game --------------------------------
(***************************************************************************)
(* GAME, the main program: one process of it starts a new game or loads a  *)
(* saved one, calls PORT-SCREEN as long as the game is being played, and   *)
(* serves the choices PORT-SCREEN leaves to it: quit, save and load.       *)
(*                                                                         *)
(* The save files outlive the process.  A save is two steps, OPEN OUTPUT   *)
(* (which empties the file) and WRITE, and the process may die between     *)
(* them, the first may be refused and the second may fail.  A file is      *)
(* absent (NoFile), opens but yields no whole record (Torn), or holds a    *)
(* record.                                                                 *)
(***************************************************************************)
EXTENDS PortScreen

CONSTANTS
    NumSlots,      \* data/GAME1.DAT to data/GAME<NumSlots>.DAT
    NoFile, Torn   \* the two contents of a slot that are not a record

Slots == 1..NumSlots

ASSUME SlotsOK == NumSlots \in 1..9

VARIABLES
    saves,     \* what is on disk: [Slots -> Contents]
    occupied,  \* the slots WS-SLOT-OCCUPIED flags, as of the last scan
    slot       \* WS-SLOT-NUMBER while its file is being written, else 0

gameVars == <<game, pc, action, arg, stdin, saves, occupied, slot>>

GamePoints ==
    (ScreenPoints \cup
     {"off", "loadChoice", "loadSlot", "saveSlot", "quitSlot",
      "saveWrite", "quitWrite"})

Writing == {"saveWrite", "quitWrite"}

-----------------------------------------------------------------------------
(* A save record holds the price grid as one row, port after port.         *)

Cells == 1..(NumPorts * NumGoods)

PriceIndex(i, j) == (i - 1) * NumGoods + j

\* The shape of a save record: the shared data, its prices in a row.
Records ==
    [ money             : 0..(MoneyCap - 1),
      currentPort       : Ports,
      visitedPortsCount : 0..NumPorts,
      status            : Statuses,
      fuelFlag          : {0, 1},
      cargoQuantity     : [Goods -> 0..(CargoCap - 1)],
      portVisited       : SUBSET Ports,
      goodsPrices       : [Cells -> Prices] ]

ASSUME ContentsOK ==
    /\ NoFile \notin Records \cup GameStates
    /\ Torn \notin Records
    /\ NoFile # Torn

Contents == Records \cup {NoFile, Torn}

\* A slip to detect: the row written good after good, read port after port.
SaveRecordTransposed(g) ==
    [ g EXCEPT !.goodsPrices =
        [n \in Cells |->
            LET c == CHOOSE c \in Ports \X Goods : (c[2] - 1) * NumPorts + c[1] = n
            IN  g.goodsPrices[c[1]][c[2]]] ]

\* The moves of SAVE-GAME.  A cell of the row takes the price whose index it
\* is.
SaveRecord(g) ==
    [ g EXCEPT !.goodsPrices =
        [n \in Cells |->
            LET c == CHOOSE c \in Ports \X Goods : PriceIndex(c[1], c[2]) = n
            IN  g.goodsPrices[c[1]][c[2]]] ]

\* A slip to detect: the visited flags are not restored.
RestoreStateKeepingFlags(r) ==
    [ r EXCEPT !.portVisited = game.portVisited,
               !.goodsPrices =
        [i \in Ports |-> [j \in Goods |-> r.goodsPrices[PriceIndex(i, j)]]] ]

\* The moves of RESTORE-STATE: all of the shared data is overwritten.
RestoreState(r) ==
    [ r EXCEPT !.goodsPrices =
        [i \in Ports |-> [j \in Goods |-> r.goodsPrices[PriceIndex(i, j)]]] ]

Files == {s \in Slots : saves[s] # NoFile}            \* OPEN INPUT succeeds
Readable == {s \in Slots : saves[s] \notin {NoFile, Torn}}   \* so does READ

-----------------------------------------------------------------------------
(* Where the main loop goes with the state g: around, or out of the loop   *)
(* to the end screen and STOP RUN.                                         *)

Loop(g) ==
    /\ game' = g
    /\ pc' = IF g.status = "PLAYING" THEN "menu" ELSE "off"
    /\ action' = 0
    /\ arg' = 0
    /\ slot' = 0

\* A new process: INITIALISATION, the scan of the slots, and the question
\* whether to load if the scan found any.
Start ==
    /\ pc = "off"
    /\ \E random \in RandomGrids : game' = NewGame(random)
    /\ occupied' = Files
    /\ pc' = IF Files = {} THEN "menu" ELSE "loadChoice"
    /\ stdin' = "open"
    /\ UNCHANGED <<action, arg, saves, slot>>

LoadChoice(v) ==
    /\ pc = "loadChoice"
    /\ Typed(v)
    /\ pc' = IF v = 1 THEN "loadSlot" ELSE "menu"
    /\ UNCHANGED <<game, action, arg, stdin, saves, occupied, slot>>

\* ASK-LOAD-SLOT and LOAD-GAME.  The flags of the last scan decide which
\* slots are accepted; the file itself decides what is loaded.
LoadSlot(v) ==
    /\ pc = "loadSlot"
    /\ Typed(v)
    /\ \/ /\ v = 0
          /\ Loop(game)
       \/ /\ v \in occupied
          /\ Loop(IF v \in Readable THEN RestoreState(saves[v]) ELSE game)
       \/ /\ v \notin {0} \cup occupied
          /\ UNCHANGED <<game, pc, action, arg, slot>>
    /\ UNCHANGED <<stdin, saves, occupied>>

-----------------------------------------------------------------------------
(* The turn PORT-SCREEN came back from, by its WS-ACTION.                  *)

\* A slip to detect: the status is QUIT before the save.
AskQuitFirst ==
    /\ pc = "goback"
    /\ action = 0
    /\ pc' = "quitSlot"
    /\ game' = [game EXCEPT !.status = "QUIT"]
    /\ UNCHANGED <<action, arg, stdin, saves, occupied, slot>>

AskQuit ==
    /\ pc = "goback"
    /\ action = 0
    /\ pc' = "quitSlot"
    /\ UNCHANGED <<game, action, arg, stdin, saves, occupied, slot>>

AskSave ==
    /\ pc = "goback"
    /\ action = 5
    /\ pc' = "saveSlot"
    /\ action' = 0
    /\ UNCHANGED <<game, arg, stdin, saves, occupied, slot>>

\* A slip to detect: the flags of the scan at startup are used again.
AskLoadUnscanned ==
    /\ pc = "goback"
    /\ action = 6
    /\ IF Files = {} THEN Loop(game)
       ELSE /\ pc' = "loadSlot"
            /\ action' = 0
            /\ UNCHANGED <<game, arg, slot>>
    /\ UNCHANGED <<stdin, saves, occupied>>

AskLoad ==
    /\ pc = "goback"
    /\ action = 6
    /\ occupied' = Files
    /\ IF Files = {} THEN Loop(game)
       ELSE /\ pc' = "loadSlot"
            /\ action' = 0
            /\ UNCHANGED <<game, arg, slot>>
    /\ UNCHANGED <<stdin, saves>>

Turn ==
    /\ pc = "goback"
    /\ action \notin {0, 5, 6}
    /\ Loop(game)
    /\ UNCHANGED <<stdin, saves, occupied>>

-----------------------------------------------------------------------------
(* ASK-SAVE-SLOT and SAVE-GAME, from the menu and before quitting.         *)

\* After ASK-SAVE-SLOT: the quit prompt ends the game, whatever became of
\* the save.
Saved(quitting) ==
    Loop(IF quitting THEN [game EXCEPT !.status = "QUIT"] ELSE game)

AskSlot(v, quitting) ==
    /\ pc = IF quitting THEN "quitSlot" ELSE "saveSlot"
    /\ Typed(v)
    /\ UNCHANGED <<stdin, occupied>>

\* A slip to detect: 0 is an invalid slot, and asks again.
CancelSaveAskingAgain(quitting) ==
    /\ AskSlot(0, quitting)
    /\ UNCHANGED <<game, pc, action, arg, saves, slot>>

\* A slip to detect: 0 at the quit prompt goes back to the game.
CancelSaveReturning(quitting) ==
    /\ AskSlot(0, quitting)
    /\ Loop(game)
    /\ UNCHANGED saves

CancelSave(quitting) ==
    /\ AskSlot(0, quitting)
    /\ Saved(quitting)
    /\ UNCHANGED saves

SlotRefused(v, quitting) ==
    /\ v \notin {0} \cup Slots
    /\ AskSlot(v, quitting)
    /\ UNCHANGED <<game, pc, action, arg, saves, slot>>

OpenFails(s, quitting) ==
    /\ AskSlot(s, quitting)
    /\ Saved(quitting)
    /\ UNCHANGED saves

OpenOutput(s, quitting) ==
    /\ AskSlot(s, quitting)
    /\ saves' = [saves EXCEPT ![s] = Torn]
    /\ slot' = s
    /\ pc' = IF quitting THEN "quitWrite" ELSE "saveWrite"
    /\ UNCHANGED <<game, action, arg>>

AtWrite(quitting) ==
    /\ pc = IF quitting THEN "quitWrite" ELSE "saveWrite"
    /\ Saved(quitting)
    /\ UNCHANGED <<stdin, occupied>>

Write(quitting) ==
    /\ AtWrite(quitting)
    /\ saves' = [saves EXCEPT ![slot] = SaveRecord(game)]

WriteFails(quitting) ==
    /\ AtWrite(quitting)
    /\ UNCHANGED saves

-----------------------------------------------------------------------------
(* What happens to the process and its files from outside.                 *)

\* The process is killed; its memory is gone, the files stay as they are.
Crash ==
    /\ pc # "off"
    /\ pc' = "off"
    /\ action' = 0
    /\ arg' = 0
    /\ slot' = 0
    /\ UNCHANGED <<game, stdin, saves, occupied>>

\* Someone deletes a save file that is not open (test-game.ps1 does).
RemoveSave(s) ==
    /\ pc \notin Writing
    /\ saves' = [saves EXCEPT ![s] = NoFile]
    /\ UNCHANGED <<game, pc, action, arg, stdin, occupied, slot>>

-----------------------------------------------------------------------------
GameInit ==
    /\ \E random \in RandomGrids : game = NewGame(random)
    /\ pc = "off"
    /\ action = 0
    /\ arg = 0
    /\ stdin = "open"
    /\ saves = [s \in Slots |-> NoFile]
    /\ occupied = {}
    /\ slot = 0

SaveStep(quitting) ==
    \/ CancelSave(quitting)
    \/ \E v \in Digits : SlotRefused(v, quitting)
    \/ \E s \in Slots : OpenFails(s, quitting)
    \/ \E s \in Slots : OpenOutput(s, quitting)
    \/ Write(quitting)
    \/ WriteFails(quitting)

MainStep ==
    \/ \E v \in Digits : LoadChoice(v)
    \/ \E v \in Digits : LoadSlot(v)
    \/ AskQuit
    \/ AskSave
    \/ AskLoad
    \/ Turn
    \/ \E quitting \in BOOLEAN : SaveStep(quitting)

PortStep == ScreenStep /\ UNCHANGED <<saves, occupied, slot>>

EndOfInput ==
    /\ pc # "off"
    /\ InputEnds
    /\ UNCHANGED <<saves, occupied, slot>>

GameNext ==
    \/ Start
    \/ PortStep
    \/ MainStep
    \/ EndOfInput
    \/ Crash
    \/ \E s \in Slots : RemoveSave(s)

GameSpec == GameInit /\ [][GameNext]_gameVars

\* A step of the program that does not wait for the player: the calls, the
\* writes, and every ACCEPT once the input has ended.
Unattended ==
    /\ stdin = "eof" \/ pc \in {"goback"} \cup Writing
    /\ PortStep \/ MainStep

FairGameSpec == GameSpec /\ WF_gameVars(Unattended)

-----------------------------------------------------------------------------
(* Properties.                                                             *)

GameTypeOK ==
    /\ game \in GameStates
    /\ pc \in GamePoints
    /\ action \in Digits
    /\ arg \in IF pc \in {"buyQuantity", "sellQuantity"} THEN Goods ELSE {0}
    /\ stdin \in {"open", "eof"}
    /\ saves \in [Slots -> Contents]
    /\ occupied \in SUBSET Slots
    /\ slot \in IF pc \in Writing THEN Slots ELSE {0}

\* Every save can be played on: it was taken while the game was going on (a
\* save made on the way out included), it counts its visited ports right and
\* it lacks a port.
SavesArePlayable ==
    \A s \in Readable :
        /\ saves[s].status = "PLAYING"
        /\ saves[s].visitedPortsCount = Cardinality(saves[s].portVisited)
        /\ saves[s].portVisited # Ports

\* The load prompts accept every slot that can be loaded: the flags they
\* consult, set by an earlier scan, miss no file that has been written since.
EverySaveIsOffered ==
    pc \in {"loadChoice", "loadSlot"} => Files \subseteq occupied

\* Once the input has ended the process ends by itself, unless it is asking
\* for a destination, the one prompt 0 does not leave.
EndOfInputSettles == (stdin = "eof") ~> (pc \in {"off", "destination"})

\* At most how many steps are left once the input has ended, every answer
\* being 0 from then on.
StepsFrom ==
    [ off |-> 0, quitWrite |-> 1, quitSlot |-> 2, menu |-> 4,
      loadChoice |-> 5, loadSlot |-> 5, saveSlot |-> 5, saveWrite |-> 5,
      goback |-> 6, buyProduct |-> 7, buyQuantity |-> 7,
      sellProduct |-> 7, sellQuantity |-> 7, destination |-> 8 ]

\* Choice 0 leads to the quit prompt, any other at most back to the menu.
StepsToEnd ==
    IF pc = "goback" /\ action = 0 THEN 3 ELSE StepsFrom[pc]

\* Once the input has ended every step of the process brings it nearer to its
\* end, through the menu and the quit prompt, and none leads to the prompt
\* that 0 does not leave; nothing from outside sends it back
\* (game.cbl:58-89, port-screen.cbl:48-58, 226-237).
EndOfInputShortens ==
    [][stdin = "eof" /\ pc \notin {"off", "destination"} =>
        /\ PortStep \/ MainStep => StepsToEnd' < StepsToEnd
        /\ StepsToEnd' <= StepsToEnd]_gameVars

-----------------------------------------------------------------------------
(* The refinement: seen from outside, saves and loads are checkpoints.     *)

OpenStates == {g \in GameStates : g.status = "PLAYING"}

Live == IF pc = "off" THEN NoFile ELSE game

Stored ==
    [s \in Slots |-> IF s \in Readable THEN RestoreState(saves[s]) ELSE NoFile]

Mode ==
    CASE pc = "off" -> "off"
      [] pc = "loadSlot" -> "loading"
      [] pc \in {"saveSlot", "quitSlot"} \cup Writing -> "saving"
      [] OTHER -> "playing"

Abstract == INSTANCE Checkpoints
    WITH States <- GameStates,
         NewStates <- {NewGame(random) : random \in RandomGrids},
         Nothing <- NoFile,
         live <- Live, slots <- Stored, mode <- Mode

\* Loading a slot brings back exactly the state that was saved in it last,
\* and nothing but a save to it (or damage) ever changes a slot.
ImplementsCheckpoints == Abstract!CheckpointsSpec
=============================================================================
