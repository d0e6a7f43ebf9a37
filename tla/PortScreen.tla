----------------------------- MODULE PortScreen -----------------------------
(***************************************************************************)
(* PORT-SCREEN, the program that shows one port and serves one choice of   *)
(* the player.  A step runs from one ACCEPT to the next (or to GOBACK): it *)
(* takes the answer just typed and does all the code does before it asks   *)
(* again.  pc names the ACCEPT the program waits at.                       *)
(*                                                                         *)
(* When standard input has ended every ACCEPT returns at once and stores   *)
(* 0, so an answer is then 0 (Typed).                                      *)
(***************************************************************************)
EXTENDS GameData

VARIABLES
    game,     \* the shared data, a member of GameStates
    pc,       \* the prompt the program waits at, or "goback"
    action,   \* WS-ACTION, from its ACCEPT until the caller has used it
    arg,      \* WS-ARG, the product whose quantity is being asked; else 0
    stdin     \* "open" while the player types, "eof" once input has ended

screenVars == <<game, pc, action, arg, stdin>>

ScreenPoints ==
    {"menu", "destination", "buyProduct", "buyQuantity",
     "sellProduct", "sellQuantity", "goback"}

Digits == 0..9                            \* answers to ACCEPT of a PIC 9(01)
Numbers == 0..(NumPorts + NumGoods)       \* answers in and out of both ranges

Typed(v) == stdin = "eof" => v = 0

Goback == pc' = "goback" /\ arg' = 0

-----------------------------------------------------------------------------
(* The menu.                                                               *)

Menu(v) ==
    /\ pc = "menu"
    /\ Typed(v)
    /\ action' = v
    /\ UNCHANGED stdin

\* 0, 5 and 6 are left to the caller; 7 to 9 are refused with a message.
OtherChoice(v) ==
    /\ v \in {0} \cup 5..9
    /\ Menu(v)
    /\ Goback
    /\ UNCHANGED game

Navigate ==
    /\ Menu(1)
    /\ game.fuelFlag = 1
    /\ pc' = "destination"
    /\ UNCHANGED <<game, arg>>

NavigateRefused ==
    /\ Menu(1)
    /\ game.fuelFlag # 1
    /\ game.money >= FuelCost
    /\ Goback
    /\ UNCHANGED game

\* A slip to detect: lost with an empty tank, whatever the money.
LoseWhenEmpty ==
    /\ Menu(1)
    /\ game.fuelFlag # 1
    /\ game' = [game EXCEPT !.status = "LOST"]
    /\ Goback

Lose ==
    /\ Menu(1)
    /\ game.fuelFlag # 1
    /\ game.money < FuelCost
    /\ game' = [game EXCEPT !.status = "LOST"]
    /\ Goback

AskProduct(v, prompt) ==
    /\ Menu(v)
    /\ pc' = prompt
    /\ UNCHANGED <<game, arg>>

\* A slip to detect: a full tank is sold again.
RefuelAgain ==
    /\ Menu(4)
    /\ game.money >= FuelCost
    /\ game' = [game EXCEPT !.money = @ - FuelCost, !.fuelFlag = 1]
    /\ Goback

Refuel ==
    /\ Menu(4)
    /\ game.fuelFlag # 1
    /\ game.money >= FuelCost
    /\ game' = [game EXCEPT !.money = @ - FuelCost, !.fuelFlag = 1]
    /\ Goback

RefuelRefused ==
    /\ Menu(4)
    /\ game.fuelFlag = 1 \/ game.money < FuelCost
    /\ Goback
    /\ UNCHANGED game

-----------------------------------------------------------------------------
(* PROCESS-NAVIGATION, from the destination prompt on.  The prompt has no  *)
(* cancel: it repeats until it gets another port.                          *)

\* Slips to detect: every arrival counts as a first visit; the count must
\* exceed the number of ports to win.
ArrivedCountingAll(g, d, random) ==
    LET count == IF g.visitedPortsCount < NumPorts THEN g.visitedPortsCount + 1
                                                   ELSE NumPorts
    IN  [g EXCEPT !.fuelFlag = 0,
                  !.currentPort = d,
                  !.portVisited = @ \cup {d},
                  !.visitedPortsCount = count,
                  !.status = IF count >= NumPorts THEN "WON" ELSE @]

ArrivedWinningLate(g, d, random) ==
    LET count == IF d \in g.portVisited THEN g.visitedPortsCount
                                        ELSE g.visitedPortsCount + 1
    IN  [g EXCEPT !.fuelFlag = 0,
                  !.currentPort = d,
                  !.portVisited = @ \cup {d},
                  !.visitedPortsCount = count,
                  !.status = IF count > NumPorts THEN "WON" ELSE @]

Arrived(g, d, random) ==
    LET visited == g.portVisited \cup {d}
        count == IF d \in g.portVisited THEN g.visitedPortsCount
                                        ELSE g.visitedPortsCount + 1
    IN  [g EXCEPT !.fuelFlag = 0,
                  !.currentPort = d,
                  !.portVisited = visited,
                  !.visitedPortsCount = count,
                  !.goodsPrices = FluctuatePrices(@, random),
                  !.status = IF count >= NumPorts THEN "WON" ELSE @]

Sail(d) ==
    /\ pc = "destination"
    /\ Typed(d)
    /\ d \in Ports \ {game.currentPort}
    /\ \E random \in RandomGrids : game' = Arrived(game, d, random)
    /\ Goback
    /\ UNCHANGED <<action, stdin>>

DestinationRefused(d) ==
    /\ pc = "destination"
    /\ Typed(d)
    /\ d \notin Ports \ {game.currentPort}
    /\ UNCHANGED screenVars

-----------------------------------------------------------------------------
(* BUY-GOODS and SELL-GOODS.                                               *)

\* The product prompt of either: 0 leaves, a product that may be traded is
\* asked a quantity for, one that may not leaves, any other answer asks
\* again.
Product(k, prompt, next, tradable) ==
    /\ pc = prompt
    /\ Typed(k)
    /\ \/ /\ k \in tradable
          /\ pc' = next
          /\ arg' = k
       \/ /\ k \in {0} \cup (Goods \ tradable)
          /\ Goback
       \/ /\ k \notin {0} \cup Goods
          /\ UNCHANGED <<pc, arg>>
    /\ UNCHANGED <<game, action, stdin>>

BuyProduct(k) == Product(k, "buyProduct", "buyQuantity", Goods)

SellProduct(k) ==
    Product(k, "sellProduct", "sellQuantity",
            {h \in Goods : game.cargoQuantity[h] > 0})

Quantity(q, prompt) ==
    /\ pc = prompt
    /\ Typed(q)
    /\ Goback
    /\ UNCHANGED <<action, stdin>>

\* A slip to detect: the total is charged without being checked.
BuyableOnCredit(g, k, q) == q > 0

Buyable(g, k, q) == q > 0 /\ g.money >= ComputedPrice(g, k, q) * Scale

Bought(g, k, q) ==
    LET cargo == [g.cargoQuantity EXCEPT ![k] = (@ + q) % CargoCap]
    IN  [g EXCEPT !.money = @ - ComputedPrice(g, k, q) * Scale,
                  !.cargoQuantity = cargo]

Buy(q) ==
    /\ Quantity(q, "buyQuantity")
    /\ game' = IF Buyable(game, arg, q) THEN Bought(game, arg, q) ELSE game

Sellable(g, k, q) == q > 0 /\ q <= g.cargoQuantity[k]

\* A slip to detect: the proceeds are rounded up.
SoldRoundingUp(g, k, q) ==
    LET cents == g.goodsPrices[g.currentPort][k] * q
        total == ((cents + Scale - 1) \div Scale) % CostCap
        cargo == [g.cargoQuantity EXCEPT ![k] = @ - q]
    IN  [g EXCEPT !.money = (@ + total * Scale) % MoneyCap,
                  !.cargoQuantity = cargo]

Sold(g, k, q) ==
    LET cargo == [g.cargoQuantity EXCEPT ![k] = @ - q]
    IN  [g EXCEPT !.money = (@ + ComputedPrice(g, k, q) * Scale) % MoneyCap,
                  !.cargoQuantity = cargo]

Sell(q) ==
    /\ Quantity(q, "sellQuantity")
    /\ game' = IF Sellable(game, arg, q) THEN Sold(game, arg, q) ELSE game

-----------------------------------------------------------------------------
(* The program, and the end of its input at any prompt.                    *)

ScreenStep ==
    \/ \E v \in Digits : OtherChoice(v)
    \/ Navigate
    \/ NavigateRefused
    \/ Lose
    \/ AskProduct(2, "buyProduct")
    \/ AskProduct(3, "sellProduct")
    \/ Refuel
    \/ RefuelRefused
    \/ \E d \in Numbers : Sail(d)
    \/ \E d \in Numbers : DestinationRefused(d)
    \/ \E k \in Numbers : BuyProduct(k)
    \/ \E k \in Numbers : SellProduct(k)
    \/ \E q \in Quantities : Buy(q)
    \/ \E q \in Quantities : Sell(q)

InputEnds ==
    /\ stdin = "open"
    /\ stdin' = "eof"
    /\ UNCHANGED <<game, pc, action, arg>>

-----------------------------------------------------------------------------
(* The program on its own, under the loop of game.cbl without its saves:   *)
(* it is called as long as the game is being played.                       *)

CallAgain ==
    /\ pc = "goback"
    /\ game.status = "PLAYING"
    /\ pc' = "menu"
    /\ action' = 0
    /\ UNCHANGED <<game, arg, stdin>>

ScreenInit ==
    /\ \E random \in RandomGrids : game = NewGame(random)
    /\ pc = "menu"
    /\ action = 0
    /\ arg = 0
    /\ stdin = "open"

ScreenNext == ScreenStep \/ CallAgain \/ InputEnds

ScreenSpec == ScreenInit /\ [][ScreenNext]_screenVars

-----------------------------------------------------------------------------
(* Properties.                                                             *)

ScreenTypeOK ==
    /\ game \in GameStates
    /\ pc \in ScreenPoints
    /\ action \in Digits
    /\ arg \in IF pc \in {"buyQuantity", "sellQuantity"} THEN Goods ELSE {0}
    /\ stdin \in {"open", "eof"}

\* The number of visited ports, kept beside the flags and never recomputed
\* from them, is the number of flags that are set.
CountMatchesVisited ==
    game.visitedPortsCount = Cardinality(game.portVisited)

\* The game is won exactly when every port has been visited, and is lost only
\* with an empty tank and too little money to fill it.
OutcomeJustified ==
    /\ game.portVisited = Ports <=> game.status = "WON"
    /\ game.status = "LOST" => game.fuelFlag = 0 /\ game.money < FuelCost

\* What a purchase costs and what a sale brings is the posted price of the
\* quantity that changes hands, the cents of the total dropped, whenever the
\* total fits WS-PRICE and the proceeds fit WS-MONEY.
PostedPrice(k, q) == game.goodsPrices[game.currentPort][k] * q

ExactTrade ==
    \A k \in Goods :
        LET q == game'.cargoQuantity[k] - game.cargoQuantity[k]
            gain == game'.money - game.money
        IN  /\ (/\ pc = "buyQuantity" /\ q > 0
                /\ PostedPrice(k, q) < CostCap * Scale)
                   => -gain \in (PostedPrice(k, q) - Scale + 1)..PostedPrice(k, q)
            /\ (/\ pc = "sellQuantity" /\ q < 0
                /\ PostedPrice(k, -q) < CostCap * Scale
                /\ game.money + PostedPrice(k, -q) < MoneyCap)
                   => gain \in (PostedPrice(k, -q) - Scale + 1)..PostedPrice(k, -q)
            /\ (pc = "buyQuantity" /\ gain # 0) => \E h \in Goods :
                   game'.cargoQuantity[h] # game.cargoQuantity[h]

TradesAtPostedPrice == [][ExactTrade]_screenVars

\* What the docs say of a purchase: it needs money for the goods it brings
\* (less than a dollar of cents aside).  WS-PRICE is too small for that.
AffordedTrade ==
    pc = "buyQuantity" =>
        \A k \in Goods :
            LET q == game'.cargoQuantity[k] - game.cargoQuantity[k]
            IN  q > 0 => PostedPrice(k, q) < game.money + Scale

PurchasesAreAfforded == [][AffordedTrade]_screenVars
=============================================================================
