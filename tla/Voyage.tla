------------------------------- MODULE Voyage -------------------------------
(***************************************************************************)
(* PORT-SCREEN with history variables that account for what the player     *)
(* spent: tanks, the tanks of fuel paid for less the arrivals made;        *)
(* stayWealth, what the ship was worth when it arrived in its present port *)
(* (or when the game began); purchases, the purchases made there since     *)
(* then; and totalsFit, whether the total of every one of them fitted      *)
(* WS-PRICE.  They read only amounts of money, the cargo, the prices and   *)
(* the ship's port, never the tank's own flag.                             *)
(***************************************************************************)
EXTENDS PortScreen, Functions

CONSTANT MaxPurchases     \* the bound on purchases in one stay

ASSUME StayOK == MaxPurchases \in Nat

VARIABLES tanks, stayWealth, purchases, totalsFit

voyageVars ==
    <<game, pc, action, arg, stdin, tanks, stayWealth, purchases, totalsFit>>

\* Cents, the cargo at the prices of the port the ship lies in.
CargoValue(g) ==
    [k \in Goods |-> g.goodsPrices[g.currentPort][k] * g.cargoQuantity[k]]

Wealth(g) == g.money + SumFunctionOnSet(CargoValue(g), Goods)

VoyageInit ==
    /\ ScreenInit
    /\ tanks = 0
    /\ stayWealth = Wealth(game)
    /\ purchases = 0
    /\ totalsFit = TRUE

ArrivalMade == game'.currentPort # game.currentPort
TankPaid == pc = "menu" /\ game'.money = game.money - FuelCost
PurchaseMade == pc = "buyQuantity" /\ game'.cargoQuantity # game.cargoQuantity

\* WS-PRICE has room for the total of what the hold gains.
TotalFits ==
    PostedPrice(arg, game'.cargoQuantity[arg] - game.cargoQuantity[arg])
        < CostCap * Scale

Account ==
    /\ tanks' = tanks + (IF TankPaid THEN 1 ELSE 0)
                      - (IF ArrivalMade THEN 1 ELSE 0)
    /\ stayWealth' = IF ArrivalMade THEN Wealth(game') ELSE stayWealth
    /\ purchases' = IF ArrivalMade THEN 0
                    ELSE purchases + (IF PurchaseMade THEN 1 ELSE 0)
    /\ purchases' <= MaxPurchases
    /\ totalsFit' = (ArrivalMade \/ (totalsFit /\ (PurchaseMade => TotalFits)))

VoyageNext == ScreenNext /\ Account

VoyageSpec == VoyageInit /\ [][VoyageNext]_voyageVars

-----------------------------------------------------------------------------
\* Every arrival has burnt a tank of its own: the tank is full exactly when
\* one more tank has been paid for than arrivals have been made.
EveryArrivalHasItsTank == tanks = game.fuelFlag

\* What trading in one port can earn: nothing but the cents BUY-GOODS drops
\* from its totals, less than a dollar a purchase, however the player splits
\* and mixes purchases and sales ("no bid/ask spread").  A purchase whose total
\* WS-PRICE cannot hold earns more; what overflows in a sale, in the money or
\* in the hold is the player's loss.
OnlyCentsAreEarnedInPort ==
    totalsFit => Wealth(game) <= stayWealth + purchases * (Scale - 1)
=============================================================================
