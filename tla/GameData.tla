------------------------------ MODULE GameData ------------------------------
(***************************************************************************)
(* The data every program of the game works on: the copybooks game-dat,    *)
(* port-dat, gds-dat and pric-dat, the values INITIALISATION gives them,   *)
(* and the COBOL arithmetic of their fields.                               *)
(*                                                                         *)
(* Amounts of money and unit prices are in cents (fields PIC 9(10)V99); a  *)
(* field stores a result with its fraction dropped and its high-order      *)
(* digits lost (COMPUTE and ADD without ON SIZE ERROR), so a field of      *)
(* capacity C stores x as x % C.  Names, descriptions and notifications    *)
(* are only displayed and are left out.                                    *)
(***************************************************************************)
EXTENDS Integers, FiniteSets

CONSTANTS
    NumPorts,      \* entries of WS-PORT-TABLE, and the arrivals that win
    NumGoods,      \* entries of WS-GOODS-LIST
    StartMoney,    \* cents a new game starts with
    FuelCost,      \* cents a full tank costs
    BasePrice,     \* [Goods -> cents], WS-GOOD-BASE-PRICE
    Scale,         \* cents in a dollar
    MoneyCap,      \* capacity of WS-MONEY, in cents
    CostCap,       \* capacity of WS-PRICE, in whole dollars
    PriceCap,      \* capacity of WS-GOODS-PRICES-PRICE, in cents
    CargoCap,      \* capacity of WS-QUANTITY and WS-CARGO-QUANTITY
    RandomSteps,   \* FUNCTION RANDOM returns r / RandomSteps ...
    Draws,         \* ... for an r of this set
    Quantities     \* the quantities a player may type

Ports == 1..NumPorts
Goods == 1..NumGoods

ASSUME SizesOK == NumPorts \in Nat \ {0} /\ NumGoods \in Nat \ {0}

ASSUME FieldsOK ==
    /\ Scale \in Nat \ {0}
    /\ MoneyCap \in Nat \ {0} /\ CostCap \in Nat \ {0}
    /\ PriceCap \in Nat \ {0} /\ CargoCap \in Nat \ {0}

ASSUME AmountsOK ==
    /\ StartMoney \in 0..(MoneyCap - 1)
    /\ FuelCost \in Nat \ {0}
    /\ BasePrice \in [Goods -> Nat]

ASSUME InputsOK ==
    /\ RandomSteps \in Nat \ {0}
    /\ Draws \subseteq 0..(RandomSteps - 1) /\ Draws # {}
    /\ Quantities \subseteq 0..(CargoCap - 1) /\ 0 \in Quantities

-----------------------------------------------------------------------------
(* The prices of every good in every port, and the state the programs      *)
(* share: WS-GAME-DATA, the visited flags of WS-PORT-TABLE (as the set of  *)
(* the ports whose flag is set) and WS-GOODS-PRICES-LIST.                  *)

Prices == 0..(PriceCap - 1)
Grids == [Ports -> [Goods -> Prices]]
Statuses == {"PLAYING", "WON", "LOST", "QUIT"}

GameStates ==
    [ money             : 0..(MoneyCap - 1),
      currentPort       : Ports,
      visitedPortsCount : 0..NumPorts,
      status            : Statuses,
      fuelFlag          : {0, 1},
      cargoQuantity     : [Goods -> 0..(CargoCap - 1)],
      portVisited       : SUBSET Ports,
      goodsPrices       : Grids ]

\* What FUNCTION RANDOM returns for every cell of the grid, one call each.
RandomGrids == [Ports -> [Goods -> Draws]]

\* base * (0.5 + RANDOM), stored in a price field.
StartingPrice(base, r) ==
    ((base * (RandomSteps + 2 * r)) \div (2 * RandomSteps)) % PriceCap

\* price * (0.9 + RANDOM * 0.2), stored in a price field.
FluctuatedPrice(price, r) ==
    ((price * (9 * RandomSteps + 2 * r)) \div (10 * RandomSteps)) % PriceCap

\* INITIALISATION: the whole shared state of a new game.
NewGame(random) ==
    [ money             |-> StartMoney,
      currentPort       |-> 1,
      visitedPortsCount |-> 0,
      status            |-> "PLAYING",
      fuelFlag          |-> 0,
      cargoQuantity     |-> [k \in Goods |-> 0],
      portVisited       |-> {},
      goodsPrices       |-> [i \in Ports |-> [j \in Goods |->
                               StartingPrice(BasePrice[j], random[i][j])]] ]

\* FLUCTUATE-PRICES: every cell moves by a draw of its own.
FluctuatePrices(prices, random) ==
    [i \in Ports |-> [j \in Goods |->
        FluctuatedPrice(prices[i][j], random[i][j])]]

\* A slip to detect: the price of the first port, wherever the ship lies.
ComputedPriceAtHome(g, k, q) ==
    ((g.goodsPrices[1][k] * q) \div Scale) % CostCap

\* COMPUTE WS-PRICE = unit price here * quantity: whole dollars, in a field
\* of its own that may be too small for the product.
ComputedPrice(g, k, q) ==
    ((g.goodsPrices[g.currentPort][k] * q) \div Scale) % CostCap
=============================================================================
