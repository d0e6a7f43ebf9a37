-------------------------- MODULE PortScreenProofs --------------------------
(***************************************************************************)
(* Proofs about PortScreen, for every number of ports and goods and every  *)
(* capacity of the fields.                                                 *)
(***************************************************************************)
EXTENDS PortScreen, FiniteSetTheorems, TLAPS

-----------------------------------------------------------------------------
(* Arithmetic of the COBOL fields.                                         *)

\* What a field of capacity n can hold.
LEMMA ModRange ==
    ASSUME NEW a \in Int, NEW n \in Nat \ {0}
    PROVE  a % n \in 0..(n - 1)
  BY SMT

\* A value that fits its field is stored unchanged.
LEMMA ModSmall ==
    ASSUME NEW n \in Nat \ {0}, NEW a \in 0..(n - 1)
    PROVE  a % n = a
  BY SMT

\* Dropping the fraction of an integer amount leaves an integer.
LEMMA DivInt ==
    ASSUME NEW a \in Int, NEW n \in Nat \ {0}
    PROVE  a \div n \in Int
  BY SMT

\* Dropping the fraction loses less than one unit.
LEMMA WholePart ==
    ASSUME NEW a \in Nat, NEW n \in Nat \ {0}
    PROVE  /\ a \div n \in Nat
           /\ (a \div n) * n \in (a - n + 1)..a
  BY SMT

\* Products of amounts and quantities are amounts.
LEMMA ProductNat ==
    ASSUME NEW a \in Nat, NEW b \in Nat
    PROVE  a * b \in Nat
  BY SMT

\* A total that fits the field is below the capacity after its cents are cut.
LEMMA CapacityBound ==
    ASSUME NEW a \in Nat, NEW n \in Nat \ {0}, NEW c \in Nat, a < c * n
    PROVE  a \div n < c
  <1> DEFINE d == a \div n
  <1>1. d \in Nat /\ d * n <= a
    BY WholePart
  <1>2. SUFFICES ASSUME d >= c PROVE FALSE
    BY <1>1
  <1>3. d * n >= c * n
    BY <1>1, <1>2, SMT
  <1> QED
    BY <1>1, <1>3, ProductNat, SMT

-----------------------------------------------------------------------------
(* What the operators of GameData and PortScreen return.                   *)

\* A new game's prices fit the price field.
LEMMA StartingPriceType ==
    ASSUME NEW base \in Nat, NEW r \in Draws
    PROVE  StartingPrice(base, r) \in Prices
  <1>1. base * (RandomSteps + 2 * r) \in Int
    BY InputsOK
  <1>2. 2 * RandomSteps \in Nat \ {0}
    BY InputsOK
  <1> QED
    BY <1>1, <1>2, ModRange, DivInt, FieldsOK DEF StartingPrice, Prices

\* A fluctuated price fits the price field.
LEMMA FluctuatedPriceType ==
    ASSUME NEW price \in Prices, NEW r \in Draws
    PROVE  FluctuatedPrice(price, r) \in Prices
  <1>1. price * (9 * RandomSteps + 2 * r) \in Int
    BY InputsOK, FieldsOK DEF Prices
  <1>2. 10 * RandomSteps \in Nat \ {0}
    BY InputsOK
  <1> QED
    BY <1>1, <1>2, ModRange, DivInt, FieldsOK DEF FluctuatedPrice, Prices

\* INITIALISATION leaves the shared data well typed.
LEMMA NewGameType ==
    ASSUME NEW random \in RandomGrids
    PROVE  NewGame(random) \in GameStates
  <1>1. \A i \in Ports, j \in Goods :
           StartingPrice(BasePrice[j], random[i][j]) \in Prices
    BY StartingPriceType, AmountsOK DEF RandomGrids
  <1>2. NewGame(random).goodsPrices \in Grids
    BY <1>1 DEF NewGame, Grids
  <1>3. 1 \in Ports /\ 0 \in 0..NumPorts /\ 0 \in 0..(CargoCap - 1)
    BY SizesOK, FieldsOK DEF Ports
  <1> QED
    BY <1>2, <1>3, AmountsOK DEF NewGame, GameStates, Statuses

\* FLUCTUATE-PRICES leaves a grid of prices.
LEMMA FluctuatePricesType ==
    ASSUME NEW prices \in Grids, NEW random \in RandomGrids
    PROVE  FluctuatePrices(prices, random) \in Grids
  <1>1. \A i \in Ports, j \in Goods :
           FluctuatedPrice(prices[i][j], random[i][j]) \in Prices
    BY FluctuatedPriceType DEF RandomGrids, Grids
  <1> QED
    BY <1>1 DEF FluctuatePrices, Grids

\* A posted price is an amount.
LEMMA PostedType ==
    ASSUME NEW g \in GameStates, NEW k \in Goods, NEW q \in Nat
    PROVE  /\ g.goodsPrices[g.currentPort][k] \in Nat
           /\ g.goodsPrices[g.currentPort][k] * q \in Nat
  <1>1. g.goodsPrices[g.currentPort][k] \in Prices
    BY DEF GameStates, Grids
  <1>2. Prices \subseteq Nat
    BY FieldsOK DEF Prices
  <1> QED
    BY <1>1, <1>2, ProductNat

\* A computed total fits WS-PRICE.
LEMMA ComputedPriceType ==
    ASSUME NEW g \in GameStates, NEW k \in Goods, NEW q \in Nat
    PROVE  /\ ComputedPrice(g, k, q) \in Nat
           /\ ComputedPrice(g, k, q) * Scale \in Nat
  <1> DEFINE a == g.goodsPrices[g.currentPort][k] * q
  <1>1. a \in Nat
    BY PostedType
  <1>2. a \div Scale \in Int
    BY <1>1, DivInt, FieldsOK
  <1>3. (a \div Scale) % CostCap \in 0..(CostCap - 1)
    BY <1>2, ModRange, FieldsOK
  <1>4. ComputedPrice(g, k, q) \in Nat
    BY <1>3, FieldsOK DEF ComputedPrice
  <1> QED
    BY <1>4, ProductNat, FieldsOK

\* A total that fits WS-PRICE is charged with less than a dollar cut off.
LEMMA ComputedPriceExact ==
    ASSUME NEW g \in GameStates, NEW k \in Goods, NEW q \in Nat,
           g.goodsPrices[g.currentPort][k] * q < CostCap * Scale
    PROVE  LET posted == g.goodsPrices[g.currentPort][k] * q
           IN  ComputedPrice(g, k, q) * Scale \in (posted - Scale + 1)..posted
  <1> DEFINE a == g.goodsPrices[g.currentPort][k] * q
  <1>1. a \in Nat /\ a < CostCap * Scale
    BY PostedType
  <1>2. ComputedPrice(g, k, q) = (a \div Scale) % CostCap
    BY DEF ComputedPrice
  <1> HIDE DEF a
  <1>3. a \div Scale \in Nat /\ (a \div Scale) * Scale \in (a - Scale + 1)..a
    BY <1>1, WholePart, FieldsOK
  <1>4. a \div Scale < CostCap
    BY <1>1, CapacityBound, FieldsOK
  <1>5. ComputedPrice(g, k, q) = a \div Scale
    BY <1>2, <1>3, <1>4, ModSmall, FieldsOK
  <1> QED
    BY <1>3, <1>5 DEF a

\* A purchase the money pays for leaves the shared data well typed.
LEMMA BoughtType ==
    ASSUME NEW g \in GameStates, NEW k \in Goods, NEW q \in Nat,
           Buyable(g, k, q)
    PROVE  Bought(g, k, q) \in GameStates
  <1>1. g.money - ComputedPrice(g, k, q) * Scale \in 0..(MoneyCap - 1)
    BY ComputedPriceType, FieldsOK DEF Buyable, GameStates
  <1>b. g.cargoQuantity[k] + q \in Int
    BY FieldsOK DEF GameStates
  <1>2. (g.cargoQuantity[k] + q) % CargoCap \in 0..(CargoCap - 1)
    BY <1>b, ModRange, FieldsOK
  <1> QED
    BY <1>1, <1>2 DEF Bought, GameStates

\* A sale of goods on board leaves the shared data well typed.
LEMMA SoldType ==
    ASSUME NEW g \in GameStates, NEW k \in Goods, NEW q \in Nat,
           Sellable(g, k, q)
    PROVE  Sold(g, k, q) \in GameStates
  <1> DEFINE proceeds == ComputedPrice(g, k, q) * Scale
  <1>a. proceeds \in Nat
    BY ComputedPriceType
  <1>b. g.money + proceeds \in Int
    BY <1>a, FieldsOK DEF GameStates
  <1>1. (g.money + proceeds) % MoneyCap \in 0..(MoneyCap - 1)
    BY <1>b, ModRange, FieldsOK
  <1>2. g.cargoQuantity[k] - q \in 0..(CargoCap - 1)
    BY FieldsOK DEF Sellable, GameStates
  <1> QED
    BY <1>1, <1>2 DEF Sold, GameStates

-----------------------------------------------------------------------------
(* The invariant.  Sound says of a state of the game what the properties   *)
(* say of the variable, so that it can be said of a saved one as well.     *)

Sound(g) ==
    /\ g \in GameStates
    /\ g.visitedPortsCount = Cardinality(g.portVisited)
    /\ g.portVisited = Ports <=> g.status = "WON"
    /\ g.status = "LOST" => g.fuelFlag = 0 /\ g.money < FuelCost

InPlay(g) == Sound(g) /\ g.status = "PLAYING"

\* There are as many ports as the count needs to win.
LEMMA PortsFinite == IsFiniteSet(Ports) /\ Cardinality(Ports) = NumPorts
  <1>1. 1 \in Int /\ NumPorts \in Int /\ NumPorts >= 1
    BY SizesOK
  <1> QED
    BY <1>1, FS_Interval DEF Ports

\* A new game is one that is being played.
LEMMA NewGameInPlay ==
    ASSUME NEW random \in RandomGrids
    PROVE  InPlay(NewGame(random))
  <1>1. NewGame(random) \in GameStates
    BY NewGameType
  <1>2. {} # Ports
    BY SizesOK DEF Ports
  <1>3. Cardinality({}) = 0
    BY FS_EmptySet
  <1> QED
    BY <1>1, <1>2, <1>3 DEF NewGame, InPlay, Sound

\* An arrival: the count keeps up with the flags, and the game is won if and
\* only if the last flag has been set.
LEMMA ArrivedSound ==
    ASSUME NEW g, InPlay(g), NEW d \in Ports, NEW random \in RandomGrids
    PROVE  Sound(Arrived(g, d, random))
  <1> DEFINE visited == g.portVisited \cup {d}
             count == IF d \in g.portVisited THEN g.visitedPortsCount
                                             ELSE g.visitedPortsCount + 1
             prices == FluctuatePrices(g.goodsPrices, random)
             status == IF count >= NumPorts THEN "WON" ELSE g.status
  <1>1. /\ g \in GameStates
        /\ g.visitedPortsCount = Cardinality(g.portVisited)
        /\ g.status = "PLAYING"
    BY DEF InPlay, Sound
  <1>2. g.portVisited \subseteq Ports /\ visited \subseteq Ports
    BY <1>1 DEF GameStates
  <1>3. IsFiniteSet(g.portVisited) /\ IsFiniteSet(visited)
    BY <1>2, PortsFinite, FS_Subset
  <1>4. count = Cardinality(visited)
    <2>1. CASE d \in g.portVisited
      <3>1. visited = g.portVisited
        BY <2>1
      <3> QED
        BY <2>1, <3>1, <1>1
    <2>2. CASE d \notin g.portVisited
      BY <2>2, <1>1, <1>3, FS_AddElement
    <2> QED
      BY <2>1, <2>2
  <1>5. /\ count \in 0..NumPorts
        /\ count >= NumPorts <=> visited = Ports
    <2>1. /\ Cardinality(visited) <= NumPorts
          /\ Cardinality(visited) = NumPorts => visited = Ports
      BY <1>2, PortsFinite, FS_Subset
    <2>2. Cardinality(visited) \in Nat
      BY <1>3, FS_CardinalityType
    <2> QED
      BY <2>1, <2>2, <1>4, PortsFinite, SizesOK
  <1>6. prices \in Grids
    BY <1>1, FluctuatePricesType DEF GameStates
  <1>7. Arrived(g, d, random) =
          [g EXCEPT !.fuelFlag = 0, !.currentPort = d,
                    !.portVisited = visited, !.visitedPortsCount = count,
                    !.goodsPrices = prices, !.status = status]
    BY DEF Arrived
  <1>8. status = "WON" <=> visited = Ports
    BY <1>1, <1>5
  <1>9. status \in {"PLAYING", "WON"}
    BY <1>1
  <1> HIDE DEF visited, count, prices, status
  <1>10. Arrived(g, d, random) \in GameStates
    BY <1>1, <1>2, <1>5, <1>6, <1>7, <1>9 DEF GameStates, Statuses
  <1>11. /\ Arrived(g, d, random).visitedPortsCount = count
         /\ Arrived(g, d, random).portVisited = visited
         /\ Arrived(g, d, random).status = status
    BY <1>1, <1>7 DEF GameStates
  <1> QED
    BY <1>4, <1>8, <1>9, <1>10, <1>11 DEF Sound

\* A purchase leaves the game in play.
LEMMA BoughtInPlay ==
    ASSUME NEW g, InPlay(g), NEW k \in Goods, NEW q \in Nat, Buyable(g, k, q)
    PROVE  InPlay(Bought(g, k, q))
  <1>1. g \in GameStates
    BY DEF InPlay, Sound
  <1>2. Bought(g, k, q) \in GameStates
    BY <1>1, BoughtType
  <1>3. /\ Bought(g, k, q).visitedPortsCount = g.visitedPortsCount
        /\ Bought(g, k, q).portVisited = g.portVisited
        /\ Bought(g, k, q).status = g.status
    BY <1>1 DEF Bought, GameStates
  <1> QED
    BY <1>2, <1>3 DEF InPlay, Sound

\* A sale leaves the game in play.
LEMMA SoldInPlay ==
    ASSUME NEW g, InPlay(g), NEW k \in Goods, NEW q \in Nat, Sellable(g, k, q)
    PROVE  InPlay(Sold(g, k, q))
  <1>1. g \in GameStates
    BY DEF InPlay, Sound
  <1>2. Sold(g, k, q) \in GameStates
    BY <1>1, SoldType
  <1>3. /\ Sold(g, k, q).visitedPortsCount = g.visitedPortsCount
        /\ Sold(g, k, q).portVisited = g.portVisited
        /\ Sold(g, k, q).status = g.status
    BY <1>1 DEF Sold, GameStates
  <1> QED
    BY <1>2, <1>3 DEF InPlay, Sound

\* The inductive invariant: at every prompt the game is still being played,
\* without which neither outcome would be final.
ScreenInv ==
    /\ ScreenTypeOK
    /\ Sound(game)
    /\ pc # "goback" => game.status = "PLAYING"

\* The quantities typed are natural numbers that fit their field.
LEMMA QuantitiesNat == Quantities \subseteq 0..(CargoCap - 1) /\ Quantities \subseteq Nat
  BY InputsOK, FieldsOK

\* Every step of PORT-SCREEN preserves the invariant.
LEMMA ScreenStepInv ==
    ASSUME ScreenInv, ScreenStep
    PROVE  ScreenInv'
  <1> USE DEF ScreenInv, ScreenTypeOK, ScreenPoints, Digits, Goback, Menu
  <1>0. game \in GameStates /\ Sound(game)
    BY DEF ScreenInv
  <1>1. ASSUME NEW v \in Digits, OtherChoice(v)
        PROVE  ScreenInv'
    BY <1>1 DEF OtherChoice
  <1>2. CASE Navigate
    BY <1>2 DEF Navigate
  <1>3. CASE NavigateRefused
    BY <1>3 DEF NavigateRefused
  <1>4. CASE Lose
    <2>1. /\ game' = [game EXCEPT !.status = "LOST"]
          /\ game.status = "PLAYING"
          /\ game.fuelFlag # 1 /\ game.money < FuelCost
      BY <1>4 DEF Lose
    <2>2. game' \in GameStates /\ Sound(game')
      BY <1>0, <2>1 DEF Sound, GameStates, Statuses
    <2> QED
      BY <1>4, <2>2 DEF Lose
  <1>5. ASSUME NEW v \in {2, 3}, NEW prompt \in {"buyProduct", "sellProduct"},
               AskProduct(v, prompt)
        PROVE  ScreenInv'
    BY <1>5 DEF AskProduct
  <1>6. CASE Refuel
    <2>1. /\ game' = [game EXCEPT !.money = @ - FuelCost, !.fuelFlag = 1]
          /\ game.status = "PLAYING"
          /\ game.money >= FuelCost
      BY <1>6 DEF Refuel
    <2>2. game.money - FuelCost \in 0..(MoneyCap - 1)
      BY <1>0, <2>1, AmountsOK, FieldsOK DEF GameStates
    <2>3. game' \in GameStates /\ Sound(game')
      BY <1>0, <2>1, <2>2 DEF Sound, GameStates
    <2> QED
      BY <1>6, <2>3 DEF Refuel
  <1>7. CASE RefuelRefused
    BY <1>7 DEF RefuelRefused
  <1>8. ASSUME NEW d \in Numbers, Sail(d)
        PROVE  ScreenInv'
    <2>1. PICK random \in RandomGrids : game' = Arrived(game, d, random)
      BY <1>8 DEF Sail
    <2>2. InPlay(game) /\ d \in Ports
      BY <1>8 DEF Sail, InPlay
    <2>3. Sound(game')
      BY <2>1, <2>2, ArrivedSound
    <2> QED
      BY <1>8, <2>3 DEF Sail, Sound
  <1>9. ASSUME NEW d \in Numbers, DestinationRefused(d)
        PROVE  ScreenInv'
    BY <1>9 DEF DestinationRefused, screenVars
  <1>10. ASSUME NEW k \in Numbers, BuyProduct(k)
         PROVE  ScreenInv'
    BY <1>10 DEF BuyProduct, Product
  <1>11. ASSUME NEW k \in Numbers, SellProduct(k)
         PROVE  ScreenInv'
    BY <1>11 DEF SellProduct, Product
  <1>12. ASSUME NEW q \in Quantities, Buy(q)
         PROVE  ScreenInv'
    <2>1. InPlay(game) /\ arg \in Goods /\ q \in Nat
      BY <1>12, QuantitiesNat DEF Buy, Quantity, InPlay
    <2>2. CASE Buyable(game, arg, q)
      <3>1. game' = Bought(game, arg, q)
        BY <1>12, <2>2 DEF Buy
      <3>2. InPlay(game')
        BY <2>1, <2>2, <3>1, BoughtInPlay
      <3> QED
        BY <1>12, <3>2 DEF Buy, Quantity, InPlay, Sound
    <2>3. CASE ~Buyable(game, arg, q)
      BY <1>12, <2>3 DEF Buy, Quantity
    <2> QED
      BY <2>2, <2>3
  <1>13. ASSUME NEW q \in Quantities, Sell(q)
         PROVE  ScreenInv'
    <2>1. InPlay(game) /\ arg \in Goods /\ q \in Nat
      BY <1>13, QuantitiesNat DEF Sell, Quantity, InPlay
    <2>2. CASE Sellable(game, arg, q)
      <3>1. game' = Sold(game, arg, q)
        BY <1>13, <2>2 DEF Sell
      <3>2. InPlay(game')
        BY <2>1, <2>2, <3>1, SoldInPlay
      <3> QED
        BY <1>13, <3>2 DEF Sell, Quantity, InPlay, Sound
    <2>3. CASE ~Sellable(game, arg, q)
      BY <1>13, <2>3 DEF Sell, Quantity
    <2> QED
      BY <2>2, <2>3
  <1> QED
    BY <1>1, <1>2, <1>3, <1>4, <1>5, <1>6, <1>7, <1>8, <1>9, <1>10, <1>11,
       <1>12, <1>13 DEF ScreenStep

\* ScreenInv holds initially and is preserved by every step.
LEMMA ScreenInvInductive ==
    /\ ScreenInit => ScreenInv
    /\ ScreenInv /\ [ScreenNext]_screenVars => ScreenInv'
  <1>1. ASSUME ScreenInit
        PROVE  ScreenInv
    <2>1. PICK random \in RandomGrids : game = NewGame(random)
      BY <1>1 DEF ScreenInit
    <2>2. InPlay(game)
      BY <2>1, NewGameInPlay
    <2> QED
      BY <1>1, <2>2 DEF ScreenInit, ScreenInv, ScreenTypeOK, ScreenPoints,
                        Digits, InPlay, Sound
  <1>2. ASSUME ScreenInv, [ScreenNext]_screenVars
        PROVE  ScreenInv'
    <2>1. CASE ScreenStep
      BY <1>2, <2>1, ScreenStepInv
    <2>2. CASE CallAgain
      BY <1>2, <2>2 DEF CallAgain, ScreenInv, ScreenTypeOK, ScreenPoints, Digits
    <2>3. CASE InputEnds
      BY <1>2, <2>3 DEF InputEnds, ScreenInv, ScreenTypeOK
    <2>4. CASE UNCHANGED screenVars
      BY <1>2, <2>4 DEF screenVars, ScreenInv, ScreenTypeOK
    <2> QED
      BY <1>2, <2>1, <2>2, <2>3, <2>4 DEF ScreenNext
  <1> QED
    BY <1>1, <1>2

-----------------------------------------------------------------------------
(* The theorems.                                                           *)

\* ScreenInv is an inductive invariant of the program called in a loop.
THEOREM ScreenInvariant == ScreenSpec => []ScreenInv
  BY ScreenInvInductive, PTL DEF ScreenSpec

\* The screen keeps every field within its type, the signed money field
\* included: no purchase or refuelling makes it negative.
THEOREM ScreenTypeCorrect == ScreenSpec => []ScreenTypeOK
  <1>1. ScreenInv => ScreenTypeOK
    BY DEF ScreenInv
  <1> QED
    BY <1>1, ScreenInvariant, PTL

\* The count PROCESS-NAVIGATION keeps is the number of ports it has flagged.
THEOREM CountCorrect == ScreenSpec => []CountMatchesVisited
  <1>1. ScreenInv => CountMatchesVisited
    BY DEF ScreenInv, Sound, CountMatchesVisited
  <1> QED
    BY <1>1, ScreenInvariant, PTL

\* The game is won with the last port and lost only out of fuel and money.
THEOREM OutcomeCorrect == ScreenSpec => []OutcomeJustified
  <1>1. ScreenInv => OutcomeJustified
    BY DEF ScreenInv, Sound, OutcomeJustified
  <1> QED
    BY <1>1, ScreenInvariant, PTL

-----------------------------------------------------------------------------
(* Trades.                                                                 *)

\* A hold that overflows ends up emptier than before, never fuller.
LEMMA WrappedSum ==
    ASSUME NEW n \in Nat \ {0}, NEW a \in 0..(n - 1), NEW b \in 0..(n - 1)
    PROVE  /\ (a + b) % n > a => (a + b) % n = a + b
           /\ (a + b) % n = a => b = 0
  <1>1. CASE a + b < n
    <2>1. (a + b) % n = a + b
      BY <1>1, ModSmall
    <2> QED
      BY <2>1
  <1>2. CASE a + b >= n
    <2>1. (a + b) % n = a + b - n
      BY <1>2, SMT
    <2> QED
      BY <2>1
  <1> QED
    BY <1>1, <1>2

\* What a purchase changes: one good's quantity, and the money by the total.
LEMMA BoughtExactly ==
    ASSUME NEW g \in GameStates, NEW k \in Goods, NEW q \in Quantities,
           Buyable(g, k, q)
    PROVE  LET h == Bought(g, k, q)
               more == h.cargoQuantity[k] - g.cargoQuantity[k]
               posted == g.goodsPrices[g.currentPort][k] * more
           IN  /\ \A j \in Goods \ {k} : h.cargoQuantity[j] = g.cargoQuantity[j]
               /\ more # 0
               /\ more > 0 /\ posted < CostCap * Scale
                    => g.money - h.money \in (posted - Scale + 1)..posted
  <1> DEFINE h == Bought(g, k, q)
             held == g.cargoQuantity[k]
             price == g.goodsPrices[g.currentPort][k]
             more == h.cargoQuantity[k] - held
  <1>1. q \in 0..(CargoCap - 1) /\ q \in Nat /\ q > 0
    BY QuantitiesNat DEF Buyable
  <1>2. held \in 0..(CargoCap - 1)
    BY DEF GameStates
  <1>3. /\ h.cargoQuantity = [g.cargoQuantity EXCEPT ![k] = (held + q) % CargoCap]
        /\ h.money = g.money - ComputedPrice(g, k, q) * Scale
    BY DEF Bought, GameStates
  <1>4. \A j \in Goods \ {k} : h.cargoQuantity[j] = g.cargoQuantity[j]
    BY <1>3 DEF GameStates
  <1>5. h.cargoQuantity[k] = (held + q) % CargoCap
    BY <1>3 DEF GameStates
  <1>6. more # 0 /\ (more > 0 => more = q)
    <2>a. held + q \in Int
      BY <1>1, <1>2, FieldsOK
    <2>1. (held + q) % CargoCap \in Int
      BY <2>a, ModRange, FieldsOK
    <2>2. /\ (held + q) % CargoCap > held => (held + q) % CargoCap = held + q
          /\ (held + q) % CargoCap = held => q = 0
      BY <1>1, <1>2, WrappedSum, FieldsOK
    <2> HIDE DEF held
    <2> QED
      BY <1>1, <1>2, <1>5, <2>1, <2>2
  <1>7. ASSUME more > 0, price * more < CostCap * Scale
        PROVE  g.money - h.money \in (price * more - Scale + 1)..(price * more)
    <2>1. more = q
      BY <1>6, <1>7
    <2>2. ComputedPrice(g, k, q) * Scale \in (price * q - Scale + 1)..(price * q)
      BY <1>1, <1>7, <2>1, ComputedPriceExact
    <2>3. g.money \in Int /\ ComputedPrice(g, k, q) * Scale \in Int
      BY <1>1, ComputedPriceType, FieldsOK DEF GameStates
    <2>4. g.money - h.money = ComputedPrice(g, k, q) * Scale
      BY <1>3, <2>3
    <2> QED
      BY <2>1, <2>2, <2>4
  <1> QED
    BY <1>4, <1>6, <1>7

\* What a sale changes: one good's quantity, and the money by the total.
LEMMA SoldExactly ==
    ASSUME NEW g \in GameStates, NEW k \in Goods, NEW q \in Quantities,
           Sellable(g, k, q)
    PROVE  LET h == Sold(g, k, q)
               less == g.cargoQuantity[k] - h.cargoQuantity[k]
               posted == g.goodsPrices[g.currentPort][k] * less
           IN  /\ \A j \in Goods \ {k} : h.cargoQuantity[j] = g.cargoQuantity[j]
               /\ less > 0
               /\ posted < CostCap * Scale /\ g.money + posted < MoneyCap
                    => h.money - g.money \in (posted - Scale + 1)..posted
  <1> DEFINE h == Sold(g, k, q)
             held == g.cargoQuantity[k]
             price == g.goodsPrices[g.currentPort][k]
             less == held - h.cargoQuantity[k]
             proceeds == ComputedPrice(g, k, q) * Scale
  <1>1. q \in Nat /\ q > 0
    BY QuantitiesNat DEF Sellable
  <1>2. held \in Nat /\ g.money \in Nat
    BY FieldsOK DEF GameStates
  <1>3. /\ h.cargoQuantity = [g.cargoQuantity EXCEPT ![k] = held - q]
        /\ h.money = (g.money + proceeds) % MoneyCap
    BY DEF Sold, GameStates
  <1>4. \A j \in Goods \ {k} : h.cargoQuantity[j] = g.cargoQuantity[j]
    BY <1>3 DEF GameStates
  <1>5. h.cargoQuantity[k] = held - q
    BY <1>3 DEF GameStates
  <1>6. less = q
    BY <1>1, <1>2, <1>5
  <1>7. ASSUME price * less < CostCap * Scale, g.money + price * less < MoneyCap
        PROVE  h.money - g.money \in (price * less - Scale + 1)..(price * less)
    <2>1. proceeds \in (price * q - Scale + 1)..(price * q)
      BY <1>1, <1>6, <1>7, ComputedPriceExact
    <2>2. proceeds \in Nat /\ price * q \in Nat
      BY <1>1, ComputedPriceType, PostedType
    <2> HIDE DEF proceeds, price
    <2>3. g.money + proceeds \in 0..(MoneyCap - 1)
      BY <1>2, <1>6, <1>7, <2>1, <2>2, FieldsOK
    <2>4. h.money = g.money + proceeds
      BY <1>3, <2>3, ModSmall, FieldsOK
    <2> QED
      BY <1>2, <1>6, <2>1, <2>2, <2>4
  <1> QED
    BY <1>1, <1>4, <1>6, <1>7

\* Every step of the program trades at the posted price.
LEMMA TradeStep ==
    ASSUME ScreenInv, ScreenNext
    PROVE  ExactTrade
  <1>0. game \in GameStates
    BY DEF ScreenInv, Sound
  <1>1. CASE game' = game
    <2>1. \A k \in Goods : game.cargoQuantity[k] \in Nat
      BY <1>0, FieldsOK DEF GameStates
    <2>2. game.money \in Int
      BY <1>0, FieldsOK DEF GameStates
    <2> QED
      BY <1>1, <2>1, <2>2 DEF ExactTrade
  <1>2. ASSUME pc = "buyQuantity", NEW q \in Quantities,
               Buyable(game, arg, q), game' = Bought(game, arg, q)
        PROVE  ExactTrade
    <2>1. arg \in Goods
      BY <1>2 DEF ScreenInv, ScreenTypeOK
    <2> DEFINE more(k) == game'.cargoQuantity[k] - game.cargoQuantity[k]
    <2>2. /\ \A k \in Goods \ {arg} :
               game'.cargoQuantity[k] = game.cargoQuantity[k]
          /\ more(arg) # 0
          /\ more(arg) > 0 /\ PostedPrice(arg, more(arg)) < CostCap * Scale
               => game.money - game'.money \in
                    (PostedPrice(arg, more(arg)) - Scale + 1)
                      ..PostedPrice(arg, more(arg))
      BY <1>0, <1>2, <2>1, BoughtExactly DEF PostedPrice
    <2>3. \A k \in Goods : game.cargoQuantity[k] \in Int
      BY <1>0, FieldsOK DEF GameStates
    <2>4. game' \in GameStates
      BY <1>0, <1>2, <2>1, BoughtType, QuantitiesNat
    <2>5. -(game'.money - game.money) = game.money - game'.money
      BY <1>0, <2>4, FieldsOK DEF GameStates
    <2>6. game'.cargoQuantity[arg] # game.cargoQuantity[arg]
      BY <2>1, <2>2, <2>3
    <2>7. \A k \in Goods : more(k) > 0 => k = arg
      BY <2>2, <2>3
    <2> QED
      BY <1>2, <2>1, <2>2, <2>5, <2>6, <2>7 DEF ExactTrade
  <1>3. ASSUME pc = "sellQuantity", NEW q \in Quantities,
               Sellable(game, arg, q), game' = Sold(game, arg, q)
        PROVE  ExactTrade
    <2>1. arg \in Goods
      BY <1>3 DEF ScreenInv, ScreenTypeOK
    <2> DEFINE less(k) == game.cargoQuantity[k] - game'.cargoQuantity[k]
    <2>2. /\ \A k \in Goods \ {arg} :
               game'.cargoQuantity[k] = game.cargoQuantity[k]
          /\ PostedPrice(arg, less(arg)) < CostCap * Scale
               /\ game.money + PostedPrice(arg, less(arg)) < MoneyCap
               => game'.money - game.money \in
                    (PostedPrice(arg, less(arg)) - Scale + 1)
                      ..PostedPrice(arg, less(arg))
      BY <1>0, <1>3, <2>1, SoldExactly DEF PostedPrice
    <2>4. game' \in GameStates
      BY <1>0, <1>3, <2>1, SoldType, QuantitiesNat
    <2>3. \A k \in Goods : /\ game.cargoQuantity[k] \in Int
                           /\ game'.cargoQuantity[k] \in Int
      BY <1>0, <2>4, FieldsOK DEF GameStates
    <2>5. \A k \in Goods :
             -(game'.cargoQuantity[k] - game.cargoQuantity[k]) = less(k)
      BY <2>3
    <2>6. \A k \in Goods :
             game'.cargoQuantity[k] - game.cargoQuantity[k] < 0 => k = arg
      BY <2>2, <2>3
    <2> QED
      BY <1>3, <2>1, <2>2, <2>5, <2>6 DEF ExactTrade
  <1>4. CASE pc \notin {"buyQuantity", "sellQuantity"}
    BY <1>4 DEF ExactTrade
  <1>5. ASSUME pc = "buyQuantity"
        PROVE  \/ game' = game
               \/ \E q \in Quantities :
                    Buyable(game, arg, q) /\ game' = Bought(game, arg, q)
    BY <1>5 DEF ScreenNext, ScreenStep, OtherChoice, Navigate, NavigateRefused,
       Lose, AskProduct, Refuel, RefuelRefused, Menu, Sail, DestinationRefused,
       BuyProduct, SellProduct, Product, Buy, Sell, Quantity, CallAgain,
       InputEnds, screenVars
  <1>6. ASSUME pc = "sellQuantity"
        PROVE  \/ game' = game
               \/ \E q \in Quantities :
                    Sellable(game, arg, q) /\ game' = Sold(game, arg, q)
    BY <1>6 DEF ScreenNext, ScreenStep, OtherChoice, Navigate, NavigateRefused,
       Lose, AskProduct, Refuel, RefuelRefused, Menu, Sail, DestinationRefused,
       BuyProduct, SellProduct, Product, Buy, Sell, Quantity, CallAgain,
       InputEnds, screenVars
  <1> QED
    BY <1>1, <1>2, <1>3, <1>4, <1>5, <1>6

\* Neither the truncated WS-PRICE nor the field widths let a trade whose total
\* fits its fields move anything but the posted price, cents cut off.
THEOREM TradesCorrect == ScreenSpec => TradesAtPostedPrice
  <1>1. ScreenInv /\ [ScreenNext]_screenVars => [ExactTrade]_screenVars
    BY TradeStep
  <1> QED
    BY <1>1, ScreenInvariant, PTL DEF ScreenSpec, TradesAtPostedPrice
=============================================================================
