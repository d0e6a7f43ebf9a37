---------------------------- MODULE VoyageProofs ----------------------------
(* Proofs about the history variables of Voyage.                           *)
EXTENDS Voyage, PortScreenProofs, SumTheorems

\* The destination prompt is only reached, and only left, with a full tank.
VoyageInv ==
    /\ ScreenInv
    /\ pc = "destination" => game.fuelFlag = 1
    /\ EveryArrivalHasItsTank

\* VoyageInv holds initially and is preserved by every step.
LEMMA VoyageInvInductive ==
    /\ VoyageInit => VoyageInv
    /\ VoyageInv /\ [VoyageNext]_voyageVars => VoyageInv'
  <1>1. ASSUME VoyageInit
        PROVE  VoyageInv
    <2>1. PICK random \in RandomGrids : game = NewGame(random)
      BY <1>1 DEF VoyageInit, ScreenInit
    <2>2. game.fuelFlag = 0
      BY <2>1 DEF NewGame
    <2> QED
      BY <1>1, <2>2, ScreenInvInductive
         DEF VoyageInit, VoyageInv, ScreenInit, EveryArrivalHasItsTank
  <1>2. ASSUME VoyageInv, VoyageNext
        PROVE  VoyageInv'
    <2> USE DEF VoyageInv, EveryArrivalHasItsTank, Account, Goback
    <2>1. ScreenInv'
      BY <1>2, ScreenInvInductive DEF VoyageNext
    <2>a. game \in GameStates
      BY <1>2 DEF ScreenInv, Sound
    <2>2. /\ game \in GameStates
          /\ FuelCost \in Nat \ {0}
          /\ game.money \in Int
          /\ game.fuelFlag \in {0, 1}
      BY <2>a, AmountsOK, FieldsOK DEF GameStates
    <2>3. ASSUME UNCHANGED game, pc' # "destination" \/ game.fuelFlag = 1
          PROVE  VoyageInv'
      BY <1>2, <2>1, <2>2, <2>3 DEF VoyageNext, ArrivalMade, TankPaid
    <2>4. CASE Lose
      <3>a. game' = [game EXCEPT !.status = "LOST"]
        BY <2>4 DEF Lose
      <3>1. /\ game'.currentPort = game.currentPort
            /\ game'.money = game.money
            /\ game'.fuelFlag = game.fuelFlag
        BY <2>2, <3>a DEF GameStates
      <3> QED
        BY <1>2, <2>1, <2>2, <2>4, <3>1
           DEF VoyageNext, ArrivalMade, TankPaid, Lose
    <2>5. CASE Refuel
      <3>a. /\ game' = [game EXCEPT !.money = @ - FuelCost, !.fuelFlag = 1]
            /\ game.fuelFlag # 1
            /\ pc = "menu"
        BY <2>5 DEF Refuel, Menu
      <3>1. /\ game'.currentPort = game.currentPort
            /\ game'.money = game.money - FuelCost
            /\ game.fuelFlag = 0 /\ game'.fuelFlag = 1
        BY <2>2, <3>a DEF GameStates
      <3> QED
        BY <1>2, <2>1, <2>2, <2>5, <3>a, <3>1
           DEF VoyageNext, ArrivalMade, TankPaid, Refuel
    <2>6. ASSUME NEW d \in Numbers, Sail(d)
          PROVE  VoyageInv'
      <3>1. PICK random \in RandomGrids : game' = Arrived(game, d, random)
        BY <2>6 DEF Sail
      <3>2. /\ game'.currentPort = d
            /\ game'.fuelFlag = 0
        BY <2>2, <3>1 DEF Arrived, GameStates
      <3>3. d # game.currentPort /\ pc = "destination"
        BY <2>6 DEF Sail
      <3> QED
        BY <1>2, <2>1, <2>6, <3>2, <3>3
           DEF VoyageNext, ArrivalMade, TankPaid, Sail
    <2>7. ASSUME NEW k \in Goods, NEW q \in Nat,
                 game' = Bought(game, k, q) \/ game' = Sold(game, k, q),
                 pc # "menu", pc' = "goback"
          PROVE  VoyageInv'
      <3>1. /\ game'.currentPort = game.currentPort
            /\ game'.fuelFlag = game.fuelFlag
        BY <2>2, <2>7 DEF Bought, Sold, GameStates
      <3> QED
        BY <1>2, <2>1, <2>2, <2>7, <3>1 DEF VoyageNext, ArrivalMade, TankPaid
    <2>8. ASSUME NEW q \in Quantities, Buy(q) \/ Sell(q)
          PROVE  VoyageInv'
      <3>1. arg \in Goods /\ q \in Nat /\ pc # "menu" /\ pc' = "goback"
        BY <1>2, <2>8, QuantitiesNat
           DEF ScreenInv, ScreenTypeOK, Buy, Sell, Quantity
      <3>2. \/ game' = Bought(game, arg, q)
            \/ game' = Sold(game, arg, q)
            \/ UNCHANGED game
        BY <2>8 DEF Buy, Sell
      <3> QED
        BY <2>3, <2>7, <3>1, <3>2
    <2>9. CASE ~ \/ Lose
                 \/ Refuel
                 \/ \E d \in Numbers : Sail(d)
                 \/ \E q \in Quantities : Buy(q) \/ Sell(q)
      <3>1. UNCHANGED game /\ (pc' # "destination" \/ game.fuelFlag = 1)
        BY <1>2, <2>9 DEF VoyageNext, ScreenNext, ScreenStep, OtherChoice,
           Navigate, NavigateRefused, AskProduct, RefuelRefused, Menu,
           DestinationRefused, BuyProduct, SellProduct, Product, CallAgain,
           InputEnds, screenVars
      <3> QED
        BY <2>3, <3>1
    <2> QED
      BY <2>4, <2>5, <2>6, <2>8, <2>9
  <1>3. ASSUME VoyageInv, UNCHANGED voyageVars
        PROVE  VoyageInv'
    BY <1>3 DEF voyageVars, VoyageInv, EveryArrivalHasItsTank, ScreenInv,
       ScreenTypeOK
  <1> QED
    BY <1>1, <1>2, <1>3

\* No arrival without a tank paid for it, and no tank paid for twice: the
\* refuelling and the navigation of PORT-SCREEN keep each other's books.
THEOREM TanksCorrect == VoyageSpec => []EveryArrivalHasItsTank
  <1>1. VoyageInv => EveryArrivalHasItsTank
    BY DEF VoyageInv
  <1> QED
    BY <1>1, VoyageInvInductive, PTL DEF VoyageSpec

-----------------------------------------------------------------------------
(* What trading in one port earns.                                         *)

\* There are finitely many goods.
LEMMA GoodsFinite == IsFiniteSet(Goods)
  BY SizesOK, FS_Interval DEF Goods

\* The value of the cargo and the player's wealth are amounts.
LEMMA WealthType ==
    ASSUME NEW g \in GameStates
    PROVE  /\ \A k \in Goods : CargoValue(g)[k] \in Int
           /\ SumFunctionOnSet(CargoValue(g), Goods) \in Int
           /\ Wealth(g) \in Int
  <1>1. ASSUME NEW k \in Goods
        PROVE  CargoValue(g)[k] \in Int
    <2>1. g.cargoQuantity[k] \in Nat
      BY FieldsOK DEF GameStates
    <2> QED
      BY <2>1, PostedType DEF CargoValue
  <1>2. SumFunctionOnSet(CargoValue(g), Goods) \in Int
    BY <1>1, GoodsFinite, SumType
  <1>3. g.money \in Int
    BY FieldsOK DEF GameStates
  <1> QED
    BY <1>1, <1>2, <1>3 DEF Wealth

\* A trade in one good changes the wealth by the money and by the posted
\* price of what the hold gains.
LEMMA TradedWealth ==
    ASSUME NEW g \in GameStates, NEW h \in GameStates, NEW k \in Goods,
           h.currentPort = g.currentPort, h.goodsPrices = g.goodsPrices,
           \A j \in Goods \ {k} : h.cargoQuantity[j] = g.cargoQuantity[j]
    PROVE  Wealth(h) = Wealth(g) + (h.money - g.money)
                 + g.goodsPrices[g.currentPort][k]
                     * (h.cargoQuantity[k] - g.cargoQuantity[k])
  <1> DEFINE price == g.goodsPrices[g.currentPort][k]
             a == g.cargoQuantity[k]
             b == h.cargoQuantity[k]
             S == SumFunctionOnSet(CargoValue(g), Goods)
  <1>1. /\ \A j \in Goods : CargoValue(g)[j] \in Int /\ CargoValue(h)[j] \in Int
        /\ S \in Int
    BY WealthType
  <1>2. \A j \in Goods \ {k} : CargoValue(g)[j] = CargoValue(h)[j]
    BY DEF CargoValue
  <1>3. SumFunctionOnSet(CargoValue(h), Goods)
          = S + CargoValue(h)[k] - CargoValue(g)[k]
    <2> HIDE DEF S
    <2>1. SumFunctionOnSet(CargoValue(h), Goods)
            = SumFunctionOnSet(CargoValue(g), Goods)
                + CargoValue(h)[k] - CargoValue(g)[k]
      BY <1>1, <1>2, GoodsFinite, SumChange
    <2> QED
      BY <2>1 DEF S
  <1>4. CargoValue(g)[k] = price * a /\ CargoValue(h)[k] = price * b
    BY DEF CargoValue
  <1>5. /\ price \in Nat /\ a \in Nat /\ b \in Nat
        /\ g.money \in Int /\ h.money \in Int
    BY PostedType, FieldsOK DEF GameStates
  <1>6. Wealth(g) = g.money + S /\ Wealth(h) = h.money + (S + price * b - price * a)
    BY <1>3, <1>4 DEF Wealth
  <1> HIDE DEF price, a, b, S
  <1>7. price * (b - a) = price * b - price * a
    BY <1>5
  <1>8. price * b \in Int /\ price * a \in Int
    BY <1>5, ProductNat
  <1>9. Wealth(h) = Wealth(g) + (h.money - g.money) + (price * b - price * a)
    BY <1>1, <1>5, <1>6, <1>8
  <1> QED
    BY <1>7, <1>9 DEF price, a, b

\* WS-PRICE never holds more than the posted price of the quantity.
LEMMA ComputedAtMostPosted ==
    ASSUME NEW g \in GameStates, NEW k \in Goods, NEW q \in Nat
    PROVE  ComputedPrice(g, k, q) * Scale
             <= g.goodsPrices[g.currentPort][k] * q
  <1> DEFINE a == g.goodsPrices[g.currentPort][k] * q
             d == a \div Scale
  <1>1. a \in Nat
    BY PostedType
  <1>2. ComputedPrice(g, k, q) = d % CostCap
    BY DEF ComputedPrice
  <1> HIDE DEF a
  <1>3. d \in Nat /\ d * Scale <= a
    BY <1>1, WholePart, FieldsOK
  <1> HIDE DEF d
  <1>4. d % CostCap \in Nat /\ d % CostCap <= d
    BY <1>3, FieldsOK
  <1>5. (d % CostCap) * Scale <= d * Scale
    BY <1>3, <1>4, FieldsOK
  <1>6. (d % CostCap) * Scale \in Nat /\ d * Scale \in Nat
    BY <1>3, <1>4, ProductNat, FieldsOK
  <1> QED
    BY <1>1, <1>2, <1>3, <1>5, <1>6 DEF a

\* A purchase earns less than a dollar unless its total overflows WS-PRICE.
LEMMA PurchaseEarnsCents ==
    ASSUME NEW g \in GameStates, NEW k \in Goods, NEW q \in Quantities,
           Buyable(g, k, q)
    PROVE  LET h == Bought(g, k, q)
               more == h.cargoQuantity[k] - g.cargoQuantity[k]
           IN  /\ h.cargoQuantity # g.cargoQuantity
               /\ g.goodsPrices[g.currentPort][k] * more < CostCap * Scale
                    => Wealth(h) <= Wealth(g) + (Scale - 1)
  <1> DEFINE h == Bought(g, k, q)
             price == g.goodsPrices[g.currentPort][k]
             more == h.cargoQuantity[k] - g.cargoQuantity[k]
  <1>1. /\ \A j \in Goods \ {k} : h.cargoQuantity[j] = g.cargoQuantity[j]
        /\ more # 0
        /\ more > 0 /\ price * more < CostCap * Scale
             => g.money - h.money \in (price * more - Scale + 1)..(price * more)
    BY BoughtExactly
  <1>2. h \in GameStates /\ q \in Nat
    BY BoughtType, QuantitiesNat
  <1>3. h.currentPort = g.currentPort /\ h.goodsPrices = g.goodsPrices
    BY DEF Bought, GameStates
  <1>4. Wealth(h) = Wealth(g) + (h.money - g.money) + price * more
    BY <1>1, <1>2, <1>3, TradedWealth
  <1>5. h.money <= g.money
    <2>1. PICK total \in Nat : total = ComputedPrice(g, k, q) * Scale
      BY <1>2, ComputedPriceType
    <2>2. h.money = g.money - total
      BY <2>1 DEF Bought, GameStates
    <2>3. g.money \in Int
      BY FieldsOK DEF GameStates
    <2> QED
      BY <2>2, <2>3
  <1>6. /\ g.money \in Int /\ h.money \in Int
        /\ Wealth(g) \in Int /\ Wealth(h) \in Int
        /\ price \in Nat /\ Scale \in Nat \ {0}
        /\ h.cargoQuantity[k] \in Nat /\ g.cargoQuantity[k] \in Nat
    BY <1>2, WealthType, PostedType, FieldsOK DEF GameStates
  <1>7. more \in Int
    BY <1>6
  <1>8. h.cargoQuantity # g.cargoQuantity
    BY <1>1, <1>6
  <1> HIDE DEF h, price, more
  <1>9. ASSUME price * more < CostCap * Scale
        PROVE  Wealth(h) <= Wealth(g) + (Scale - 1)
    <2>1. CASE more > 0
      <3>1. price * more \in Int
        BY <1>6, <1>7, <2>1, ProductNat
      <3> QED
        BY <1>1, <1>4, <1>6, <1>9, <2>1, <3>1
    <2>2. CASE more < 0
      <3>1. price * more <= 0 /\ price * more \in Int
        BY <1>6, <1>7, <2>2, SMT
      <3> QED
        BY <1>4, <1>5, <1>6, <3>1
    <2> QED
      BY <1>1, <1>7, <2>1, <2>2
  <1> QED
    BY <1>8, <1>9 DEF h, price, more

\* A sale earns nothing, whatever overflows.
LEMMA SaleEarnsNothing ==
    ASSUME NEW g \in GameStates, NEW k \in Goods, NEW q \in Quantities,
           Sellable(g, k, q)
    PROVE  Wealth(Sold(g, k, q)) <= Wealth(g)
  <1> DEFINE h == Sold(g, k, q)
             price == g.goodsPrices[g.currentPort][k]
             proceeds == ComputedPrice(g, k, q) * Scale
  <1>1. h \in GameStates /\ q \in Nat
    BY SoldType, QuantitiesNat
  <1>2. \A j \in Goods \ {k} : h.cargoQuantity[j] = g.cargoQuantity[j]
    BY SoldExactly
  <1>3. /\ h.currentPort = g.currentPort /\ h.goodsPrices = g.goodsPrices
        /\ h.cargoQuantity[k] = g.cargoQuantity[k] - q
        /\ h.money = (g.money + proceeds) % MoneyCap
    BY DEF Sold, GameStates
  <1>4. Wealth(h) = Wealth(g) + (h.money - g.money)
                      + price * (h.cargoQuantity[k] - g.cargoQuantity[k])
    BY <1>1, <1>2, <1>3, TradedWealth
  <1>5. proceeds \in Nat /\ price * q \in Nat /\ proceeds <= price * q
    BY <1>1, ComputedPriceType, PostedType, ComputedAtMostPosted
  <1>6. /\ g.money \in Nat /\ Wealth(g) \in Int /\ price \in Nat
        /\ g.cargoQuantity[k] \in Nat
    BY WealthType, PostedType, FieldsOK DEF GameStates
  <1>7. h.cargoQuantity[k] - g.cargoQuantity[k] = -q
    BY <1>1, <1>3, <1>6
  <1> HIDE DEF h, price, proceeds
  <1>8. price * (-q) = -(price * q)
    BY <1>1, <1>6
  <1>9. h.money \in Int /\ h.money <= g.money + proceeds
    BY <1>3, <1>5, <1>6, FieldsOK
  <1>10. Wealth(h) = Wealth(g) + (h.money - g.money) - price * q
    BY <1>4, <1>5, <1>6, <1>7, <1>8, <1>9
  <1>11. Wealth(h) <= Wealth(g)
    BY <1>5, <1>6, <1>9, <1>10
  <1> QED
    BY <1>11 DEF h

\* The inductive invariant: the books of the present stay balance.
StayInv ==
    /\ ScreenInv
    /\ stayWealth \in Int
    /\ purchases \in Nat
    /\ totalsFit \in BOOLEAN
    /\ OnlyCentsAreEarnedInPort

\* A step at another prompt than the quantities' earns nothing, unless the
\* ship arrives, and then a new stay begins.
LEMMA OtherStepEarnsNothing ==
    ASSUME ScreenInv, ScreenNext, pc \notin {"buyQuantity", "sellQuantity"}
    PROVE  \/ game'.currentPort # game.currentPort
           \/ /\ game'.currentPort = game.currentPort
              /\ game'.cargoQuantity = game.cargoQuantity
              /\ Wealth(game') <= Wealth(game)
  <1>1. /\ game \in GameStates /\ Wealth(game) \in Int
        /\ FuelCost \in Nat /\ game.money \in Int
        /\ SumFunctionOnSet(CargoValue(game), Goods) \in Int
    BY WealthType, AmountsOK, FieldsOK DEF ScreenInv, ScreenTypeOK, GameStates
  <1>2. CASE UNCHANGED game
    BY <1>1, <1>2
  <1>3. ASSUME /\ game'.currentPort = game.currentPort
               /\ game'.cargoQuantity = game.cargoQuantity
               /\ game'.goodsPrices = game.goodsPrices
               /\ game'.money \in {game.money, game.money - FuelCost}
        PROVE  Wealth(game') <= Wealth(game)
    <2>1. CargoValue(game') = CargoValue(game)
      BY <1>3 DEF CargoValue
    <2> QED
      BY <1>1, <1>3, <2>1 DEF Wealth
  <1>4. CASE Lose
    <2>1. game' = [game EXCEPT !.status = "LOST"]
      BY <1>4 DEF Lose
    <2>2. /\ game'.currentPort = game.currentPort
          /\ game'.cargoQuantity = game.cargoQuantity
          /\ game'.goodsPrices = game.goodsPrices
          /\ game'.money = game.money
      BY <1>1, <2>1 DEF GameStates
    <2> QED
      BY <1>3, <2>2
  <1>5. CASE Refuel
    <2>1. game' = [game EXCEPT !.money = @ - FuelCost, !.fuelFlag = 1]
      BY <1>5 DEF Refuel
    <2>2. /\ game'.currentPort = game.currentPort
          /\ game'.cargoQuantity = game.cargoQuantity
          /\ game'.goodsPrices = game.goodsPrices
          /\ game'.money = game.money - FuelCost
      BY <1>1, <2>1 DEF GameStates
    <2> QED
      BY <1>3, <2>2
  <1>6. ASSUME NEW d \in Numbers, Sail(d)
        PROVE  game'.currentPort # game.currentPort
    <2>1. PICK random \in RandomGrids : game' = Arrived(game, d, random)
      BY <1>6 DEF Sail
    <2>2. game'.currentPort = d
      BY <1>1, <2>1 DEF Arrived, GameStates
    <2> QED
      BY <1>6, <2>2 DEF Sail
  <1>7. CASE ~ \/ Lose
               \/ Refuel
               \/ \E d \in Numbers : Sail(d)
    <2>1. UNCHANGED game
      BY <1>7 DEF ScreenNext, ScreenStep, OtherChoice, Navigate,
         NavigateRefused, AskProduct, RefuelRefused, DestinationRefused,
         BuyProduct, SellProduct, Product, Buy, Sell, Quantity, CallAgain,
         InputEnds, screenVars
    <2> QED
      BY <1>2, <2>1
  <1> QED
    BY <1>4, <1>5, <1>6, <1>7

\* A purchase whose total fits earns less than a dollar; nothing else earns.
LEMMA StayStep ==
    ASSUME StayInv, ScreenNext,
           game'.currentPort = game.currentPort,
           PurchaseMade => TotalFits
    PROVE  Wealth(game') <= Wealth(game) + (IF PurchaseMade THEN Scale - 1 ELSE 0)
  <1>1. /\ game \in GameStates /\ Wealth(game) \in Int
        /\ Scale \in Nat \ {0}
    BY WealthType, FieldsOK DEF StayInv, ScreenInv, ScreenTypeOK
  <1>2. ASSUME pc = "buyQuantity", game' # game
        PROVE  \E q \in Quantities :
                  Buyable(game, arg, q) /\ game' = Bought(game, arg, q)
    BY <1>2 DEF ScreenNext, ScreenStep, OtherChoice, Navigate, NavigateRefused,
       Lose, AskProduct, Refuel, RefuelRefused, Menu, Sail, DestinationRefused,
       BuyProduct, SellProduct, Product, Buy, Sell, Quantity, CallAgain,
       InputEnds, screenVars
  <1>3. ASSUME pc = "sellQuantity", game' # game
        PROVE  \E q \in Quantities :
                  Sellable(game, arg, q) /\ game' = Sold(game, arg, q)
    BY <1>3 DEF ScreenNext, ScreenStep, OtherChoice, Navigate, NavigateRefused,
       Lose, AskProduct, Refuel, RefuelRefused, Menu, Sail, DestinationRefused,
       BuyProduct, SellProduct, Product, Buy, Sell, Quantity, CallAgain,
       InputEnds, screenVars
  <1>4. CASE pc = "buyQuantity" /\ game' # game
    <2>1. PICK q \in Quantities :
             Buyable(game, arg, q) /\ game' = Bought(game, arg, q)
      BY <1>2, <1>4
    <2>2. arg \in Goods
      BY <1>4 DEF StayInv, ScreenInv, ScreenTypeOK
    <2>3. LET more == game'.cargoQuantity[arg] - game.cargoQuantity[arg]
          IN  /\ game'.cargoQuantity # game.cargoQuantity
              /\ game.goodsPrices[game.currentPort][arg] * more
                   < CostCap * Scale
                   => Wealth(game') <= Wealth(game) + (Scale - 1)
      BY <1>1, <2>1, <2>2, PurchaseEarnsCents
    <2> QED
      BY <1>4, <2>3 DEF PurchaseMade, TotalFits, PostedPrice
  <1>5. CASE pc = "sellQuantity" /\ game' # game
    <2>1. PICK q \in Quantities :
             Sellable(game, arg, q) /\ game' = Sold(game, arg, q)
      BY <1>3, <1>5
    <2>2. arg \in Goods
      BY <1>5 DEF StayInv, ScreenInv, ScreenTypeOK
    <2>3. Wealth(game') <= Wealth(game)
      BY <1>1, <2>1, <2>2, SaleEarnsNothing
    <2> QED
      BY <1>1, <1>5, <2>3 DEF PurchaseMade
  <1>6. CASE pc \notin {"buyQuantity", "sellQuantity"}
    BY <1>1, <1>6, OtherStepEarnsNothing DEF StayInv, PurchaseMade
  <1>7. CASE game' = game
    BY <1>1, <1>7 DEF PurchaseMade
  <1> QED
    BY <1>4, <1>5, <1>6, <1>7

\* StayInv holds initially and is preserved by every step.
LEMMA StayInvInductive ==
    /\ VoyageInit => StayInv
    /\ StayInv /\ [VoyageNext]_voyageVars => StayInv'
  <1>1. ASSUME VoyageInit
        PROVE  StayInv
    <2>1. ScreenInv /\ game \in GameStates
      BY <1>1, ScreenInvInductive DEF VoyageInit, ScreenInv, ScreenTypeOK
    <2>2. Wealth(game) \in Int /\ Scale \in Nat \ {0}
      BY <2>1, WealthType, FieldsOK
    <2> QED
      BY <1>1, <2>1, <2>2 DEF VoyageInit, StayInv, OnlyCentsAreEarnedInPort
  <1>2. ASSUME StayInv, VoyageNext
        PROVE  StayInv'
    <2>1. ScreenInv'
      BY <1>2, ScreenInvInductive DEF VoyageNext, StayInv
    <2>2. /\ Wealth(game) \in Int /\ Wealth(game') \in Int
          /\ Scale \in Nat \ {0}
      BY <1>2, <2>1, WealthType, FieldsOK DEF StayInv, ScreenInv, ScreenTypeOK
    <2>3. stayWealth' \in Int /\ purchases' \in Nat /\ totalsFit' \in BOOLEAN
      BY <1>2, <2>2 DEF VoyageNext, Account, StayInv
    <2>4. CASE ArrivalMade
      BY <1>2, <2>1, <2>2, <2>3, <2>4
         DEF VoyageNext, Account, StayInv, OnlyCentsAreEarnedInPort
    <2>5. CASE ~ArrivalMade
      <3>1. /\ stayWealth' = stayWealth
            /\ purchases' = purchases + (IF PurchaseMade THEN 1 ELSE 0)
            /\ totalsFit' <=> totalsFit /\ (PurchaseMade => TotalFits)
        BY <1>2, <2>5 DEF VoyageNext, Account
      <3>2. SUFFICES ASSUME totalsFit'
                     PROVE  Wealth(game') <= stayWealth + purchases' * (Scale - 1)
        BY <2>1, <2>3, <3>1 DEF StayInv, OnlyCentsAreEarnedInPort
      <3>3. Wealth(game')
              <= Wealth(game) + (IF PurchaseMade THEN Scale - 1 ELSE 0)
        BY <1>2, <2>5, <3>1, <3>2, StayStep DEF VoyageNext, ArrivalMade
      <3>4. Wealth(game) <= stayWealth + purchases * (Scale - 1)
        BY <1>2, <3>1, <3>2 DEF StayInv, OnlyCentsAreEarnedInPort
      <3>5. purchases \in Nat /\ stayWealth \in Int /\ Scale - 1 \in Nat
        BY <1>2, <2>2 DEF StayInv
      <3>6. CASE PurchaseMade
        <4>1. purchases' * (Scale - 1) = purchases * (Scale - 1) + (Scale - 1)
          BY <3>1, <3>5, <3>6
        <4>2. purchases * (Scale - 1) \in Nat
          BY <3>5, ProductNat
        <4> QED
          BY <2>2, <3>3, <3>4, <3>5, <3>6, <4>1, <4>2
      <3>7. CASE ~PurchaseMade
        <4>1. purchases * (Scale - 1) \in Nat /\ purchases' = purchases
          BY <3>1, <3>5, <3>7, ProductNat
        <4> QED
          BY <2>2, <3>3, <3>4, <3>5, <3>7, <4>1
      <3> QED
        BY <3>6, <3>7
    <2> QED
      BY <2>4, <2>5
  <1>3. ASSUME StayInv, UNCHANGED voyageVars
        PROVE  StayInv'
    BY <1>3 DEF voyageVars, StayInv, OnlyCentsAreEarnedInPort, ScreenInv,
       ScreenTypeOK
  <1> QED
    BY <1>1, <1>2, <1>3

\* However the player splits and mixes purchases and sales, a stay earns less
\* than a dollar a purchase, unless the total of one overflows WS-PRICE.
THEOREM StayEarnsOnlyCents == VoyageSpec => []OnlyCentsAreEarnedInPort
  <1>1. StayInv => OnlyCentsAreEarnedInPort
    BY DEF StayInv
  <1> QED
    BY <1>1, StayInvInductive, PTL DEF VoyageSpec
=============================================================================
