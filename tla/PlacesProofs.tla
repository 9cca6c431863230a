---------------------------- MODULE PlacesProofs ----------------------------
(* Proofs about Trade: whatever is done with items, the two sides of a trade *)
(* see the same trade; and no sequence of moves, merges, splits, swaps and    *)
(* exchanges loses, duplicates or ties a knot of items.                     *)
EXTENDS Trade, TLAPS, FiniteSetTheorems, NaturalsInduction

-----------------------------------------------------------------------------
(* Trades.                                                                  *)

(* What a trade consists of, and where the two who trade are.               *)
TradeFields == {"tradeState", "tradePartner", "tradeItem", "tradeItems", "at"}

(* The fields for trades have their types; xs are swapping their items now.  *)
TradeTypes(w, xs) ==
  /\ TradeFields \subseteq DOMAIN w
  /\ w.tradeState \in
       [Players -> {"none", "acknowledge", "initiated", "accept", "transfer"}]
  /\ w.tradePartner \in [Players -> Players \cup {NoPlayer}]
  /\ w.tradeItem \in [Players -> Items \cup {NoItem}]
  /\ w.at \in [Players -> Tiles \cup {Nowhere}]
  /\ \A p \in Players : w.tradeState[p] = "transfer" <=> p \in xs

(* What a player has when his trade is in a certain state.                  *)
StateFits(w, p) ==
  /\ w.tradeState[p] = "none" <=> w.tradePartner[p] = NoPlayer
  /\ w.tradeState[p] \in {"none", "acknowledge"} => w.tradeItem[p] = NoItem
  /\ w.tradeState[p] = "initiated" => w.tradeItem[p] # NoItem

(* Partners point at each other and are near, and no trade is without an     *)
(* item or left when both have accepted.                                    *)
Paired(w, p, q) ==
  /\ q # p
  /\ w.tradePartner[q] = p
  /\ w.tradeItem[p] # NoItem \/ w.tradeItem[q] # NoItem
  /\ w.tradeState[p] # "accept" \/ w.tradeState[q] # "accept"
  /\ InRange(w.at[p], w.at[q], 2)

(* tradeItems has the offers of ps, which are different items.              *)
Offers(w, ps) ==
  /\ w.tradeItems = {w.tradeItem[p] : p \in ps} \ {NoItem}
  /\ \A p, q \in ps : w.tradeItem[p] = w.tradeItem[q] => p = q \/ w.tradeItem[p] = NoItem

(* TradesAgree of all but xs, as an invariant of all that happens to items.  *)
Trading(w, xs) ==
  /\ TradeTypes(w, xs)
  /\ \A p \in Players \ xs :
       /\ StateFits(w, p)
       /\ w.tradePartner[p] # NoPlayer =>
            w.tradePartner[p] \in Players \ xs /\ Paired(w, p, w.tradePartner[p])
  /\ Offers(w, Players \ xs)

SameTrades(w, v) ==
  /\ TradeFields \subseteq DOMAIN v
  /\ v.tradeState = w.tradeState /\ v.tradePartner = w.tradePartner
  /\ v.tradeItem = w.tradeItem /\ v.tradeItems = w.tradeItems
  /\ v.at = w.at

(* Outside of trades anything may change.                                   *)
LEMMA SameKeeps ==
  ASSUME NEW w, NEW xs, Trading(w, xs), NEW v, SameTrades(w, v)
  PROVE  Trading(v, xs)
  BY DEF Trading, SameTrades, TradeTypes, StateFits, Paired, Offers

-----------------------------------------------------------------------------
(* internalCloseTrade: whoever is closed out takes his partner with him.    *)
LEMMA CloseTradesKeeps ==
  ASSUME NEW w, NEW xs \in SUBSET Players, Trading(w, xs), NEW ps
  PROVE  Trading(CloseTrades(w, ps), xs)
<1> USE WorldAssumption
<1> DEFINE both == {p \in Players : /\ p \in ps \/ w.tradePartner[p] \in ps
                                    /\ w.tradeState[p] # "transfer"}
           v == CloseOwnTrades(w, both)
<1>1. CASE both = {}
  BY <1>1 DEF CloseTrades
<1>2. CASE both # {}
  <2>1. CloseTrades(w, ps) = v
    BY <1>2 DEF CloseTrades
  <2>2. /\ both \subseteq Players \ xs
        /\ \A p \in Players \ xs : w.tradePartner[p] # NoPlayer =>
             (p \in both <=> w.tradePartner[p] \in both)
    <3>1. \A p \in Players : w.tradeState[p] = "transfer" <=> p \in xs
      BY DEF Trading, TradeTypes
    <3>2. \A p \in Players \ xs : w.tradePartner[p] # NoPlayer =>
            /\ w.tradePartner[p] \in Players \ xs
            /\ w.tradePartner[w.tradePartner[p]] = p
      BY DEF Trading, Paired
    <3> QED BY <3>1, <3>2
  <2> HIDE DEF both
  <2>3. /\ TradeFields \subseteq DOMAIN v
        /\ v.tradeState = [p \in Players |-> IF p \in both THEN "none" ELSE w.tradeState[p]]
        /\ v.tradePartner = [p \in Players |-> IF p \in both THEN NoPlayer ELSE w.tradePartner[p]]
        /\ v.tradeItem = [p \in Players |-> IF p \in both THEN NoItem ELSE w.tradeItem[p]]
        /\ v.tradeItems = w.tradeItems \ {w.tradeItem[p] : p \in both}
        /\ v.at = w.at
    BY DEF Trading, TradeTypes, TradeFields, CloseOwnTrades
  <2> HIDE DEF v
  <2>4. \A p \in Players :
          /\ v.tradeState[p] = IF p \in both THEN "none" ELSE w.tradeState[p]
          /\ v.tradePartner[p] = IF p \in both THEN NoPlayer ELSE w.tradePartner[p]
          /\ v.tradeItem[p] = IF p \in both THEN NoItem ELSE w.tradeItem[p]
    BY <2>3
  <2>5. TradeTypes(v, xs)
    BY <2>2, <2>3 DEF Trading, TradeTypes
  <2>6. ASSUME NEW p \in Players \ xs
        PROVE  /\ StateFits(v, p)
               /\ v.tradePartner[p] # NoPlayer =>
                    v.tradePartner[p] \in Players \ xs /\ Paired(v, p, v.tradePartner[p])
    <3>1. StateFits(w, p) /\ (w.tradePartner[p] # NoPlayer =>
            w.tradePartner[p] \in Players \ xs /\ Paired(w, p, w.tradePartner[p]))
      BY DEF Trading
    <3>2. StateFits(v, p)
      BY <2>4, <3>1 DEF StateFits
    <3>3. ASSUME v.tradePartner[p] # NoPlayer
          PROVE  v.tradePartner[p] \in Players \ xs /\ Paired(v, p, v.tradePartner[p])
      <4>1. p \notin both /\ v.tradePartner[p] = w.tradePartner[p]
        BY <2>4, <3>3
      <4>2. w.tradePartner[p] \in Players \ xs /\ w.tradePartner[p] \notin both
        BY <2>2, <3>1, <3>3, <4>1
      <4> QED BY <2>3, <2>4, <3>1, <3>3, <4>1, <4>2 DEF Paired
    <3> QED BY <3>2, <3>3
  <2>7. Offers(v, Players \ xs)
    <3>1. Offers(w, Players \ xs)
      BY DEF Trading
    <3>2. {v.tradeItem[p] : p \in Players \ xs} \ {NoItem} =
            ({w.tradeItem[p] : p \in Players \ xs} \ {NoItem}) \ {w.tradeItem[p] : p \in both}
      BY <2>2, <2>4, <3>1 DEF Offers
    <3> QED BY <2>3, <2>4, <3>1, <3>2 DEF Offers
  <2> QED BY <2>1, <2>5, <2>6, <2>7 DEF Trading
<1> QED BY <1>1, <1>2

-----------------------------------------------------------------------------
(* Steps of moving an item: each may close trades, none opens or changes one.*)
LEMMA NotifyKeeps ==
  ASSUME NEW w, NEW xs \in SUBSET Players, Trading(w, xs), NEW c, NEW i
  PROVE  /\ Trading(NotifyRemove(w, c, i), xs)
         /\ Trading(NotifyAdd(w, c, i), xs)
         /\ Trading(NotifyUpdate(w, c, i), xs)
<1>1. Trading(NotifyRemove(w, c, i), xs)
  BY CloseTradesKeeps DEF NotifyRemove
<1>2. Trading(NotifyAdd(w, c, i), xs)
  BY CloseTradesKeeps DEF NotifyAdd
<1>3. Trading(NotifyUpdate(w, c, i), xs)
  BY CloseTradesKeeps DEF NotifyUpdate
<1> QED BY <1>1, <1>2, <1>3

(* Container::updateItemWeight.                                             *)
LEMMA WeightKeeps ==
  ASSUME NEW w, NEW xs, Trading(w, xs), NEW b, NEW diff
  PROVE  Trading(UpdateItemWeight(w, b, diff), xs)
<1>1. SameTrades(w, UpdateItemWeight(w, b, diff))
  BY DEF Trading, TradeTypes, TradeFields, SameTrades, UpdateItemWeight
<1> QED BY <1>1, SameKeeps

(* __addThing of players, containers and tiles.                             *)
LEMMA AddThingKeeps ==
  ASSUME NEW w, NEW xs \in SUBSET Players, Trading(w, xs), NEW c, NEW index, NEW i
  PROVE  Trading(AddThing(w, c, index, i), xs)
<1>1. Trading(PlayerAddThing(w, c, index, i), xs)
  <2>1. SameTrades(w, PlayerAddThing(w, c, index, i))
    BY DEF Trading, TradeTypes, TradeFields, SameTrades, PlayerAddThing
  <2> QED BY <2>1, SameKeeps
<1>2. Trading(BagAddThing(w, c, index, i), xs)
  <2> DEFINE v == [w EXCEPT !.parent[i] = c, !.list[c] = <<i>> \o @]
  <2>1. SameTrades(w, v)
    BY DEF Trading, TradeTypes, TradeFields, SameTrades
  <2>2. Trading(v, xs)
    BY <2>1, SameKeeps
  <2>3. BagAddThing(w, c, index, i) =
          IF index >= Room THEN w ELSE NotifyAdd(UpdateItemWeight(v, c, Weight(w, i)), c, i)
    BY DEF BagAddThing
  <2> HIDE DEF v
  <2>4. Trading(NotifyAdd(UpdateItemWeight(v, c, Weight(w, i)), c, i), xs)
    BY <2>2, WeightKeeps, NotifyKeeps
  <2> QED BY <2>3, <2>4
<1>3. Trading(TileAddThing(w, c, i), xs)
  <2>1. SameTrades(w, TileAddThing(w, c, i))
    BY DEF Trading, TradeTypes, TradeFields, SameTrades, TileAddThing
  <2> QED BY <2>1, SameKeeps
<1> QED BY <1>1, <1>2, <1>3 DEF AddThing

(* __updateThing.                                                           *)
LEMMA UpdateThingKeeps ==
  ASSUME NEW w, NEW xs \in SUBSET Players, Trading(w, xs), NEW c, NEW i, NEW n
  PROVE  Trading(UpdateThing(w, c, i, n), xs)
<1> DEFINE v == [w EXCEPT !.count[i] = n]
<1>1. SameTrades(w, v)
  BY DEF Trading, TradeTypes, TradeFields, SameTrades
<1>2. Trading(v, xs)
  BY <1>1, SameKeeps
<1>3. UpdateThing(w, c, i, n) =
        IF c \in Bags THEN NotifyUpdate(UpdateItemWeight(v, c, n - w.count[i]), c, i)
        ELSE NotifyUpdate(v, c, i)
  BY DEF UpdateThing, BagUpdateThing
<1> HIDE DEF v
<1>4. Trading(NotifyUpdate(UpdateItemWeight(v, c, n - w.count[i]), c, i), xs)
  BY <1>2, WeightKeeps, NotifyKeeps
<1>5. Trading(NotifyUpdate(v, c, i), xs)
  BY <1>2, NotifyKeeps
<1> QED BY <1>3, <1>4, <1>5

(* __removeThing of players, containers and tiles.                          *)
LEMMA RemoveThingKeeps ==
  ASSUME NEW w, NEW xs \in SUBSET Players, Trading(w, xs), NEW c, NEW i, NEW n
  PROVE  Trading(RemoveThing(w, c, i, n), xs)
<1>1. Trading(UpdateThing(w, c, i, w.count[i] - n), xs)
  BY UpdateThingKeeps
<1>2. Trading(NotifyRemove(w, c, i), xs)
  BY NotifyKeeps
<1>3. Trading(PlayerRemoveThing(w, c, i), xs)
  <2>1. SameTrades(NotifyRemove(w, c, i), PlayerRemoveThing(w, c, i))
    BY <1>2 DEF Trading, TradeTypes, TradeFields, SameTrades, PlayerRemoveThing
  <2> QED BY <1>2, <2>1, SameKeeps
<1>4. Trading(BagRemoveThing(w, c, i), xs)
  <2> DEFINE v == [NotifyRemove(w, c, i) EXCEPT !.parent[i] = Nowhere,
                                                !.list[c] = RemoveAt(@, IndexOf(w, c, i) + 1)]
  <2>1. SameTrades(NotifyRemove(w, c, i), v)
    BY <1>2 DEF Trading, TradeTypes, TradeFields, SameTrades
  <2>2. Trading(v, xs)
    BY <1>2, <2>1, SameKeeps
  <2>3. BagRemoveThing(w, c, i) = UpdateItemWeight(v, c, -Weight(w, i))
    BY DEF BagRemoveThing
  <2> HIDE DEF v
  <2> QED BY <2>2, <2>3, WeightKeeps
<1>5. Trading(TileRemoveThing(w, c, i), xs)
  <2> DEFINE v == [w EXCEPT !.parent[i] = Nowhere, !.list[c] = RemoveAt(@, IndexOf(w, c, i) + 1)]
  <2>1. SameTrades(w, v)
    BY DEF Trading, TradeTypes, TradeFields, SameTrades
  <2>2. Trading(v, xs)
    BY <2>1, SameKeeps
  <2>3. TileRemoveThing(w, c, i) = NotifyRemove(v, c, i)
    BY DEF TileRemoveThing
  <2> HIDE DEF v
  <2> QED BY <2>2, <2>3, NotifyKeeps
<1> QED BY <1>1, <1>3, <1>4, <1>5 DEF RemoveThing

(* postAddNotification and postRemoveNotification.                          *)
LEMMA PostKeeps ==
  ASSUME NEW w, NEW xs, Trading(w, xs), NEW c
  PROVE  Trading(PostNotification(w, c), xs)
<1>1. SameTrades(w, PostNotification(w, c))
  BY DEF Trading, TradeTypes, TradeFields, SameTrades, PostNotification
<1> QED BY <1>1, SameKeeps

(* What internalMoveItem does after its checks.                             *)
LEMMA TransferKeeps ==
  ASSUME NEW w, NEW xs \in SUBSET Players, Trading(w, xs), NEW c, NEW d, NEW i, NEW m
  PROVE  Trading(Transfer(w, c, d, i, m), xs)
<1>1. ASSUME NEW v, Trading(v, xs), NEW object, NEW rest
      PROVE  Trading(Arrive(v, d, i, object, rest), xs)
  <2> DEFINE u == [v EXCEPT !.count[object] = rest]
  <2>1. SameTrades(v, u)
    BY <1>1 DEF Trading, TradeTypes, TradeFields, SameTrades
  <2>2. Trading(u, xs)
    BY <1>1, <2>1, SameKeeps
  <2>3. Arrive(v, d, i, object, rest) =
          IF i \notin Stacks THEN AddThing(v, d.to, d.index, i)
          ELSE IF rest = 0 THEN v ELSE AddThing(u, d.to, d.index, object)
    BY DEF Arrive
  <2> HIDE DEF u
  <2> QED BY <1>1, <2>2, <2>3, AddThingKeeps
<1>2. Trading(Depart(w, c, i, m), xs)
  <2>1. Trading(RemoveThing(w, c, i, m), xs)
    BY RemoveThingKeeps
  <2>2. SameTrades(RemoveThing(w, c, i, m), Depart(w, c, i, m))
    BY <2>1 DEF Trading, TradeTypes, TradeFields, SameTrades, Depart
  <2> QED BY <2>1, <2>2, SameKeeps
<1>3. ASSUME NEW v, Trading(v, xs), NEW n  PROVE  Trading(Join(v, d, i, n), xs)
  BY <1>3, UpdateThingKeeps DEF Join
<1>4. ASSUME NEW n, NEW object, NEW rest
      PROVE  Trading(PostNotification(PostNotification(
               Arrive(Join(Depart(w, c, i, m), d, i, n), d, i, object, rest), c), d.to), xs)
  BY <1>1, <1>2, <1>3, PostKeeps
<1> QED BY <1>4 DEF Transfer

(* internalMoveItem, which may first move the item that is in the way.      *)
LEMMA MoveItemKeeps ==
  ASSUME NEW w, NEW xs \in SUBSET Players, Trading(w, xs), NEW c, NEW to, NEW index,
         NEW i, NEW n, NEW autoStack, NEW guard
  PROVE  Trading(MoveItem(w, c, to, index, i, n, autoStack, guard).w, xs)
<1>1. ASSUME NEW d, NEW old
      PROVE  Trading(Exchanged(w, c, d, old), xs)
  <2>1. Trading(RemoveThing(w, d, old, ItemCount(w, old)), xs)
    BY RemoveThingKeeps
  <2>2. Trading(AddThing(RemoveThing(w, d, old, ItemCount(w, old)), c, 0, old), xs)
    BY <2>1, AddThingKeeps
  <2> QED BY <2>1, <2>2, PostKeeps DEF Exchanged
<1>2. ASSUME NEW d  PROVE  Trading(Exchange(w, c, d, i, n).w, xs)
  BY <1>1 DEF Exchange
<1>3. ASSUME NEW v, Trading(v, xs), NEW d
      PROVE  Trading(MoveInto(v, c, d, i, n, guard).w, xs)
  <2>1. ASSUME NEW m  PROVE  Trading(Transfer(v, c, d, i, m), xs)
    BY <1>3, TransferKeeps
  <2> QED BY <1>3, <2>1 DEF MoveInto, Result
<1>4. ASSUME NEW d  PROVE  Trading(MoveTo(w, c, d, i, n, guard).w, xs)
  <2>1. Trading(MoveInto(Exchange(w, c, d, i, n).w, c, Exchange(w, c, d, i, n).d, i, n, guard).w,
                xs)
    BY <1>2, <1>3
  <2> QED BY <2>1 DEF MoveTo, Result
<1> QED BY <1>4 DEF MoveItem

(* The exchange closes no trade but those of others.                        *)
LEMMA SwapKeeps ==
  ASSUME NEW w, NEW xs \in SUBSET Players, Trading(w, xs), NEW p, NEW q
  PROVE  Trading(Swap(w, p, q), xs)
<1> DEFINE given == MoveItem(w, w.parent[w.tradeItem[p]], q, Wherever, w.tradeItem[p],
                             ItemCount(w, w.tradeItem[p]), FALSE, w.tradeItem[q])
           back == MoveItem(given.w, w.parent[w.tradeItem[q]], p, Wherever, w.tradeItem[q],
                            ItemCount(w, w.tradeItem[q]), FALSE, NoItem)
<1>1. Trading(given.w, xs)
  BY MoveItemKeeps
<1>2. \/ Swap(w, p, q) = w
      \/ Swap(w, p, q) = given.w
      \/ Swap(w, p, q) = back.w
  BY DEF Swap
<1> HIDE DEF given
<1>3. Trading(back.w, xs)
  BY <1>1, MoveItemKeeps
<1> QED BY <1>1, <1>2, <1>3

-----------------------------------------------------------------------------
TradingNow == Trading(world, {})

(* Between two commands nobody is swapping items.                           *)
LEMMA TradingAgrees == Trading(world, {}) => TradesAgree
  BY DEF Trading, TradeTypes, StateFits, Paired, Offers, TradesAgree

(* Nobody trades at first.                                                  *)
LEMMA InitTrading == Init => Trading(world, {})
<1> SUFFICES ASSUME Init  PROVE  Trading(world, {})
  OBVIOUS
<1>1. /\ TradeFields \subseteq DOMAIN world
      /\ world.tradeState = [p \in Players |-> "none"]
      /\ world.tradePartner = [p \in Players |-> NoPlayer]
      /\ world.tradeItem = [p \in Players |-> NoItem]
      /\ world.tradeItems = {} /\ world.at = [p \in Players |-> Nowhere]
  BY DEF Init, TradeFields, Nothing
<1> QED BY <1>1, WorldAssumption DEF Trading, TradeTypes, StateFits, Paired, Offers

(* Who is near another has the other near him.                              *)
LEMMA NearSymmetric ==
  ASSUME NEW a, NEW b, NEW n \in Nat, InRange(a, b, n)  PROVE  InRange(b, a, n)
<1>1. {a, b} \subseteq Tiles /\ a - b \in -n..n
  BY DEF InRange
<1>2. a \in Tiles /\ b \in Tiles
  BY <1>1
<1>3. a \in Int /\ b \in Int
  BY <1>2, WorldAssumption
<1>4. -n <= a - b /\ a - b <= n
  BY <1>1, <1>3
<1>5. b - a \in -n..n
  BY <1>3, <1>4
<1>6. {b, a} \subseteq Tiles
  BY <1>2
<1> QED BY <1>5, <1>6 DEF InRange

(* playerRequestTrade: the first offer opens the trade, the second answers.  *)
LEMMA RequestKeeps ==
  ASSUME Trading(world, {}), NEW p \in Players, NEW q \in Players, NEW i \in Items,
         RequestTrade(p, q, i)
  PROVE  Trading(world', {})
<1> USE WorldAssumption
<1>1. /\ p # q /\ i \notin world.tradeItems
      /\ \/ world.tradeState[p] = "none"
         \/ world.tradeState[p] = "acknowledge" /\ world.tradePartner[p] = q
      /\ world.tradeState[q] = "none" \/ world.tradePartner[q] = p
  BY DEF RequestTrade, AlreadyTraded
<1>2. /\ TradeTypes(world, {}) /\ Offers(world, Players)
      /\ \A r \in Players :
           /\ StateFits(world, r)
           /\ world.tradePartner[r] # NoPlayer =>
                world.tradePartner[r] \in Players /\ Paired(world, r, world.tradePartner[r])
  BY DEF Trading
<1>3. /\ TradeFields \subseteq DOMAIN world'
      /\ world'.tradePartner = [[world.tradePartner EXCEPT ![p] = q] EXCEPT ![q] = p]
      /\ world'.tradeState = [[world.tradeState EXCEPT ![p] = "initiated"] EXCEPT
                                ![q] = IF world.tradeState[q] = "none" THEN "acknowledge"
                                       ELSE world.tradeState[q]]
      /\ world'.tradeItem = [world.tradeItem EXCEPT ![p] = i]
      /\ world'.tradeItems = world.tradeItems \cup {i}
      /\ world'.at = world.at
  <2>1. world' = [world EXCEPT
                   !.tradePartner[p] = q,
                   !.tradePartner[q] = p,
                   !.tradeState[p] = "initiated",
                   !.tradeState[q] = IF @ = "none" THEN "acknowledge" ELSE @,
                   !.tradeItem[p] = i,
                   !.tradeItems = @ \cup {i}]
    BY DEF RequestTrade
  <2> DEFINE first == [world.tradeState EXCEPT ![p] = "initiated"]
  <2>2. /\ TradeFields \subseteq DOMAIN world'
        /\ world'.tradePartner = [[world.tradePartner EXCEPT ![p] = q] EXCEPT ![q] = p]
        /\ world'.tradeItem = [world.tradeItem EXCEPT ![p] = i]
        /\ world'.tradeItems = world.tradeItems \cup {i}
        /\ world'.at = world.at
    BY <1>2, <2>1 DEF TradeTypes, TradeFields
  <2>3. world'.tradeState =
          [first EXCEPT ![q] = IF first[q] = "none" THEN "acknowledge" ELSE first[q]]
    BY <1>2, <2>1 DEF TradeTypes, TradeFields
  <2>4. first[q] = world.tradeState[q]
    BY <1>1, <1>2 DEF TradeTypes
  <2> QED BY <2>2, <2>3, <2>4
<1>4. \A r \in Players :
        /\ world'.tradePartner[r] = IF r = p THEN q ELSE IF r = q THEN p ELSE world.tradePartner[r]
        /\ world'.tradeState[r] =
             IF r = p THEN "initiated"
             ELSE IF r = q /\ world.tradeState[q] = "none" THEN "acknowledge"
             ELSE world.tradeState[r]
        /\ world'.tradeItem[r] = IF r = p THEN i ELSE world.tradeItem[r]
  BY <1>1, <1>2, <1>3 DEF TradeTypes
<1>5. world.tradeItem[p] = NoItem
  BY <1>1, <1>2 DEF StateFits
<1>6. TradeTypes(world', {})
  BY <1>1, <1>2, <1>3 DEF TradeTypes
<1>7. Offers(world', Players)
  <2>1. \A r \in Players : world.tradeItem[r] # i
    BY <1>1, <1>2 DEF Offers
  <2>2. {world'.tradeItem[r] : r \in Players} \ {NoItem} =
          ({world.tradeItem[r] : r \in Players} \ {NoItem}) \cup {i}
    BY <1>4, <1>5
  <2> QED BY <1>2, <1>3, <1>4, <1>5, <2>1, <2>2 DEF Offers
<1>8. /\ \A r \in Players \ {p, q} : world.tradePartner[r] \notin {p, q}
      /\ world.tradeState[q] # "none" => world.tradePartner[p] = q
      /\ world.tradePartner[p] = q => world.tradePartner[q] = p
      /\ world.tradePartner[p] \in {q, NoPlayer} /\ world.tradePartner[q] \in {p, NoPlayer}
  BY <1>1, <1>2 DEF StateFits, Paired
<1>9. ASSUME NEW r \in Players
      PROVE  StateFits(world', r)
  BY <1>1, <1>2, <1>4, <1>8 DEF StateFits
<1>10. ASSUME NEW r \in Players, world'.tradePartner[r] # NoPlayer
       PROVE  world'.tradePartner[r] \in Players /\ Paired(world', r, world'.tradePartner[r])
  <2>1. CASE r \in {p, q}
    <3>1. InRange(world.at[p], world.at[q], 2) /\ InRange(world.at[q], world.at[p], 2)
      BY NearSymmetric DEF RequestTrade
    <3> QED BY <1>1, <1>3, <1>4, <2>1, <3>1 DEF Paired
  <2>2. CASE r \notin {p, q}
    BY <1>2, <1>3, <1>4, <1>8, <1>10, <2>2 DEF Paired
  <2> QED BY <2>1, <2>2
<1> QED BY <1>6, <1>7, <1>9, <1>10 DEF Trading

(* The last of both accepts: in w p and q are taken out of the trades that     *)
(* can be closed, before their items change hands.                          *)
Swapping(w, p, q) ==
  /\ q \in Players /\ q # p
  /\ w.tradePartner = world.tradePartner /\ w.tradeItem = world.tradeItem
  /\ w.at = world.at
  /\ Trading(w, {p, q})
  /\ world' = Reset(Swap(w, p, q), {p, q})

(* The others' trades are as they were.                                     *)
LEMMA SwappingFacts ==
  ASSUME Trading(world, {}), NEW p \in Players, AcceptTrade(p),
         NEW q, q = world.tradePartner[p], world.tradeState[q] = "accept",
         NEW v, v = [world EXCEPT
                       !.tradeState = [@ EXCEPT ![p] = "transfer", ![q] = "transfer"],
                       !.tradeItems = @ \ {world.tradeItem[p], world.tradeItem[q]}]
  PROVE  Swapping(v, p, q)
<1> USE WorldAssumption
<1>1. /\ TradeTypes(world, {}) /\ Offers(world, Players)
      /\ \A r \in Players :
           /\ StateFits(world, r)
           /\ world.tradePartner[r] # NoPlayer =>
                world.tradePartner[r] \in Players /\ Paired(world, r, world.tradePartner[r])
  BY DEF Trading
<1>2. /\ world.tradeState[p] \in {"acknowledge", "initiated"}
      /\ q \in Players /\ q # p /\ world.tradePartner[q] = p
  BY <1>1 DEF AcceptTrade, Paired
<1>3. /\ TradeFields \subseteq DOMAIN v
      /\ v.tradeState = [world.tradeState EXCEPT ![p] = "transfer", ![q] = "transfer"]
      /\ v.tradePartner = world.tradePartner /\ v.tradeItem = world.tradeItem
      /\ v.tradeItems = world.tradeItems \ {world.tradeItem[p], world.tradeItem[q]}
      /\ v.at = world.at
  BY <1>1 DEF TradeTypes, TradeFields
<1>4. world' = Reset(Swap(v, p, q), {p, q})
  BY DEF AcceptTrade
<1>5. Trading(v, {p, q})
  <2>1. /\ v.tradeState[p] = "transfer" /\ v.tradeState[q] = "transfer"
        /\ \A r \in Players \ {p, q} : v.tradeState[r] = world.tradeState[r]
    BY <1>1, <1>2, <1>3 DEF TradeTypes
  <2>2. TradeTypes(v, {p, q})
    BY <1>1, <1>2, <1>3, <2>1 DEF TradeTypes
  <2>3. ASSUME NEW r \in Players \ {p, q}
        PROVE  /\ StateFits(v, r)
               /\ v.tradePartner[r] # NoPlayer =>
                    /\ v.tradePartner[r] \in Players \ {p, q}
                    /\ Paired(v, r, v.tradePartner[r])
    BY <1>1, <1>2, <1>3, <2>1 DEF StateFits, Paired
  <2>4. Offers(v, Players \ {p, q})
    <3>1. {world.tradeItem[r] : r \in Players \ {p, q}} \ {NoItem} =
            ({world.tradeItem[r] : r \in Players} \ {NoItem})
              \ {world.tradeItem[p], world.tradeItem[q]}
      BY <1>1, <1>2 DEF Offers
    <3>2. v.tradeItems = {v.tradeItem[r] : r \in Players \ {p, q}} \ {NoItem}
      <4>1. world.tradeItems = {world.tradeItem[r] : r \in Players} \ {NoItem}
        BY <1>1 DEF Offers
      <4>2. v.tradeItems = {world.tradeItem[r] : r \in Players \ {p, q}} \ {NoItem}
        BY <1>3, <3>1, <4>1
      <4>3. {v.tradeItem[r] : r \in Players \ {p, q}} =
              {world.tradeItem[r] : r \in Players \ {p, q}}
        BY <1>3
      <4> QED BY <4>2, <4>3
    <3>3. \A r, x \in Players \ {p, q} :
            v.tradeItem[r] = v.tradeItem[x] => r = x \/ v.tradeItem[r] = NoItem
      BY <1>1, <1>3 DEF Offers
    <3> QED BY <3>2, <3>3 DEF Offers
  <2> QED BY <2>2, <2>3, <2>4 DEF Trading
<1> QED BY <1>2, <1>3, <1>4, <1>5 DEF Swapping

(* playerAcceptTrade: the first of both waits for the other.                *)
LEMMA AcceptKeeps ==
  ASSUME Trading(world, {}), NEW p \in Players, AcceptTrade(p)
  PROVE  Trading(world', {})
<1> USE WorldAssumption
<1> DEFINE q == world.tradePartner[p]
<1>1. /\ TradeTypes(world, {}) /\ Offers(world, Players)
      /\ \A r \in Players :
           /\ StateFits(world, r)
           /\ world.tradePartner[r] # NoPlayer =>
                world.tradePartner[r] \in Players /\ Paired(world, r, world.tradePartner[r])
  BY DEF Trading
<1>2. /\ world.tradeState[p] \in {"acknowledge", "initiated"}
      /\ q \in Players /\ q # p /\ world.tradePartner[q] = p
  BY <1>1 DEF AcceptTrade, Paired
<1>3. CASE world.tradeState[q] # "accept"
  <2>1. world' = [world EXCEPT !.tradeState[p] = "accept"]
    BY <1>3 DEF AcceptTrade
  <2>2. /\ TradeFields \subseteq DOMAIN world'
        /\ world'.tradeState = [world.tradeState EXCEPT ![p] = "accept"]
        /\ world'.tradePartner = world.tradePartner /\ world'.tradeItem = world.tradeItem
        /\ world'.tradeItems = world.tradeItems /\ world'.at = world.at
    BY <1>1, <2>1 DEF TradeTypes, TradeFields
  <2>3. world'.tradeState[p] = "accept"
        /\ \A r \in Players \ {p} : world'.tradeState[r] = world.tradeState[r]
    BY <1>1, <2>2 DEF TradeTypes
  <2>4. TradeTypes(world', {})
    BY <1>1, <2>2 DEF TradeTypes
  <2>5. ASSUME NEW r \in Players  PROVE  StateFits(world', r)
    BY <1>1, <1>2, <2>2, <2>3 DEF StateFits
  <2>6. ASSUME NEW r \in Players, world'.tradePartner[r] # NoPlayer
        PROVE  world'.tradePartner[r] \in Players /\ Paired(world', r, world'.tradePartner[r])
    BY <1>1, <1>2, <1>3, <2>2, <2>3, <2>6 DEF Paired
  <2>7. Offers(world', Players)
    BY <1>1, <2>2 DEF Offers
  <2> QED BY <2>4, <2>5, <2>6, <2>7 DEF Trading
<1>4. CASE world.tradeState[q] = "accept"
  <2> DEFINE v == [world EXCEPT
                     !.tradeState = [@ EXCEPT ![p] = "transfer", ![q] = "transfer"],
                     !.tradeItems = @ \ {world.tradeItem[p], world.tradeItem[q]}]
             s == Swap(v, p, q)
  <2>1. Swapping(v, p, q)
    BY <1>4, SwappingFacts
  <2>2. world' = Reset(s, {p, q})
    BY <2>1 DEF Swapping
  <2> HIDE DEF v
  <2>3. Trading(v, {p, q})
    BY <2>1 DEF Swapping
  <2>4. Trading(s, {p, q})
    BY <1>2, <2>3, SwapKeeps
  <2> HIDE DEF s
  <2>5. /\ TradeTypes(s, {p, q}) /\ Offers(s, Players \ {p, q})
        /\ \A r \in Players \ {p, q} :
             /\ StateFits(s, r)
             /\ s.tradePartner[r] # NoPlayer =>
                  s.tradePartner[r] \in Players \ {p, q} /\ Paired(s, r, s.tradePartner[r])
    BY <2>4 DEF Trading
  <2> DEFINE u == Reset(s, {p, q})
  <2>6. /\ TradeFields \subseteq DOMAIN u
        /\ u.tradeState = [r \in Players |-> IF r \in {p, q} THEN "none" ELSE s.tradeState[r]]
        /\ u.tradePartner = [r \in Players |-> IF r \in {p, q} THEN NoPlayer ELSE s.tradePartner[r]]
        /\ u.tradeItem = [r \in Players |-> IF r \in {p, q} THEN NoItem ELSE s.tradeItem[r]]
        /\ u.tradeItems = s.tradeItems /\ u.at = s.at
    BY <2>5 DEF Reset, TradeTypes, TradeFields
  <2> HIDE DEF u
  <2>7. \A r \in Players :
          /\ u.tradeState[r] = IF r \in {p, q} THEN "none" ELSE s.tradeState[r]
          /\ u.tradePartner[r] = IF r \in {p, q} THEN NoPlayer ELSE s.tradePartner[r]
          /\ u.tradeItem[r] = IF r \in {p, q} THEN NoItem ELSE s.tradeItem[r]
    BY <2>6
  <2>8. TradeTypes(u, {})
    BY <2>5, <2>6 DEF TradeTypes
  <2>9. ASSUME NEW r \in Players
        PROVE  /\ StateFits(u, r)
               /\ u.tradePartner[r] # NoPlayer =>
                    u.tradePartner[r] \in Players /\ Paired(u, r, u.tradePartner[r])
    <3>1. CASE r \in {p, q}
      BY <2>7, <3>1 DEF StateFits
    <3>2. CASE r \notin {p, q}
      BY <2>5, <2>6, <2>7, <3>2 DEF StateFits, Paired
    <3> QED BY <3>1, <3>2
  <2>10. Offers(u, Players)
    <3>1. {u.tradeItem[r] : r \in Players} \ {NoItem} =
            {s.tradeItem[r] : r \in Players \ {p, q}} \ {NoItem}
      BY <2>7
    <3> QED BY <2>5, <2>6, <2>7, <3>1 DEF Offers
  <2> QED BY <2>2, <2>8, <2>9, <2>10 DEF Trading, u
<1> QED BY <1>3, <1>4

(* p, who does not trade, comes, goes or walks.                             *)
LEMMA GoingKeeps ==
  ASSUME NEW w, Trading(w, {}), NEW p \in Players, w.tradePartner[p] = NoPlayer,
         NEW t \in Tiles \cup {Nowhere}, NEW v, TradeFields \subseteq DOMAIN v,
         v.tradeState = w.tradeState, v.tradePartner = w.tradePartner,
         v.tradeItem = w.tradeItem, v.tradeItems = w.tradeItems,
         v.at = [w.at EXCEPT ![p] = t]
  PROVE  Trading(v, {})
<1> USE WorldAssumption
<1>1. TradeTypes(v, {}) /\ \A r \in Players \ {p} : v.at[r] = w.at[r]
  BY DEF Trading, TradeTypes
<1>2. Offers(v, Players) /\ \A r \in Players : StateFits(v, r)
  BY DEF Trading, Offers, StateFits
<1>3. ASSUME NEW r \in Players, v.tradePartner[r] # NoPlayer
      PROVE  v.tradePartner[r] \in Players /\ Paired(v, r, v.tradePartner[r])
  <2>1. w.tradePartner[r] \in Players /\ Paired(w, r, w.tradePartner[r])
    BY <1>3 DEF Trading
  <2>2. r # p /\ w.tradePartner[r] # p
    BY <1>3, <2>1 DEF Paired
  <2> QED BY <1>1, <2>1, <2>2 DEF Paired
<1> QED BY <1>1, <1>2, <1>3 DEF Trading

(* A player who goes or walks away takes no trade with him: what closes it    *)
(* does not look at places.                                                 *)
LEMMA ClosingKeeps ==
  ASSUME Trading(world, {}), NEW p \in Players, NEW t \in Tiles \cup {Nowhere}
  PROVE  Trading(CloseTrades([world EXCEPT !.at[p] = t], {p}), {})
<1> DEFINE v == [world EXCEPT !.at[p] = t]
           both == {r \in Players : /\ r \in {p} \/ world.tradePartner[r] \in {p}
                                    /\ world.tradeState[r] # "transfer"}
           c == CloseTrades(world, {p})
           u == CloseTrades(v, {p})
<1>1. /\ TradeTypes(world, {}) /\ TradeFields \subseteq DOMAIN v
      /\ v.tradeState = world.tradeState /\ v.tradePartner = world.tradePartner
      /\ v.tradeItem = world.tradeItem /\ v.tradeItems = world.tradeItems
      /\ v.at = [world.at EXCEPT ![p] = t]
  BY DEF Trading, TradeTypes, TradeFields
<1> HIDE DEF v
<1>2. p \in both
  BY <1>1 DEF TradeTypes
<1>3. c = CloseOwnTrades(world, both)
  BY <1>2 DEF CloseTrades
<1>4. u = CloseOwnTrades(v, both)
  <2>1. both = {r \in Players : /\ r \in {p} \/ v.tradePartner[r] \in {p}
                                /\ v.tradeState[r] # "transfer"}
    BY <1>1
  <2> QED BY <1>2, <2>1 DEF CloseTrades
<1>5. Trading(c, {})
  BY CloseTradesKeeps
<1> HIDE DEF both, c, u
<1>6. /\ TradeFields \subseteq DOMAIN u
      /\ u.tradeState = c.tradeState /\ u.tradePartner = c.tradePartner
      /\ u.tradeItem = c.tradeItem /\ u.tradeItems = c.tradeItems
      /\ u.at = v.at /\ c.at = world.at
      /\ c.tradePartner = [r \in Players |-> IF r \in both THEN NoPlayer ELSE world.tradePartner[r]]
  BY <1>1, <1>3, <1>4 DEF CloseOwnTrades, TradeTypes, TradeFields
<1>7. c.tradePartner[p] = NoPlayer
  BY <1>2, <1>6
<1>8. u.at = [c.at EXCEPT ![p] = t]
  BY <1>1, <1>6
<1>9. Trading(u, {})
  BY <1>5, <1>6, <1>7, <1>8, GoingKeeps
<1> QED BY <1>9 DEF u, v

(* One case per action; those who come, go and walk may close trades.       *)
LEMMA TradingStep == Trading(world, {}) /\ [Next]_world => Trading(world', {})
<1> SUFFICES ASSUME Trading(world, {}), [Next]_world  PROVE  Trading(world', {})
  OBVIOUS
<1> USE WorldAssumption
<1>1. ASSUME NEW p \in Players, world.tradePartner[p] = NoPlayer,
             NEW t \in Tiles \cup {Nowhere}
      PROVE  Trading([world EXCEPT !.at[p] = t], {})
  <2> DEFINE v == [world EXCEPT !.at[p] = t]
  <2>1. /\ TradeFields \subseteq DOMAIN v
        /\ v.tradeState = world.tradeState /\ v.tradePartner = world.tradePartner
        /\ v.tradeItem = world.tradeItem /\ v.tradeItems = world.tradeItems
        /\ v.at = [world.at EXCEPT ![p] = t]
    BY DEF Trading, TradeTypes, TradeFields
  <2> HIDE DEF v
  <2>2. Trading(v, {})
    BY <1>1, <2>1, GoingKeeps
  <2> QED BY <2>2 DEF v
<1>2. ASSUME NEW p \in Players, Login(p)  PROVE  Trading(world', {})
  <2>1. world.at[p] = Nowhere /\ world' = [world EXCEPT !.at[p] = StartAt[p]]
    BY <1>2 DEF Login, Online
  <2>2. world.tradePartner[p] = NoPlayer
    BY <2>1 DEF Trading, Paired, InRange
  <2>3. StartAt[p] \in Tiles
    BY StartAssumption
  <2> QED BY <1>1, <2>1, <2>2, <2>3
<1>3. ASSUME NEW p \in Players, Logout(p)  PROVE  Trading(world', {})
  <2> DEFINE v == [world EXCEPT !.at[p] = Nowhere]
  <2>1. /\ v.tradePartner = world.tradePartner
        /\ world' = IF v.tradePartner[p] # NoPlayer THEN CloseTrades(v, {p}) ELSE v
    BY <1>3 DEF Logout, Trading, TradeTypes, TradeFields
  <2>2. Trading(CloseTrades(v, {p}), {})
    BY ClosingKeeps
  <2>3. world.tradePartner[p] = NoPlayer => Trading(v, {})
    BY <1>1
  <2> HIDE DEF v
  <2> QED BY <2>1, <2>2, <2>3
<1>4. ASSUME NEW p \in Players, NEW t \in Tiles, Walk(p, t)  PROVE  Trading(world', {})
  <2> DEFINE v == [world EXCEPT !.at[p] = t]
  <2>1. world' = IF WalksAway(v, p) THEN CloseTrades(v, {p}) ELSE v
    BY <1>4 DEF Walk
  <2>2. Trading(CloseTrades(v, {p}), {})
    BY ClosingKeeps
  <2>3. ASSUME ~WalksAway(v, p)  PROVE  Trading(v, {})
    <3>1. /\ TradeTypes(world, {}) /\ TradeFields \subseteq DOMAIN v
          /\ v.tradeState = world.tradeState /\ v.tradePartner = world.tradePartner
          /\ v.tradeItem = world.tradeItem /\ v.tradeItems = world.tradeItems
          /\ v.at = [world.at EXCEPT ![p] = t]
      BY DEF Trading, TradeTypes, TradeFields
    <3>2. v.tradePartner[p] # NoPlayer => InRange(v.at[v.tradePartner[p]], v.at[p], 2)
      BY <2>3 DEF WalksAway
    <3> HIDE DEF v
    <3>3. TradeTypes(v, {}) /\ \A r \in Players \ {p} : v.at[r] = world.at[r]
      BY <3>1 DEF TradeTypes
    <3>4. Offers(v, Players) /\ \A r \in Players : StateFits(v, r)
      BY <3>1 DEF Trading, Offers, StateFits
    <3>5. ASSUME NEW r \in Players, v.tradePartner[r] # NoPlayer
          PROVE  v.tradePartner[r] \in Players /\ Paired(v, r, v.tradePartner[r])
      <4>1. world.tradePartner[r] \in Players /\ Paired(world, r, world.tradePartner[r])
        BY <3>1, <3>5 DEF Trading
      <4>2. InRange(v.at[r], v.at[v.tradePartner[r]], 2)
        <5>1. CASE r = p
          BY <3>2, <3>5, <5>1, NearSymmetric
        <5>2. CASE r # p /\ v.tradePartner[r] = p
          BY <3>1, <3>2, <4>1, <5>2 DEF Paired
        <5>3. CASE r # p /\ v.tradePartner[r] # p
          BY <3>1, <3>3, <4>1, <5>3 DEF Paired
        <5> QED BY <5>1, <5>2, <5>3
      <4> QED BY <3>1, <4>1, <4>2 DEF Paired
    <3> QED BY <3>3, <3>4, <3>5 DEF Trading
  <2> HIDE DEF v
  <2> QED BY <2>1, <2>2, <2>3
<1>5. ASSUME NEW p \in Players, PlayerCloseTrade(p)  PROVE  Trading(world', {})
  BY <1>5, CloseTradesKeeps DEF PlayerCloseTrade
<1>6. ASSUME NEW p, NEW i, NEW c, NEW index, NEW n, PlayerMoveItem(p, i, c, index, n)
      PROVE  Trading(world', {})
  BY <1>6, MoveItemKeeps DEF PlayerMoveItem
<1>7. CASE world' = world
  BY <1>7
<1> QED BY <1>2, <1>3, <1>4, <1>5, <1>6, <1>7, RequestKeeps, AcceptKeeps DEF Next

(* For any players, items and places: at every moment the two sides of a     *)
(* trade see the same trade, however players walk, leave, move items about,   *)
(* offer, accept and close.                                                 *)
THEOREM TradesAgreeHolds == Spec => []TradesAgree
<1>1. Init => TradingNow
  BY InitTrading DEF TradingNow
<1>2. TradingNow /\ [Next]_world => TradingNow'
  BY TradingStep DEF TradingNow
<1>3. TradingNow => TradesAgree
  BY TradingAgrees DEF TradingNow
<1> QED BY <1>1, <1>2, <1>3, PTL DEF Spec

-----------------------------------------------------------------------------
(* Induction, with a set in the place of a predicate.                       *)

(* A set that has 0 and the successor of each of its numbers has them all.   *)
LEMMA Climb ==
  ASSUME NEW T, 0 \in T, \A n \in Nat : n \in T => n + 1 \in T
  PROVE  Nat \subseteq T
<1> DEFINE U == Nat \ T
<1> SUFFICES ASSUME U # {}  PROVE  FALSE
  OBVIOUS
<1>1. IsWellFoundedOn(OpToRel(<, Nat), Nat)
  BY NatLessThanWellFounded
<1>2. PICK x \in U : \A y \in U : ~(<<y, x>> \in OpToRel(<, Nat))
  BY <1>1, WFMin
<1>3. x \in Nat /\ x \notin T
  OBVIOUS
<1>4. x # 0
  BY <1>3
<1>5. x - 1 \in Nat /\ x - 1 < x /\ (x - 1) + 1 = x
  BY <1>3, <1>4
<1>6. x - 1 \in U
  BY <1>3, <1>5
<1>7. <<x - 1, x>> \in OpToRel(<, Nat)
  BY <1>3, <1>5 DEF OpToRel
<1> QED BY <1>2, <1>6, <1>7

(* The same on an interval.                                                 *)
LEMMA Upward ==
  ASSUME NEW lo \in Int, NEW hi \in Int, NEW T, lo \in T,
         \A n \in lo + 1..hi : n - 1 \in T => n \in T
  PROVE  lo..hi \subseteq T
<1> DEFINE U == {k \in Nat : lo + k <= hi => lo + k \in T}
<1>1. 0 \in U
  OBVIOUS
<1>2. ASSUME NEW k \in Nat, k \in U  PROVE  k + 1 \in U
  <2>1. SUFFICES ASSUME lo + (k + 1) <= hi  PROVE  lo + (k + 1) \in T
    OBVIOUS
  <2>2. lo + k \in T
    BY <1>2, <2>1
  <2>3. lo + (k + 1) \in lo + 1..hi /\ (lo + (k + 1)) - 1 = lo + k
    BY <2>1
  <2> QED BY <2>2, <2>3
<1>3. Nat \subseteq U
  BY <1>1, <1>2, Climb
<1>4. ASSUME NEW n \in lo..hi  PROVE  n \in T
  <2>1. n - lo \in Nat /\ lo + (n - lo) = n
    OBVIOUS
  <2> QED BY <1>3, <2>1
<1> QED BY <1>4

(* The values g of the steps F, from a on.                                  *)
Stepwise(g, lo, hi, a, F) == g = [n \in lo..hi |-> IF n = lo THEN a ELSE F[n][g[n - 1]]]

HasSteps(lo, hi, V, a, F) == \E g \in [lo..hi -> V] : Stepwise(g, lo, hi, a, F)

(* There are such values.                                                   *)
LEMMA Recursion ==
  ASSUME NEW lo \in Int, NEW hi \in Int, NEW V, NEW a \in V, NEW F \in [lo..hi -> [V -> V]]
  PROVE  HasSteps(lo, hi, V, a, F)
<1> USE DEF Stepwise, HasSteps
<1> DEFINE Eq(g, m) == Stepwise(g, lo, m, a, F)
           T == {m \in lo..hi : \E g \in [lo..m -> V] : Eq(g, m)}
<1>1. CASE hi < lo
  <2>1. lo..hi = {}
    BY <1>1
  <2>2. [n \in lo..hi |-> a] \in [lo..hi -> V]
    OBVIOUS
  <2> QED BY <2>1, <2>2
<1>2. CASE lo <= hi
  <2>1. lo \in T
    <3>1. [n \in lo..lo |-> a] \in [lo..lo -> V]
      OBVIOUS
    <3>2. Eq([n \in lo..lo |-> a], lo)
      OBVIOUS
    <3> HIDE DEF Eq
    <3>3. \E g \in [lo..lo -> V] : Eq(g, lo)
      BY <3>1, <3>2
    <3>4. lo \in lo..hi
      BY <1>2
    <3> QED BY <3>3, <3>4
  <2>2. ASSUME NEW m \in lo + 1..hi, m - 1 \in T  PROVE  m \in T
    <3>1. PICK g \in [lo..m - 1 -> V] : Eq(g, m - 1)
      BY <2>2
    <3> DEFINE h == [n \in lo..m |-> IF n = m THEN F[m][g[m - 1]] ELSE g[n]]
    <3>2. h \in [lo..m -> V]
      <4>1. m - 1 \in lo..m - 1 /\ m \in lo..hi
        OBVIOUS
      <4>2. F[m][g[m - 1]] \in V
        BY <4>1
      <4>3. ASSUME NEW n \in lo..m, n # m  PROVE  g[n] \in V
        BY <4>3
      <4> QED BY <4>2, <4>3
    <3>3. ASSUME NEW n \in lo..m
          PROVE  h[n] = IF n = lo THEN a ELSE F[n][h[n - 1]]
      <4>1. CASE n = m
        <5>1. m # lo /\ m - 1 \in lo..m /\ m - 1 # m
          OBVIOUS
        <5> QED BY <4>1, <5>1
      <4>2. CASE n # m
        <5>1. n \in lo..m - 1 /\ (n # lo => n - 1 \in lo..m - 1 /\ n - 1 # m)
          BY <4>2
        <5>2. g[n] = IF n = lo THEN a ELSE F[n][g[n - 1]]
          BY <3>1, <5>1
        <5> QED BY <4>2, <5>1, <5>2
      <4> QED BY <4>1, <4>2
    <3> HIDE DEF h
    <3>4. Eq(h, m)
      BY <3>2, <3>3
    <3> HIDE DEF Eq
    <3> QED BY <3>2, <3>4
  <2>3. lo..hi \subseteq T
    <3> HIDE DEF T
    <3> QED BY <2>1, <2>2, Upward
  <2>4. hi \in T
    <3>1. hi \in lo..hi
      BY <1>2
    <3> HIDE DEF T
    <3> QED BY <2>3, <3>1
  <2> QED BY <2>4
<1> QED BY <1>1, <1>2

-----------------------------------------------------------------------------
(* Where an item can be, and the fields of a world that this is about.      *)
Places == Players \cup Tiles \cup Bags

ParentTypes(w) == w.parent \in [Items -> Places \cup {Nowhere}]

Depth == Cardinality(Bags)

(* The recursive function in Above is the one that climbs from parent to     *)
(* parent.                                                                  *)
LEMMA AboveFacts ==
  ASSUME NEW w, ParentTypes(w), NEW x \in Items
  PROVE  /\ Depth \in Nat
         /\ Above(w, x) \in [0..Depth -> Places \cup {Nowhere}]
         /\ Above(w, x)[0] = w.parent[x]
         /\ \A n \in 1..Depth :
              Above(w, x)[n] = IF Above(w, x)[n - 1] \in Bags
                               THEN w.parent[Above(w, x)[n - 1]] ELSE Above(w, x)[n - 1]
<1> DEFINE V == Places \cup {Nowhere}
           Up == [v \in V |-> IF v \in Bags THEN w.parent[v] ELSE v]
           F == [n \in 0..Depth |-> Up]
           Eq(g) == g = [n \in 0..Depth |->
                          IF n = 0 THEN w.parent[x]
                          ELSE IF g[n - 1] \in Bags THEN w.parent[g[n - 1]] ELSE g[n - 1]]
<1>1. Depth \in Nat
  <2>1. IsFiniteSet(Bags)
    BY WorldAssumption, FS_Subset DEF Items
  <2> QED BY <2>1, FS_CardinalityType DEF Depth
<1>2. Up \in [V -> V] /\ w.parent[x] \in V
  BY DEF ParentTypes, Items, Places
<1>3. F \in [0..Depth -> [V -> V]]
  BY <1>2
<1>4. PICK g \in [0..Depth -> V] : Stepwise(g, 0, Depth, w.parent[x], F)
  <2> HIDE DEF F, V
  <2>1. HasSteps(0, Depth, V, w.parent[x], F)
    BY <1>1, <1>2, <1>3, Recursion
  <2> QED BY <2>1 DEF HasSteps
<1>5. \A n \in 1..Depth : F[n][g[n - 1]] =
         IF g[n - 1] \in Bags THEN w.parent[g[n - 1]] ELSE g[n - 1]
  <2>1. ASSUME NEW n \in 1..Depth
        PROVE  F[n][g[n - 1]] = IF g[n - 1] \in Bags THEN w.parent[g[n - 1]] ELSE g[n - 1]
    <3>1. n - 1 \in 0..Depth /\ n \in 0..Depth
      BY <1>1
    <3>2. g[n - 1] \in V
      BY <1>4, <3>1
    <3> QED BY <3>1, <3>2
  <2> QED BY <2>1
<1> HIDE DEF F, V
<1>6. Eq(g)
  BY SMTT(30), <1>1, <1>4, <1>5 DEF Stepwise
<1>7. Above(w, x) = CHOOSE h : Eq(h)
  BY DEF Above, Depth
<1>8. Eq(Above(w, x))
  <2> HIDE DEF Eq
  <2>1. Eq(CHOOSE h : Eq(h))
    BY <1>6
  <2> QED BY <1>7, <2>1
<1> DEFINE a == Above(w, x)
<1>9. /\ a[0] = w.parent[x]
      /\ \A n \in 1..Depth : a[n] = IF a[n - 1] \in Bags THEN w.parent[a[n - 1]] ELSE a[n - 1]
  BY <1>1, <1>8
<1>10. a = [n \in 0..Depth |-> a[n]]
  BY <1>8
<1> HIDE DEF a
<1>11. 0..Depth \subseteq {n \in 0..Depth : a[n] \in V}
  <2> DEFINE T == {n \in 0..Depth : a[n] \in V}
  <2>1. 0 \in T
    BY <1>1, <1>2, <1>9
  <2>2. ASSUME NEW n \in 0 + 1..Depth, n - 1 \in T  PROVE  n \in T
    BY <1>1, <1>9, <2>2 DEF ParentTypes, Items, V, Places
  <2> HIDE DEF T
  <2>3. 0..Depth \subseteq T
    BY SMTT(30), <1>1, <2>1, <2>2, Upward
  <2> QED BY <2>3 DEF T
<1>12. a \in [0..Depth -> V]
  BY <1>10, <1>11
<1> QED BY <1>1, <1>9, <1>12 DEF a, V

-----------------------------------------------------------------------------
(* No containers are tied in a knot: no set of them has all their parents.   *)
NoKnot(w) == \A S \in SUBSET Bags : (\A b \in S : w.parent[b] \in S) => S = {}

(* Above a container there is no end of containers: some two of more than    *)
(* there are would be the same one, and those between them a knot.          *)
LEMMA TopFacts ==
  ASSUME NEW w, ParentTypes(w), NoKnot(w), NEW x \in Items
  PROVE  Above(w, x)[Depth] \notin Bags
<1> DEFINE a == Above(w, x)
           T == {n \in 0..Depth : \A k \in 0..n : a[n] \in Bags => a[k] \in Bags}
           f == [n \in 0..Depth |-> a[n]]
<1> SUFFICES ASSUME a[Depth] \in Bags  PROVE  FALSE
  OBVIOUS
<1>1. Depth \in Nat /\ \A n \in 1..Depth :
         a[n] = IF a[n - 1] \in Bags THEN w.parent[a[n - 1]] ELSE a[n - 1]
  BY AboveFacts
<1> HIDE DEF a
<1>2. 0..Depth \subseteq T
  <2>1. 0 \in T
    BY <1>1
  <2>2. ASSUME NEW n \in 0 + 1..Depth, n - 1 \in T  PROVE  n \in T
    <3>1. n \in 1..Depth /\ n - 1 \in 0..Depth
      BY <1>1
    <3>2. ASSUME a[n] \in Bags, NEW k \in 0..n  PROVE  a[k] \in Bags
      <4>1. a[n - 1] \in Bags
        BY <1>1, <3>1, <3>2
      <4>2. CASE k = n
        BY <3>2, <4>2
      <4>3. CASE k # n
        <5>1. k \in 0..n - 1
          BY <3>1, <4>3
        <5> QED BY <2>2, <4>1, <5>1
      <4> QED BY <4>2, <4>3
    <3>3. n \in 0..Depth
      BY <3>1
    <3> QED BY <3>2, <3>3
  <2> HIDE DEF T
  <2> QED BY <1>1, <2>1, <2>2, Upward
<1>3. \A n \in 0..Depth : a[n] \in Bags
  <2>1. Depth \in T
    BY <1>1, <1>2
  <2> QED BY <2>1
<1>4. PICK m0 \in 0..Depth, n0 \in 0..Depth : m0 # n0 /\ f[m0] = f[n0]
  <2>1. f \in [0..Depth -> Bags]
    BY <1>3
  <2>2. IsFiniteSet(0..Depth) /\ Cardinality(0..Depth) = Depth + 1
    BY <1>1, FS_Interval
  <2>3. IsFiniteSet(Bags) /\ Cardinality(Bags) < Cardinality(0..Depth)
    <3>1. IsFiniteSet(Bags)
      BY WorldAssumption, FS_Subset DEF Items
    <3> QED BY <1>1, <2>2, <3>1 DEF Depth
  <2> HIDE DEF f
  <2> QED BY <2>1, <2>2, <2>3, FS_PigeonHole
<1>5. PICK m \in 0..Depth, n \in 0..Depth : m < n /\ a[m] = a[n]
  <2>1. m0 < n0 \/ n0 < m0
    BY <1>4
  <2> QED BY <1>4, <2>1
<1> DEFINE S == {a[k] : k \in m..n - 1}
<1>6. S \in SUBSET Bags /\ a[m] \in S
  <2>1. \A k \in m..n - 1 : k \in 0..Depth
    BY <1>1, <1>5
  <2>2. m \in m..n - 1
    BY <1>1, <1>5
  <2> QED BY <1>3, <2>1, <2>2
<1>7. ASSUME NEW b \in S  PROVE  w.parent[b] \in S
  <2>1. PICK k \in m..n - 1 : b = a[k]
    OBVIOUS
  <2>2. k + 1 \in 1..Depth /\ (k + 1) - 1 = k /\ k \in 0..Depth
    BY <1>1, <1>5
  <2>3. a[k + 1] = w.parent[b]
    BY <1>1, <1>3, <2>1, <2>2
  <2>4. CASE k + 1 = n
    BY <1>5, <1>6, <2>3, <2>4
  <2>5. CASE k + 1 # n
    <3>1. k + 1 \in m..n - 1
      BY <1>5, <2>5
    <3> QED BY <2>3, <3>1
  <2> QED BY <2>4, <2>5
<1> HIDE DEF S
<1> QED BY <1>6, <1>7 DEF NoKnot

(* So what is anywhere is with a player or on a tile.                       *)
LEMMA RootFacts ==
  ASSUME NEW w, ParentTypes(w), NoKnot(w), \A b \in Bags : w.parent[b] # Nowhere,
         NEW x \in Items, w.parent[x] # Nowhere
  PROVE  Root(w, x) \in Players \cup Tiles
<1> DEFINE a == Above(w, x)
           T == {n \in 0..Depth : a[n] # Nowhere}
<1>1. /\ Depth \in Nat /\ a \in [0..Depth -> Places \cup {Nowhere}]
      /\ a[0] = w.parent[x]
      /\ \A n \in 1..Depth :
           a[n] = IF a[n - 1] \in Bags THEN w.parent[a[n - 1]] ELSE a[n - 1]
  BY AboveFacts
<1>2. a[Depth] \notin Bags
  BY TopFacts
<1> HIDE DEF a
<1>3. 0..Depth \subseteq T
  <2>1. 0 \in T
    BY <1>1
  <2>2. ASSUME NEW n \in 0 + 1..Depth, n - 1 \in T  PROVE  n \in T
    BY <1>1, <2>2
  <2>3. 0 \in Int /\ Depth \in Int
    BY <1>1
  <2> HIDE DEF T
  <2> QED BY <2>1, <2>2, <2>3, Upward
<1>4. a[Depth] # Nowhere /\ a[Depth] \in Places \cup {Nowhere}
  BY <1>1, <1>3
<1>5. Root(w, x) = a[Depth]
  BY DEF Root, Depth, a
<1> QED BY <1>2, <1>4, <1>5 DEF Places

-----------------------------------------------------------------------------
(* i is not b and not around it: some set of containers with b goes all the  *)
(* way up without i.                                                        *)
Clear(w, b, i) ==
  \E U \in SUBSET Bags : /\ b \in U /\ i \notin U
                         /\ \A x \in U : w.parent[x] \in Bags => w.parent[x] \in U

(* That is what Container::isHoldingItem finds out.                         *)
LEMMA ClearFacts ==
  ASSUME NEW w, ParentTypes(w), NoKnot(w), NEW b \in Bags, NEW i \in Items,
         i # b, ~Holds(w, i, b)
  PROVE  Clear(w, b, i)
<1> DEFINE a == Above(w, b)
           U == {b} \cup ({a[n] : n \in 0..Depth} \cap Bags)
<1>1. /\ Depth \in Nat /\ a[0] = w.parent[b]
      /\ \A n \in 1..Depth :
           a[n] = IF a[n - 1] \in Bags THEN w.parent[a[n - 1]] ELSE a[n - 1]
  BY AboveFacts DEF Items
<1>2. a[Depth] \notin Bags
  BY TopFacts DEF Items
<1>3. \A n \in 0..Depth : a[n] # i
  BY DEF Holds, Depth
<1> HIDE DEF a
<1>4. U \in SUBSET Bags /\ b \in U /\ i \notin U
  BY <1>3
<1>5. ASSUME NEW x \in U, w.parent[x] \in Bags  PROVE  w.parent[x] \in U
  <2>1. CASE x = b
    <3>1. 0 \in 0..Depth
      BY <1>1
    <3> QED BY <1>1, <1>5, <2>1, <3>1
  <2>2. CASE x # b
    <3>1. PICK n \in 0..Depth : x = a[n] /\ a[n] \in Bags
      BY <2>2
    <3>2. n # Depth
      BY <1>2, <3>1
    <3>3. n + 1 \in 1..Depth /\ (n + 1) - 1 = n /\ n + 1 \in 0..Depth
      BY <1>1, <3>2
    <3>4. a[n + 1] = w.parent[x]
      BY <1>1, <3>1, <3>3
    <3> QED BY <1>5, <3>3, <3>4
  <2> QED BY <2>1, <2>2
<1> HIDE DEF U
<1> QED BY <1>4, <1>5 DEF Clear

(* An item that moves to where it is not ties no knot.                      *)
LEMMA KnotFree ==
  ASSUME NEW w, ParentTypes(w), NoKnot(w), NEW i \in Items, NEW c \in Places \cup {Nowhere},
         c \in Bags /\ i \in Bags => Clear(w, c, i),
         NEW v, v.parent = [w.parent EXCEPT ![i] = c]
  PROVE  NoKnot(v)
<1> SUFFICES ASSUME NEW S \in SUBSET Bags, \A b \in S : v.parent[b] \in S, S # {}
             PROVE  FALSE
  BY DEF NoKnot
<1>1. \A b \in Bags : v.parent[b] = IF b = i THEN c ELSE w.parent[b]
  BY DEF ParentTypes, Items
<1>2. i \in S /\ c \in S
  <2>1. i \in S
    BY <1>1 DEF NoKnot
  <2> QED BY <1>1, <2>1
<1>3. PICK U \in SUBSET Bags : /\ c \in U /\ i \notin U
                              /\ \A x \in U : w.parent[x] \in Bags => w.parent[x] \in U
  BY <1>2 DEF Clear
<1> DEFINE R == S \cap U
<1>4. R \in SUBSET Bags /\ c \in R
  BY <1>2, <1>3
<1>5. \A b \in R : w.parent[b] \in R
  BY <1>1, <1>3
<1> HIDE DEF R
<1> QED BY <1>4, <1>5 DEF NoKnot

-----------------------------------------------------------------------------
(* Lists.                                                                   *)

(* Without its k-th item, the later ones move up.                           *)
LEMMA RemoveAtFacts ==
  ASSUME NEW S, NEW s \in Seq(S), NEW k \in 1..Len(s)
  PROVE  /\ RemoveAt(s, k) \in Seq(S)
         /\ Len(RemoveAt(s, k)) = Len(s) - 1
         /\ \A n \in 1..Len(s) - 1 : RemoveAt(s, k)[n] = IF n < k THEN s[n] ELSE s[n + 1]
<1> DEFINE lo == SubSeq(s, 1, k - 1)
           hi == SubSeq(s, k + 1, Len(s))
<1>1. lo \in Seq(S) /\ Len(lo) = k - 1 /\ \A n \in 1..k - 1 : lo[n] = s[n]
  OBVIOUS
<1>2. /\ hi \in Seq(S) /\ Len(hi) = Len(s) - k
      /\ \A n \in 1..Len(s) - k : hi[n] = s[k + n]
  OBVIOUS
<1>3. RemoveAt(s, k) = lo \o hi
  BY DEF RemoveAt
<1> HIDE DEF lo, hi
<1>4. ASSUME NEW n \in 1..Len(s) - 1  PROVE  (lo \o hi)[n] = IF n < k THEN s[n] ELSE s[n + 1]
  <2>1. CASE n < k
    BY <1>1, <1>2, <2>1
  <2>2. CASE ~(n < k)
    <3>1. n - (k - 1) \in 1..Len(s) - k /\ k + (n - (k - 1)) = n + 1
      BY <2>2
    <3>2. (lo \o hi)[n] = hi[n - (k - 1)]
      BY <1>1, <1>2, <2>2
    <3>3. hi[n - (k - 1)] = s[k + (n - (k - 1))]
      BY <1>2, <3>1
    <3>4. (lo \o hi)[n] = s[n + 1]
      BY <3>1, <3>2, <3>3
    <3> QED BY <2>2, <3>4
  <2> QED BY <2>1, <2>2
<1>5. lo \o hi \in Seq(S) /\ Len(lo \o hi) = Len(s) - 1
  BY <1>1, <1>2
<1> QED BY <1>3, <1>4, <1>5

(* With a new item in front, all others move down.                          *)
LEMMA InFrontFacts ==
  ASSUME NEW S, NEW s \in Seq(S), NEW x \in S
  PROVE  /\ <<x>> \o s \in Seq(S)
         /\ Len(<<x>> \o s) = Len(s) + 1
         /\ \A n \in 1..Len(s) + 1 : (<<x>> \o s)[n] = IF n = 1 THEN x ELSE s[n - 1]
  OBVIOUS

-----------------------------------------------------------------------------
(* The fields of a world that are about items.                              *)
ItemFields == {"parent", "list", "slot", "count", "weight", "carried"}

PlaceTypes(w) ==
  /\ ItemFields \subseteq DOMAIN w
  /\ ParentTypes(w)
  /\ w.list \in [Tiles \cup Bags -> Seq(Items)]
  /\ w.slot \in [Players -> [Slots -> Items \cup {NoItem}]]
  /\ w.count \in [Stacks -> 0..StackMax]

(* A list has each of the items that point back to c once, and no other.     *)
ListFits(w, c) ==
  /\ \A k \in 1..Len(w.list[c]) : w.parent[w.list[c][k]] = c
  /\ \A i \in Items : w.parent[i] = c => \E k \in 1..Len(w.list[c]) : w.list[c][k] = i
  /\ \A k, l \in 1..Len(w.list[c]) : w.list[c][k] = w.list[c][l] => k = l

(* So have the slots of a player.                                           *)
SlotsFit(w, p) ==
  /\ \A s \in Slots : w.slot[p][s] # NoItem => w.parent[w.slot[p][s]] = p
  /\ \A i \in Items : w.parent[i] = p => \E s \in Slots : w.slot[p][s] = i
  /\ \A s, t \in Slots : w.slot[p][s] = w.slot[p][t] => s = t \/ w.slot[p][s] = NoItem

(* PlacesAgree in the middle of a move, when an item may be nowhere.        *)
Laid(w) ==
  /\ PlaceTypes(w)
  /\ NoKnot(w)
  /\ \A c \in Tiles \cup Bags : ListFits(w, c)
  /\ \A p \in Players : SlotsFit(w, p)

(* v differs from w in other things than places.                            *)
SamePlaces(w, v) ==
  /\ ItemFields \subseteq DOMAIN v
  /\ v.parent = w.parent /\ v.list = w.list /\ v.slot = w.slot /\ v.count = w.count

(* Places do not depend on anything else.                                   *)
LEMMA SameLaid ==
  ASSUME NEW w, Laid(w), NEW v, SamePlaces(w, v)
  PROVE  Laid(v)
  BY DEF Laid, SamePlaces, PlaceTypes, ParentTypes, NoKnot, ListFits, SlotsFit

(* Nor on the sizes of stacks, within their bounds.                         *)
LEMMA CountLaid ==
  ASSUME NEW w, Laid(w), NEW v, ItemFields \subseteq DOMAIN v,
         v.parent = w.parent, v.list = w.list, v.slot = w.slot,
         v.count \in [Stacks -> 0..StackMax]
  PROVE  Laid(v)
  BY DEF Laid, PlaceTypes, ParentTypes, NoKnot, ListFits, SlotsFit

(* v is w after i went from where it was.                                   *)
TakenOut(w, v, i) ==
  /\ ItemFields \subseteq DOMAIN v
  /\ v.count = w.count
  /\ v.parent = [w.parent EXCEPT ![i] = Nowhere]
  /\ IF w.parent[i] \in Players
     THEN /\ v.list = w.list
          /\ \E s \in Slots : /\ w.slot[w.parent[i]][s] = i
                              /\ v.slot = [w.slot EXCEPT
                                   ![w.parent[i]] = [w.slot[w.parent[i]] EXCEPT ![s] = NoItem]]
     ELSE /\ v.slot = w.slot
          /\ \E k \in 1..Len(w.list[w.parent[i]]) :
               /\ w.list[w.parent[i]][k] = i
               /\ v.list = [w.list EXCEPT ![w.parent[i]] = RemoveAt(@, k)]

(* It leaves no trace.                                                      *)
LEMMA TakenOutLaid ==
  ASSUME NEW w, Laid(w), NEW i \in Items, w.parent[i] # Nowhere, NEW v, TakenOut(w, v, i)
  PROVE  Laid(v)
<1> USE WorldAssumption
<1> DEFINE c == w.parent[i]
<1>1. /\ c \in Places /\ ParentTypes(w) /\ w.list \in [Tiles \cup Bags -> Seq(Items)]
      /\ w.slot \in [Players -> [Slots -> Items \cup {NoItem}]]
      /\ w.count \in [Stacks -> 0..StackMax]
  BY DEF Laid, PlaceTypes, ParentTypes
<1>2. /\ v.parent = [w.parent EXCEPT ![i] = Nowhere] /\ v.count = w.count
      /\ ItemFields \subseteq DOMAIN v
  BY DEF TakenOut
<1>3. ParentTypes(v) /\ \A j \in Items : v.parent[j] = IF j = i THEN Nowhere ELSE w.parent[j]
  BY <1>1, <1>2 DEF ParentTypes
<1>4. NoKnot(v)
  <2>1. NoKnot(w) /\ Nowhere \notin Bags
    BY DEF Laid, Items
  <2> QED BY <1>1, <1>2, <2>1, KnotFree
<1>5. CASE c \in Players
  <2>1. v.list = w.list
    BY <1>5 DEF TakenOut
  <2>2. PICK s \in Slots : /\ w.slot[c][s] = i
                           /\ v.slot = [w.slot EXCEPT ![c] = [w.slot[c] EXCEPT ![s] = NoItem]]
    BY <1>5 DEF TakenOut
  <2> DEFINE row == [w.slot[c] EXCEPT ![s] = NoItem]
  <2> HIDE DEF c
  <2>r. /\ row \in [Slots -> Items \cup {NoItem}]
        /\ \A t \in Slots : row[t] = IF t = s THEN NoItem ELSE w.slot[c][t]
    BY <1>1, <1>5
  <2> HIDE DEF row
  <2>q. v.slot = [w.slot EXCEPT ![c] = row]
    BY <2>2 DEF row
  <2>3. /\ v.slot \in [Players -> [Slots -> Items \cup {NoItem}]]
        /\ \A p \in Players, t \in Slots :
             v.slot[p][t] = IF p = c /\ t = s THEN NoItem ELSE w.slot[p][t]
    BY <1>1, <1>5, <2>r, <2>q
  <2>4. PlaceTypes(v)
    BY <1>1, <1>2, <1>3, <2>1, <2>3 DEF PlaceTypes
  <2>5. ASSUME NEW b \in Tiles \cup Bags  PROVE  ListFits(v, b)
    <3>1. ListFits(w, b) /\ w.parent[i] # b /\ Nowhere # b
      BY <1>5 DEF Laid, c, Items
    <3>2. \A k \in 1..Len(w.list[b]) : w.list[b][k] \in Items
      BY <1>1
    <3> QED BY SMTT(30), <1>3, <2>1, <3>1, <3>2 DEF ListFits
  <2>6. ASSUME NEW p \in Players  PROVE  SlotsFit(v, p)
    <3>1. SlotsFit(w, p)
      BY DEF Laid
    <3>2. SlotsFit(w, c) /\ c = w.parent[i] /\ i # NoItem
      BY <1>5 DEF Laid, c
    <3>3. \A t \in Slots : w.slot[p][t] # NoItem => w.slot[p][t] \in Items
      BY <1>1
    <3>4. \A t \in Slots : v.slot[p][t] # NoItem => v.parent[v.slot[p][t]] = p
      BY SMTT(30), <1>3, <2>2, <2>3, <3>1, <3>2, <3>3 DEF SlotsFit
    <3>5. \A j \in Items : v.parent[j] = p => \E t \in Slots : v.slot[p][t] = j
      BY SMTT(30), <1>3, <2>2, <2>3, <3>1, <3>2 DEF SlotsFit
    <3>6. \A t, u \in Slots : v.slot[p][t] = v.slot[p][u] => t = u \/ v.slot[p][t] = NoItem
      BY <2>3, <3>1 DEF SlotsFit
    <3> QED BY <3>4, <3>5, <3>6 DEF SlotsFit
  <2> QED BY <1>4, <2>4, <2>5, <2>6 DEF Laid
<1>6. CASE c \in Tiles \cup Bags
  <2>0. c \notin Players
    BY <1>6 DEF Items
  <2>1. v.slot = w.slot
    BY <2>0 DEF TakenOut
  <2>2. PICK k \in 1..Len(w.list[c]) : /\ w.list[c][k] = i
                                       /\ v.list = [w.list EXCEPT ![c] = RemoveAt(@, k)]
    BY <2>0 DEF TakenOut
  <2> DEFINE old == w.list[c]
             new == RemoveAt(old, k)
  <2>3. /\ new \in Seq(Items) /\ Len(new) = Len(old) - 1
        /\ \A n \in 1..Len(old) - 1 : new[n] = IF n < k THEN old[n] ELSE old[n + 1]
    <3>1. old \in Seq(Items)
      BY <1>1, <1>6
    <3> QED BY <3>1, RemoveAtFacts
  <2>4. /\ v.list \in [Tiles \cup Bags -> Seq(Items)] /\ v.list[c] = new
        /\ \A b \in Tiles \cup Bags : b # c => v.list[b] = w.list[b]
    BY <1>1, <1>6, <2>2, <2>3
  <2>5. PlaceTypes(v)
    BY <1>1, <1>2, <1>3, <2>1, <2>4 DEF PlaceTypes
  <2>6. ASSUME NEW p \in Players  PROVE  SlotsFit(v, p)
    <3>1. SlotsFit(w, p) /\ w.parent[i] # p /\ Nowhere # p
      BY <2>0 DEF Laid
    <3>2. \A t \in Slots : w.slot[p][t] # NoItem => w.slot[p][t] \in Items
      BY <1>1
    <3> QED BY <1>3, <2>1, <3>1, <3>2 DEF SlotsFit
  <2>7. ListFits(w, c) /\ old \in Seq(Items) /\ c = w.parent[i]
    BY <1>1, <1>6 DEF Laid
  <2>8. ASSUME NEW b \in Tiles \cup Bags, b # c  PROVE  ListFits(v, b)
    <3>1. ListFits(w, b) /\ Nowhere # b /\ w.parent[i] # b
      BY <2>8 DEF Laid, Items
    <3>2. \A n \in 1..Len(w.list[b]) : w.list[b][n] \in Items
      BY <1>1
    <3>3. v.list[b] = w.list[b]
      BY <2>4, <2>8
    <3> HIDE DEF c, old, new
    <3>4. \A k1 \in 1..Len(w.list[b]) : v.parent[w.list[b][k1]] = b
      BY <1>3, <3>1, <3>2 DEF ListFits
    <3>5. \A j \in Items : v.parent[j] = b => w.parent[j] = b
      BY <1>3, <3>1
    <3> QED BY <3>1, <3>3, <3>4, <3>5 DEF ListFits
  <2> HIDE DEF c, old, new
  <2>9. ListFits(v, c)
    <3>1. Len(old) \in Nat /\ Len(new) = Len(old) - 1 /\ v.list[c] = new /\ c # Nowhere
          /\ k \in 1..Len(old) /\ old[k] = i /\ \A n \in 1..Len(old) : old[n] \in Items
      BY SMTT(30), <2>2, <2>3, <2>4, <2>7, <1>1 DEF old, Places, Items
    <3>2. /\ \A n \in 1..Len(old) : w.parent[old[n]] = c
          /\ \A j \in Items : w.parent[j] = c => \E n \in 1..Len(old) : old[n] = j
          /\ \A n, m \in 1..Len(old) : old[n] = old[m] => n = m
      BY <2>7 DEF ListFits, old
    <3>3. ASSUME NEW n \in 1..Len(new)
          PROVE  /\ new[n] \in Items /\ new[n] # i /\ w.parent[new[n]] = c
      <4>1. n \in 1..Len(old) /\ n + 1 \in 1..Len(old) /\ n \in 1..Len(old) - 1
        BY <3>1
      <4>2. CASE n < k
        BY <2>3, <3>1, <3>2, <4>1, <4>2
      <4>3. CASE ~(n < k)
        BY <2>3, <3>1, <3>2, <4>1, <4>3
      <4> QED BY <4>2, <4>3
    <3>4. ASSUME NEW n \in 1..Len(new), NEW m \in 1..Len(new), new[n] = new[m]  PROVE  n = m
      <4>1. n \in 1..Len(old) - 1 /\ m \in 1..Len(old) - 1
        BY <3>1
      <4>2. /\ n \in 1..Len(old) /\ n + 1 \in 1..Len(old)
            /\ m \in 1..Len(old) /\ m + 1 \in 1..Len(old)
        BY <3>1, <4>1
      <4> QED BY SMTT(30), <2>3, <3>1, <3>2, <3>4, <4>1, <4>2
    <3>5. ASSUME NEW j \in Items, v.parent[j] = c  PROVE  \E n \in 1..Len(new) : new[n] = j
      <4>1. j # i /\ w.parent[j] = c
        BY <1>3, <3>1, <3>5
      <4>2. PICK m \in 1..Len(old) : old[m] = j
        BY <3>2, <4>1
      <4>3. CASE m < k
        <5>1. m \in 1..Len(old) - 1
          BY <3>1, <4>3
        <5> QED BY <2>3, <3>1, <4>2, <4>3, <5>1
      <4>4. CASE m > k
        <5>1. m - 1 \in 1..Len(old) - 1 /\ ~(m - 1 < k) /\ (m - 1) + 1 = m
          BY <3>1, <4>4
        <5> QED BY <2>3, <3>1, <4>2, <5>1
      <4>5. m # k
        BY <3>1, <4>1, <4>2
      <4> QED BY <4>3, <4>4, <4>5
    <3> QED BY <1>3, <3>1, <3>3, <3>4, <3>5 DEF ListFits
  <2> QED BY <1>4, <2>5, <2>6, <2>8, <2>9 DEF Laid
<1> QED BY <1>1, <1>5, <1>6 DEF Places

(* Where there is room for an item to be added.                             *)
FreeAt(w, c, index) ==
  /\ c \in Players => index \in Slots /\ w.slot[c][index] = NoItem
  /\ c \in Bags => index < Room

(* v is w after i, which was nowhere, came to c.                            *)
PutIn(w, v, c, index, i) ==
  /\ ItemFields \subseteq DOMAIN v
  /\ v.count = w.count
  /\ v.parent = [w.parent EXCEPT ![i] = c]
  /\ IF c \in Players
     THEN /\ v.list = w.list
          /\ v.slot = [w.slot EXCEPT ![c] = [w.slot[c] EXCEPT ![index] = i]]
     ELSE /\ v.slot = w.slot
          /\ v.list = [w.list EXCEPT ![c] = <<i>> \o @]

(* It is found there, and nothing else is disturbed.                        *)
LEMMA PutInLaid ==
  ASSUME NEW w, Laid(w), NEW i \in Items, w.parent[i] = Nowhere, NEW c \in Places,
         c \in Bags /\ i \in Bags => Clear(w, c, i), NEW index, FreeAt(w, c, index),
         NEW v, PutIn(w, v, c, index, i)
  PROVE  Laid(v)
<1> USE WorldAssumption
<1>1. /\ ParentTypes(w) /\ w.list \in [Tiles \cup Bags -> Seq(Items)]
      /\ w.slot \in [Players -> [Slots -> Items \cup {NoItem}]]
      /\ w.count \in [Stacks -> 0..StackMax]
      /\ c # Nowhere /\ i # NoItem
  BY DEF Laid, PlaceTypes, Places, Items
<1>2. /\ v.parent = [w.parent EXCEPT ![i] = c] /\ v.count = w.count
      /\ ItemFields \subseteq DOMAIN v
  BY DEF PutIn
<1>3. ParentTypes(v) /\ \A j \in Items : v.parent[j] = IF j = i THEN c ELSE w.parent[j]
  BY <1>1, <1>2 DEF ParentTypes
<1>4. NoKnot(v)
  <2>1. NoKnot(w)
    BY DEF Laid
  <2> QED BY <1>1, <1>2, <2>1, KnotFree
<1>5. CASE c \in Players
  <2> DEFINE row == [w.slot[c] EXCEPT ![index] = i]
  <2>1. v.list = w.list /\ v.slot = [w.slot EXCEPT ![c] = row]
    BY <1>5 DEF PutIn
  <2>2. index \in Slots /\ w.slot[c][index] = NoItem
    BY <1>5 DEF FreeAt
  <2>3. /\ row \in [Slots -> Items \cup {NoItem}]
        /\ \A t \in Slots : row[t] = IF t = index THEN i ELSE w.slot[c][t]
    BY <1>1, <1>5, <2>2
  <2> HIDE DEF row
  <2>4. /\ v.slot \in [Players -> [Slots -> Items \cup {NoItem}]]
        /\ \A p \in Players, t \in Slots :
             v.slot[p][t] = IF p = c /\ t = index THEN i ELSE w.slot[p][t]
    BY <1>1, <1>5, <2>1, <2>3
  <2>5. PlaceTypes(v)
    BY <1>1, <1>2, <1>3, <2>1, <2>4 DEF PlaceTypes
  <2>6. ASSUME NEW b \in Tiles \cup Bags  PROVE  ListFits(v, b)
    <3>1. ListFits(w, b) /\ c # b /\ Nowhere # b
      BY <1>5 DEF Laid, Items
    <3>2. \A k \in 1..Len(w.list[b]) : w.list[b][k] \in Items
      BY <1>1
    <3> QED BY SMTT(30), <1>3, <2>1, <3>1, <3>2 DEF ListFits
  <2>7. ASSUME NEW p \in Players  PROVE  SlotsFit(v, p)
    <3>1. SlotsFit(w, p) /\ Nowhere # p
      BY DEF Laid
    <3>2. \A t \in Slots : w.slot[p][t] # NoItem => w.slot[p][t] \in Items /\ w.slot[p][t] # i
      BY <1>1, <3>1 DEF SlotsFit
    <3>3. ASSUME NEW t \in Slots, v.slot[p][t] # NoItem  PROVE  v.parent[v.slot[p][t]] = p
      BY <1>3, <2>4, <3>1, <3>2, <3>3 DEF SlotsFit
    <3>4. ASSUME NEW j \in Items, v.parent[j] = p  PROVE  \E t \in Slots : v.slot[p][t] = j
      <4>1. CASE j = i
        BY <1>1, <1>3, <2>2, <2>4, <3>1, <3>4, <4>1
      <4>2. CASE j # i
        <5>1. PICK t \in Slots : w.slot[p][t] = j
          BY <1>3, <3>1, <3>4, <4>2 DEF SlotsFit
        <5>2. v.slot[p][t] = j
          BY <2>2, <2>4, <5>1
        <5> QED BY <5>2
      <4> QED BY <4>1, <4>2
    <3>5. ASSUME NEW t \in Slots, NEW u \in Slots, v.slot[p][t] = v.slot[p][u]
          PROVE  t = u \/ v.slot[p][t] = NoItem
      BY <1>1, <2>4, <3>1, <3>2, <3>5 DEF SlotsFit
    <3> QED BY <3>3, <3>4, <3>5 DEF SlotsFit
  <2> QED BY <1>4, <2>5, <2>6, <2>7 DEF Laid
<1>6. CASE c \in Tiles \cup Bags
  <2> DEFINE old == w.list[c]
             new == <<i>> \o old
  <2>1. c \notin Players
    BY <1>6 DEF Items
  <2>2. v.slot = w.slot /\ v.list = [w.list EXCEPT ![c] = new]
    BY <2>1 DEF PutIn
  <2>3. old \in Seq(Items) /\ ListFits(w, c)
    BY <1>1, <1>6 DEF Laid
  <2>4. /\ new \in Seq(Items) /\ Len(new) = Len(old) + 1
        /\ \A n \in 1..Len(old) + 1 : new[n] = IF n = 1 THEN i ELSE old[n - 1]
    <3> HIDE DEF old
    <3> QED BY <2>3, InFrontFacts
  <2> HIDE DEF new
  <2>5. /\ v.list \in [Tiles \cup Bags -> Seq(Items)] /\ v.list[c] = new
        /\ \A b \in Tiles \cup Bags : b # c => v.list[b] = w.list[b]
    BY <1>1, <1>6, <2>2, <2>4
  <2>6. PlaceTypes(v)
    BY <1>1, <1>2, <1>3, <2>2, <2>5 DEF PlaceTypes
  <2>7. ASSUME NEW p \in Players  PROVE  SlotsFit(v, p)
    <3>1. SlotsFit(w, p) /\ c # p /\ Nowhere # p
      BY <2>1 DEF Laid
    <3>2. \A t \in Slots : w.slot[p][t] # NoItem => w.slot[p][t] \in Items
      BY <1>1
    <3> QED BY <1>3, <2>2, <3>1, <3>2 DEF SlotsFit
  <2>8. ASSUME NEW b \in Tiles \cup Bags, b # c  PROVE  ListFits(v, b)
    <3>1. ListFits(w, b) /\ Nowhere # b
      BY DEF Laid, Items
    <3>2. \A n \in 1..Len(w.list[b]) : w.list[b][n] \in Items
      BY <1>1
    <3>3. v.list[b] = w.list[b]
      BY <2>5, <2>8
    <3> HIDE DEF old
    <3>4. \A n \in 1..Len(w.list[b]) : v.parent[w.list[b][n]] = b
      BY <1>3, <3>1, <3>2 DEF ListFits
    <3>5. \A j \in Items : v.parent[j] = b => w.parent[j] = b
      BY <1>3, <2>8, <3>1
    <3> QED BY <3>1, <3>3, <3>4, <3>5 DEF ListFits
  <2>9. ListFits(v, c)
    <3>1. /\ \A n \in 1..Len(old) : w.parent[old[n]] = c /\ old[n] \in Items /\ old[n] # i
          /\ \A j \in Items : w.parent[j] = c => \E n \in 1..Len(old) : old[n] = j
          /\ \A n, m \in 1..Len(old) : old[n] = old[m] => n = m
      BY <1>1, <2>3 DEF ListFits
    <3>2. Len(old) \in Nat /\ Len(new) = Len(old) + 1 /\ v.list[c] = new
      BY <2>3, <2>4, <2>5
    <3> HIDE DEF old
    <3>3. ASSUME NEW n \in 1..Len(new)
          PROVE  /\ n = 1 => new[n] = i
                 /\ n # 1 => n - 1 \in 1..Len(old) /\ new[n] = old[n - 1]
      BY <2>4, <3>2
    <3>4. \A n \in 1..Len(new) : v.parent[new[n]] = c
      <4>1. ASSUME NEW n \in 1..Len(new)  PROVE  v.parent[new[n]] = c
        <5>1. CASE n = 1
          BY <1>3, <3>3, <5>1
        <5>2. CASE n # 1
          <6>1. n - 1 \in 1..Len(old) /\ new[n] = old[n - 1]
            BY <3>3, <5>2
          <6> DEFINE m == n - 1
          <6>2. m \in 1..Len(old) /\ new[n] = old[m]
            BY <6>1
          <6> HIDE DEF m
          <6>3. new[n] \in Items /\ new[n] # i /\ w.parent[new[n]] = c
            BY <3>1, <6>2
          <6> QED BY <1>3, <6>3
        <5> QED BY <5>1, <5>2
      <4> QED BY <4>1
    <3>5. \A n, m \in 1..Len(new) : new[n] = new[m] => n = m
      <4>1. ASSUME NEW n \in 1..Len(new), NEW m \in 1..Len(new), new[n] = new[m]  PROVE  n = m
        <5>1. ASSUME n # 1, m # 1  PROVE  n - 1 = m - 1
          <6>1. /\ n - 1 \in 1..Len(old) /\ m - 1 \in 1..Len(old)
                /\ old[n - 1] = old[m - 1]
            BY <3>3, <4>1, <5>1
          <6> QED BY <3>1, <6>1
        <5>2. (n = 1) = (m = 1)
          BY SMTT(30), <3>1, <3>3, <4>1
        <5> QED BY <3>2, <5>1, <5>2
      <4> QED BY <4>1
    <3>6. ASSUME NEW j \in Items, v.parent[j] = c  PROVE  \E n \in 1..Len(new) : new[n] = j
      <4>1. CASE j = i
        <5>1. 1 \in 1..Len(new)
          BY <3>2
        <5> QED BY <3>3, <4>1, <5>1
      <4>2. CASE j # i
        <5>1. PICK m \in 1..Len(old) : old[m] = j
          BY <1>3, <3>1, <3>6, <4>2
        <5>2. m + 1 \in 1..Len(new) /\ m + 1 # 1 /\ (m + 1) - 1 = m
          BY <3>2
        <5> QED BY <3>3, <5>1, <5>2
      <4> QED BY <4>1, <4>2
    <3> QED BY <3>2, <3>4, <3>5, <3>6 DEF ListFits
  <2> QED BY <1>4, <2>6, <2>7, <2>8, <2>9 DEF Laid
<1> QED BY <1>5, <1>6 DEF Places

-----------------------------------------------------------------------------
(* The steps of a move.  What they tell the players watching closes trades   *)
(* and leaves items alone.                                                  *)
SameItems(w, v) == SamePlaces(w, v) /\ v.weight = w.weight /\ v.carried = w.carried

(* What closes a trade leaves the items alone,                              *)
LEMMA CloseSame ==
  ASSUME NEW w, ItemFields \subseteq DOMAIN w, NEW ps
  PROVE  SameItems(w, CloseTrades(w, ps))
  BY DEF SameItems, SamePlaces, ItemFields, CloseTrades, CloseOwnTrades

(* and so does what may close it.                                           *)
LEMMA NotifySame ==
  ASSUME NEW w, ItemFields \subseteq DOMAIN w, NEW c, NEW i
  PROVE  /\ SameItems(w, NotifyRemove(w, c, i))
         /\ SameItems(w, NotifyAdd(w, c, i))
         /\ SameItems(w, NotifyUpdate(w, c, i))
<1>1. SameItems(w, NotifyRemove(w, c, i))
  BY CloseSame DEF NotifyRemove
<1>2. SameItems(w, NotifyAdd(w, c, i))
  BY CloseSame DEF NotifyAdd
<1>3. SameItems(w, NotifyUpdate(w, c, i))
  BY CloseSame DEF NotifyUpdate
<1> QED BY <1>1, <1>2, <1>3

(* Nor do cached weights.                                                   *)
LEMMA WeightSame ==
  ASSUME NEW w, ItemFields \subseteq DOMAIN w, NEW b, NEW diff
  PROVE  SamePlaces(w, UpdateItemWeight(w, b, diff))
  BY DEF SamePlaces, ItemFields, UpdateItemWeight

(* The weight of a player is no place either.                               *)
LEMMA PostSame ==
  ASSUME NEW w, ItemFields \subseteq DOMAIN w, NEW c
  PROVE  SamePlaces(w, PostNotification(w, c))
  BY DEF SamePlaces, ItemFields, PostNotification

(* __removeThing of a whole item.                                           *)
LEMMA RemoveFacts ==
  ASSUME NEW w, Laid(w), NEW i \in Items, w.parent[i] # Nowhere, NEW n,
         i \in Stacks => n = w.count[i]
  PROVE  TakenOut(w, RemoveThing(w, w.parent[i], i, n), i)
<1> USE WorldAssumption
<1> DEFINE c == w.parent[i]
<1>1. /\ c \in Places /\ ItemFields \subseteq DOMAIN w
      /\ w.list \in [Tiles \cup Bags -> Seq(Items)]
      /\ w.slot \in [Players -> [Slots -> Items \cup {NoItem}]]
  BY DEF Laid, PlaceTypes, ParentTypes
<1>2. CASE c \in Players
  <2> DEFINE s == IndexOf(w, c, i)
             u == NotifyRemove(w, c, i)
             v == PlayerRemoveThing(w, c, i)
  <2>1. s \in Slots /\ w.slot[c][s] = i
    <3>1. \E t \in Slots : w.slot[c][t] = i
      BY <1>2 DEF Laid, SlotsFit
    <3> QED BY <1>2, <3>1 DEF IndexOf
  <2>2. SameItems(w, u)
    BY <1>1, NotifySame
  <2>3. v = [u EXCEPT !.parent[i] = Nowhere, !.slot[c][s] = NoItem]
    BY DEF PlayerRemoveThing
  <2> HIDE DEF s, u, c, v
  <2>4. /\ ItemFields \subseteq DOMAIN v
        /\ v.count = w.count /\ v.list = w.list
        /\ v.parent = [w.parent EXCEPT ![i] = Nowhere]
        /\ v.slot = [w.slot EXCEPT ![c] = [w.slot[c] EXCEPT ![s] = NoItem]]
    BY <2>2, <2>3 DEF SameItems, SamePlaces, ItemFields
  <2>5. TakenOut(w, v, i)
    BY <1>2, <2>1, <2>4 DEF TakenOut, c
  <2> QED BY <1>2, <2>5 DEF RemoveThing, c, v
<1>3. CASE c \in Tiles \cup Bags
  <2> DEFINE k == IndexOf(w, c, i) + 1
  <2>0. c \notin Players
    BY <1>3 DEF Items
  <2>1. k \in 1..Len(w.list[c]) /\ w.list[c][k] = i
    <3>1. w.list[c] \in Seq(Items)
      BY <1>1, <1>3
    <3>2. \E n1 \in DOMAIN w.list[c] : w.list[c][n1] = i
      <4>1. ListFits(w, c) /\ w.parent[i] = c
        BY <1>3 DEF Laid
      <4> HIDE DEF c
      <4>2. DOMAIN w.list[c] = 1..Len(w.list[c])
        BY <3>1
      <4> QED BY <4>1, <4>2 DEF ListFits
    <3> DEFINE m == CHOOSE n1 \in DOMAIN w.list[c] : w.list[c][n1] = i
    <3>3. m \in DOMAIN w.list[c] /\ w.list[c][m] = i
      BY <3>2
    <3>4. IndexOf(w, c, i) = m - 1
      BY <2>0 DEF IndexOf
    <3> HIDE DEF m, c
    <3>5. m \in 1..Len(w.list[c])
      BY <3>1, <3>3
    <3> QED BY <3>3, <3>4, <3>5
  <2>2. CASE c \in Bags
    <3> DEFINE u == NotifyRemove(w, c, i)
               x == [u EXCEPT !.parent[i] = Nowhere, !.list[c] = RemoveAt(@, k)]
               v == BagRemoveThing(w, c, i)
    <3>1. SameItems(w, u)
      BY <1>1, NotifySame
    <3>2. v = UpdateItemWeight(x, c, -Weight(w, i))
      BY DEF BagRemoveThing
    <3> HIDE DEF u, c, k
    <3>3. /\ ItemFields \subseteq DOMAIN x
          /\ x.count = w.count /\ x.slot = w.slot
          /\ x.parent = [w.parent EXCEPT ![i] = Nowhere]
          /\ x.list = [w.list EXCEPT ![c] = RemoveAt(@, k)]
      BY <3>1 DEF SameItems, SamePlaces, ItemFields
    <3> HIDE DEF x, v
    <3>4. SamePlaces(x, v)
      BY <3>2, <3>3, WeightSame
    <3>5. TakenOut(w, v, i)
      BY <2>0, <2>1, <3>3, <3>4 DEF TakenOut, c, SamePlaces
    <3> QED BY <2>0, <2>2, <3>5 DEF RemoveThing, c, v
  <2>3. CASE c \notin Bags
    <3> DEFINE x == [w EXCEPT !.parent[i] = Nowhere, !.list[c] = RemoveAt(@, k)]
               v == TileRemoveThing(w, c, i)
    <3>1. v = NotifyRemove(x, c, i)
      BY DEF TileRemoveThing
    <3> HIDE DEF c, k
    <3>2. /\ ItemFields \subseteq DOMAIN x
          /\ x.count = w.count /\ x.slot = w.slot
          /\ x.parent = [w.parent EXCEPT ![i] = Nowhere]
          /\ x.list = [w.list EXCEPT ![c] = RemoveAt(@, k)]
      BY <1>1 DEF ItemFields
    <3> HIDE DEF x, v
    <3>3. SamePlaces(x, v)
      BY <3>1, <3>2, NotifySame DEF SameItems
    <3>4. TakenOut(w, v, i)
      BY <2>0, <2>1, <3>2, <3>3 DEF TakenOut, c, SamePlaces
    <3> QED BY <2>0, <2>3, <3>4 DEF RemoveThing, c, v
  <2> QED BY <2>2, <2>3
<1> QED BY <1>1, <1>2, <1>3 DEF Places

(* __addThing, where there is room.                                         *)
LEMMA AddFacts ==
  ASSUME NEW w, Laid(w), NEW i \in Items, NEW c \in Places, NEW index, FreeAt(w, c, index),
         index \in Int
  PROVE  PutIn(w, AddThing(w, c, index, i), c, index, i)
<1> USE WorldAssumption
<1>1. ItemFields \subseteq DOMAIN w
  BY DEF Laid, PlaceTypes
<1>2. CASE c \in Players
  <2>1. AddThing(w, c, index, i) = [w EXCEPT !.parent[i] = c, !.slot[c][index] = i]
    BY <1>2 DEF AddThing, PlayerAddThing, FreeAt
  <2> QED BY <1>1, <1>2, <2>1 DEF PutIn, ItemFields
<1>3. CASE c \in Bags
  <2> DEFINE x == [w EXCEPT !.parent[i] = c, !.list[c] = <<i>> \o @]
             y == UpdateItemWeight(x, c, Weight(w, i))
  <2>1. c \notin Players /\ ~(index >= Room)
    BY <1>3 DEF FreeAt, Items
  <2>2. AddThing(w, c, index, i) = NotifyAdd(y, c, i)
    BY <1>3, <2>1 DEF AddThing, BagAddThing
  <2>3. /\ ItemFields \subseteq DOMAIN x
        /\ x.count = w.count /\ x.slot = w.slot
        /\ x.parent = [w.parent EXCEPT ![i] = c]
        /\ x.list = [w.list EXCEPT ![c] = <<i>> \o @]
    BY <1>1 DEF ItemFields
  <2> HIDE DEF x
  <2>4. SamePlaces(x, y)
    BY <2>3, WeightSame
  <2> HIDE DEF y
  <2>5. SamePlaces(y, NotifyAdd(y, c, i))
    BY <2>4, NotifySame DEF SameItems, SamePlaces
  <2> QED BY <2>1, <2>2, <2>3, <2>4, <2>5 DEF PutIn, SamePlaces
<1>4. CASE c \notin Players /\ c \notin Bags
  <2>1. AddThing(w, c, index, i) = [w EXCEPT !.parent[i] = c, !.list[c] = <<i>> \o @]
    BY <1>4 DEF AddThing, TileAddThing
  <2> QED BY <1>1, <1>4, <2>1 DEF PutIn, ItemFields
<1> QED BY <1>2, <1>3, <1>4

(* __updateThing.                                                           *)
Recounted(w, v, i, n) ==
  /\ ItemFields \subseteq DOMAIN v
  /\ v.parent = w.parent /\ v.list = w.list /\ v.slot = w.slot
  /\ v.count = [w.count EXCEPT ![i] = n]

(* It changes one count.                                                    *)
LEMMA UpdateFacts ==
  ASSUME NEW w, ItemFields \subseteq DOMAIN w, NEW i, NEW c, NEW n
  PROVE  Recounted(w, UpdateThing(w, c, i, n), i, n)
<1> DEFINE x == [w EXCEPT !.count[i] = n]
           y == UpdateItemWeight(x, c, n - w.count[i])
<1>1. Recounted(w, x, i, n)
  BY DEF Recounted, ItemFields
<1>2. UpdateThing(w, c, i, n) = IF c \in Bags THEN NotifyUpdate(y, c, i) ELSE NotifyUpdate(x, c, i)
  BY DEF UpdateThing, BagUpdateThing
<1> HIDE DEF x
<1>3. SamePlaces(x, y)
  BY <1>1, WeightSame DEF Recounted
<1> HIDE DEF y
<1>4. SamePlaces(y, NotifyUpdate(y, c, i)) /\ SamePlaces(x, NotifyUpdate(x, c, i))
  BY <1>1, <1>3, NotifySame DEF Recounted, SameItems, SamePlaces
<1> QED BY <1>1, <1>2, <1>3, <1>4 DEF Recounted, SamePlaces

-----------------------------------------------------------------------------
(* What internalMoveItem does after its checks.                             *)

(* Every item that exists is in a place, and no other.                      *)
Placed(w) == Laid(w) /\ \A i \in Items : Exists(w, i) <=> w.parent[i] # Nowhere

(* The lesser of two,                                                       *)
LEMMA MinFacts ==
  ASSUME NEW a \in Int, NEW b \in Int
  PROVE  Min({a, b}) = IF a <= b THEN a ELSE b
<1> DEFINE P(x) == x \in {a, b} /\ \A y \in {a, b} : x <= y
<1>1. \E x \in {a, b} : \A y \in {a, b} : x <= y
  OBVIOUS
<1>2. Min({a, b}) \in {a, b} /\ \A y \in {a, b} : Min({a, b}) <= y
  BY <1>1 DEF Min
<1> QED BY <1>2

(* and the greater.                                                         *)
LEMMA MaxFacts ==
  ASSUME NEW a \in Int, NEW b \in Int
  PROVE  Max({a, b}) = IF a >= b THEN a ELSE b
<1>1. \E x \in {a, b} : \A y \in {a, b} : x >= y
  OBVIOUS
<1>2. Max({a, b}) \in {a, b} /\ \A y \in {a, b} : Max({a, b}) >= y
  BY <1>1 DEF Max
<1> QED BY <1>2

(* m of i leave, all of it or less.                                         *)
Whole(w, i, m) == i \in Stacks => m = w.count[i]

(* What leaves, leaves no trace, and takes nobody's place.                  *)
LEMMA DepartFacts ==
  ASSUME NEW w, Laid(w), NEW i \in Items, w.parent[i] # Nowhere,
         NEW m \in 1..ItemCount(w, i), NEW u, u = Depart(w, w.parent[i], i, m)
  PROVE  /\ Laid(u)
         /\ u.parent = IF Whole(w, i, m) THEN [w.parent EXCEPT ![i] = Nowhere] ELSE w.parent
         /\ u.count = IF i \in Stacks THEN [w.count EXCEPT ![i] = @ - m] ELSE w.count
         /\ \A to \in Places : \A index : FreeAt(w, to, index) => FreeAt(u, to, index)
<1> USE WorldAssumption
<1> DEFINE c == w.parent[i]
           r == RemoveThing(w, c, i, m)
<1>1. /\ c \in Places /\ w.count \in [Stacks -> 0..StackMax] /\ ItemFields \subseteq DOMAIN w
      /\ w.slot \in [Players -> [Slots -> Items \cup {NoItem}]]
      /\ StackMax \in Nat
  BY DEF Laid, PlaceTypes, ParentTypes
<1>2. u = [r EXCEPT !.count = IF i \in Stacks /\ m = w.count[i]
                              THEN [r.count EXCEPT ![i] = 0] ELSE r.count]
  BY DEF Depart
<1>3. CASE Whole(w, i, m)
  <2>1. TakenOut(w, r, i)
    BY <1>3, RemoveFacts DEF Whole
  <2>2. Laid(r)
    BY <2>1, TakenOutLaid
  <2>3. ItemFields \subseteq DOMAIN r /\ r.count = w.count
        /\ r.parent = [w.parent EXCEPT ![i] = Nowhere]
    BY <2>1 DEF TakenOut
  <2>4. \A p \in Players, s \in Slots : w.slot[p][s] = NoItem => r.slot[p][s] = NoItem
    <3>1. CASE c \in Players
      <4>1. PICK s \in Slots : r.slot = [w.slot EXCEPT ![c] = [w.slot[c] EXCEPT ![s] = NoItem]]
        BY <2>1, <3>1 DEF TakenOut
      <4> QED BY <1>1, <4>1
    <3>2. CASE c \notin Players
      BY <2>1, <3>2 DEF TakenOut
    <3> QED BY <3>1, <3>2
  <2> HIDE DEF r, c
  <2>5. /\ ItemFields \subseteq DOMAIN u
        /\ u.parent = r.parent /\ u.list = r.list /\ u.slot = r.slot
        /\ u.count = IF i \in Stacks THEN [w.count EXCEPT ![i] = 0] ELSE w.count
    BY <1>2, <1>3, <2>3 DEF ItemFields, Whole
  <2>6. u.count = IF i \in Stacks THEN [w.count EXCEPT ![i] = @ - m] ELSE w.count
    BY <1>1, <1>3, <2>5 DEF Whole
  <2>7. u.count \in [Stacks -> 0..StackMax]
    BY <1>1, <2>5
  <2>8. Laid(u)
    BY <2>2, <2>5, <2>7, CountLaid
  <2>9. \A to \in Places : \A index : FreeAt(w, to, index) => FreeAt(u, to, index)
    BY <2>4, <2>5 DEF FreeAt
  <2> QED BY <1>3, <2>3, <2>5, <2>6, <2>8, <2>9
<1>4. CASE ~Whole(w, i, m)
  <2>1. i \in Stacks /\ m # w.count[i] /\ m \in 1..w.count[i]
    BY <1>4 DEF Whole, ItemCount
  <2>2. r = UpdateThing(w, c, i, w.count[i] - m)
    BY <2>1 DEF RemoveThing
  <2>3. Recounted(w, r, i, w.count[i] - m)
    BY <1>1, <2>2, UpdateFacts
  <2> HIDE DEF r, c
  <2>4. /\ ItemFields \subseteq DOMAIN u
        /\ u.parent = w.parent /\ u.list = w.list /\ u.slot = w.slot
        /\ u.count = [w.count EXCEPT ![i] = w.count[i] - m]
    BY <1>2, <2>1, <2>3 DEF ItemFields, Recounted
  <2>5. w.count[i] - m \in 0..StackMax
    BY <1>1, <2>1
  <2>6. u.count \in [Stacks -> 0..StackMax]
    BY <1>1, <2>1, <2>4, <2>5
  <2>7. Laid(u)
    BY <2>4, <2>6, CountLaid
  <2>8. \A to \in Places : \A index : FreeAt(w, to, index) => FreeAt(u, to, index)
    BY <2>4 DEF FreeAt
  <2>9. u.count = [w.count EXCEPT ![i] = @ - m]
    BY <1>1, <2>1, <2>4
  <2> QED BY <1>4, <2>1, <2>4, <2>7, <2>8, <2>9
<1> QED BY <1>3, <1>4

(* Of m pieces of i, those that join the stack at d, and the object that      *)
(* arrives, if there is a rest.                                             *)
Joining(w, d, i, m) == IF SameType(i, d.item) THEN Min({Remainder(w, d.item), m}) ELSE 0

Arriving(w, i, m) == IF i \in Stacks /\ m # w.count[i] THEN CHOOSE j \in Unused(w) : TRUE ELSE i

Arrives(w, d, i, m) == i \in Stacks => m # Joining(w, d, i, m)

(* A cylinder with an index in it, and the item there.                      *)
Spot(w, d) ==
  /\ d.to \in Places /\ d.index \in Int /\ d.item \in Items \cup {NoItem}
  /\ d.item # NoItem => w.parent[d.item] = d.to

(* There is room for another item at d.                                     *)
Roomy(w, d) ==
  FreeAt(w, d.to, d.index) /\ (d.to \in Bags => Len(w.list[d.to]) < Room)

(* Who holds d can carry m of i.                                            *)
Bears(w, d, i, m) ==
  Holder(w, d.to) # NoPlayer =>
    \E n \in 0..StackMax : (i \in Stacks => m <= n) /\ HasCapacity(w, Holder(w, d.to), i, n)

(* What the checks of internalMoveItem must make sure of: i fits into d,      *)
(* neither into itself nor in the place of another item, and if a stack is    *)
(* split there is an object for the part that leaves.                       *)
MayTransfer(w, d, i, m) ==
  /\ Spot(w, d) /\ d.item # i
  /\ m \in 1..ItemCount(w, i) /\ w.parent[i] # Nowhere
  /\ d.to \in Bags /\ i \in Bags => Clear(w, d.to, i)
  /\ Roomy(w, d) \/ (SameType(i, d.item) /\ m <= Remainder(w, d.item))
  /\ Bears(w, d, i, m)
  /\ ~Whole(w, i, m) /\ Arrives(w, d, i, m) => Unused(w) # {}

(* Then everything has its place afterwards, i or its part at d.            *)
Transferred(w, v, d, i, m) ==
  /\ v.parent = [j \in Items |-> IF Arrives(w, d, i, m) /\ j = Arriving(w, i, m) THEN d.to
                                 ELSE IF j = i /\ Whole(w, i, m) THEN Nowhere ELSE w.parent[j]]
  /\ v.count = [j \in Stacks |->
       IF Arrives(w, d, i, m) /\ j = Arriving(w, i, m) THEN m - Joining(w, d, i, m)
       ELSE IF j = i THEN w.count[i] - m
       ELSE IF j = d.item /\ SameType(i, d.item) THEN w.count[j] + Joining(w, d, i, m)
       ELSE w.count[j]]

(* Some of what moves joins the stack at d, no more than fits.               *)
LEMMA JoiningFacts ==
  ASSUME NEW w, Laid(w), NEW i \in Items, NEW d, NEW m, MayTransfer(w, d, i, m),
         NEW n, n = Joining(w, d, i, m)
  PROVE  /\ m \in 1..ItemCount(w, i) /\ m \in Nat /\ (i \in Stacks => m \in 1..w.count[i])
         /\ n \in Nat /\ n <= m
         /\ SameType(i, d.item) => /\ i \in Stacks /\ d.item \in Stacks
                                   /\ w.count[d.item] + n \in 0..StackMax
                                   /\ m <= Remainder(w, d.item) => n = m
         /\ ~SameType(i, d.item) => n = 0
<1>1. w.count \in [Stacks -> 0..StackMax] /\ StackMax \in Nat
  BY WorldAssumption DEF Laid, PlaceTypes
<1>2. m \in 1..ItemCount(w, i) /\ m \in Nat /\ (i \in Stacks => m \in 1..w.count[i])
  <2>1. ItemCount(w, i) \in Nat
    BY <1>1 DEF ItemCount
  <2> QED BY <2>1 DEF MayTransfer, ItemCount
<1>3. CASE SameType(i, d.item)
  <2>1. i \in Stacks /\ d.item \in Stacks
    BY <1>3 DEF SameType
  <2>2. Remainder(w, d.item) = StackMax - w.count[d.item] /\ w.count[d.item] \in 0..StackMax
    BY <1>1, <2>1 DEF Remainder
  <2>3. Min({Remainder(w, d.item), m}) =
          IF Remainder(w, d.item) <= m THEN Remainder(w, d.item) ELSE m
    BY <1>1, <1>2, <2>2, MinFacts
  <2>4. n = Min({Remainder(w, d.item), m})
    BY <1>3 DEF Joining
  <2> QED BY <1>1, <1>2, <1>3, <2>1, <2>2, <2>3, <2>4
<1>4. CASE ~SameType(i, d.item)
  BY <1>2, <1>4 DEF Joining
<1> QED BY <1>2, <1>3, <1>4

(* For the part of a stack that leaves it there is an object.                *)
LEMMA ArrivingFacts ==
  ASSUME NEW w, Placed(w), NEW i \in Items, NEW d, NEW m, MayTransfer(w, d, i, m),
         NEW o, o = Arriving(w, i, m)
  PROVE  /\ Whole(w, i, m) => o = i
         /\ ~Whole(w, i, m) /\ Arrives(w, d, i, m) =>
              o \in Stacks /\ w.count[o] = 0 /\ w.parent[o] = Nowhere /\ o # i
<1>1. Whole(w, i, m) => o = i
  BY DEF Whole, Arriving
<1>2. ASSUME ~Whole(w, i, m), Arrives(w, d, i, m)
      PROVE  o \in Stacks /\ w.count[o] = 0 /\ w.parent[o] = Nowhere /\ o # i
  <2>1. Unused(w) # {}
    BY <1>2 DEF MayTransfer
  <2>2. o = CHOOSE j \in Unused(w) : TRUE
    BY <1>2 DEF Whole, Arriving
  <2>3. o \in Unused(w)
    BY <2>1, <2>2
  <2>4. o \in Stacks /\ w.count[o] = 0
    BY <2>3 DEF Unused
  <2>5. o \in Items /\ ~Exists(w, o)
    BY <2>4 DEF Exists, Items
  <2>6. w.parent[o] = Nowhere
    BY <2>5 DEF Placed
  <2>7. w.parent[i] # Nowhere
    BY DEF MayTransfer
  <2> QED BY <2>4, <2>6, <2>7
<1> QED BY <1>1, <1>2

(* The whole transfer: part or all of i to d.                               *)
LEMMA TransferFacts ==
  ASSUME NEW w, Placed(w), NEW i \in Items, NEW d, NEW m, MayTransfer(w, d, i, m),
         NEW v, v = Transfer(w, w.parent[i], d, i, m)
  PROVE  Placed(v) /\ Transferred(w, v, d, i, m)
<1> USE WorldAssumption
<1> DEFINE c == w.parent[i]
           n == Joining(w, d, i, m)
           o == Arriving(w, i, m)
           u1 == Depart(w, c, i, m)
           u2 == Join(u1, d, i, n)
           u3 == Arrive(u2, d, i, o, m - n)
<1>1. /\ Laid(w) /\ PlaceTypes(w) /\ w.count \in [Stacks -> 0..StackMax] /\ StackMax \in Nat
      /\ w.parent \in [Items -> Places \cup {Nowhere}]
      /\ \A j \in Items : Exists(w, j) <=> w.parent[j] # Nowhere
  BY DEF Placed, Laid, PlaceTypes, ParentTypes
<1>2. /\ d.to \in Places /\ d.index \in Int /\ d.item \in Items \cup {NoItem} /\ d.item # i
      /\ d.item # NoItem => w.parent[d.item] # Nowhere
      /\ w.parent[i] # Nowhere /\ m \in 1..ItemCount(w, i)
  BY DEF MayTransfer, Spot, Places, Items
<1>3. /\ m \in 1..ItemCount(w, i) /\ m \in Nat /\ (i \in Stacks => m \in 1..w.count[i])
      /\ n \in Nat /\ n <= m
      /\ SameType(i, d.item) => /\ i \in Stacks /\ d.item \in Stacks
                                /\ w.count[d.item] + n \in 0..StackMax
                                /\ m <= Remainder(w, d.item) => n = m
      /\ ~SameType(i, d.item) => n = 0
  BY <1>1, JoiningFacts
<1>4. /\ Whole(w, i, m) => o = i
      /\ ~Whole(w, i, m) /\ Arrives(w, d, i, m) =>
           o \in Stacks /\ w.count[o] = 0 /\ w.parent[o] = Nowhere /\ o # i
  BY ArrivingFacts
<1>5. /\ Laid(u1)
      /\ u1.parent = IF Whole(w, i, m) THEN [w.parent EXCEPT ![i] = Nowhere] ELSE w.parent
      /\ u1.count = IF i \in Stacks THEN [w.count EXCEPT ![i] = @ - m] ELSE w.count
      /\ \A to \in Places : \A index : FreeAt(w, to, index) => FreeAt(u1, to, index)
  BY <1>1, <1>2, DepartFacts
<1> HIDE DEF n, o, u1, c
<1>6. /\ Laid(u2) /\ u2.parent = u1.parent /\ u2.slot = u1.slot
      /\ u2.count = [j \in Stacks |->
           IF j = i THEN w.count[i] - m
           ELSE IF j = d.item /\ SameType(i, d.item) THEN w.count[j] + n ELSE w.count[j]]
  <2>1. u1.count \in [Stacks -> 0..StackMax]
    BY <1>5 DEF Laid, PlaceTypes
  <2>2. CASE SameType(i, d.item)
    <3>1. u2 = UpdateThing(u1, d.to, d.item, u1.count[d.item] + n)
      BY <2>2 DEF Join
    <3>2. /\ i \in Stacks /\ d.item \in Stacks /\ u1.count[d.item] = w.count[d.item]
          /\ u1.count = [w.count EXCEPT ![i] = @ - m]
      BY <1>1, <1>2, <1>3, <1>5, <2>2
    <3>3. Recounted(u1, u2, d.item, w.count[d.item] + n)
      <4>1. ItemFields \subseteq DOMAIN u1
        BY <1>5 DEF Laid, PlaceTypes
      <4> QED BY <3>1, <3>2, <4>1, UpdateFacts
    <3> HIDE DEF u2
    <3>4. u2.count = [u1.count EXCEPT ![d.item] = w.count[d.item] + n]
      BY <3>3 DEF Recounted
    <3>5. u2.count \in [Stacks -> 0..StackMax]
      BY <1>3, <2>1, <2>2, <3>2, <3>4
    <3>6. Laid(u2)
      BY <1>5, <3>3, <3>5, CountLaid DEF Recounted
    <3>7. u2.count = [j \in Stacks |->
           IF j = i THEN w.count[i] - m
           ELSE IF j = d.item /\ SameType(i, d.item) THEN w.count[j] + n ELSE w.count[j]]
      BY <1>1, <1>2, <1>3, <2>2, <3>2, <3>4, <3>5
    <3> QED BY <3>3, <3>6, <3>7 DEF Recounted
  <2>3. CASE ~SameType(i, d.item)
    <3>1. u2 = u1
      BY <2>3 DEF Join
    <3>2. u1.count = [j \in Stacks |->
           IF j = i THEN w.count[i] - m
           ELSE IF j = d.item /\ SameType(i, d.item) THEN w.count[j] + n ELSE w.count[j]]
      <4>1. CASE i \in Stacks
        BY <1>1, <1>5, <2>1, <2>3, <4>1
      <4>2. CASE i \notin Stacks
        BY <1>1, <1>5, <2>1, <2>3, <4>2
      <4> QED BY <4>1, <4>2
    <3> QED BY <1>5, <3>1, <3>2
  <2> QED BY <2>2, <2>3
<1> HIDE DEF u2
<1>7. /\ Laid(u3)
      /\ u3.parent = [j \in Items |-> IF Arrives(w, d, i, m) /\ j = o THEN d.to
                                      ELSE IF j = i /\ Whole(w, i, m) THEN Nowhere
                                      ELSE w.parent[j]]
      /\ u3.count = [j \in Stacks |->
           IF Arrives(w, d, i, m) /\ j = o THEN m - n
           ELSE IF j = i THEN w.count[i] - m
           ELSE IF j = d.item /\ SameType(i, d.item) THEN w.count[j] + n
           ELSE w.count[j]]
  <2>1. CASE ~Arrives(w, d, i, m)
    <3>1. i \in Stacks /\ m - n = 0
      BY <1>2, <1>3, <2>1 DEF Arrives, n
    <3>2. u3 = u2
      BY <3>1 DEF Arrive
    <3>3. u2.parent = [j \in Items |-> IF Arrives(w, d, i, m) /\ j = o THEN d.to
                                      ELSE IF j = i /\ Whole(w, i, m) THEN Nowhere
                                      ELSE w.parent[j]]
      <4>1. CASE Whole(w, i, m)
        BY <1>1, <1>5, <1>6, <2>1, <4>1
      <4>2. CASE ~Whole(w, i, m)
        BY <1>1, <1>5, <1>6, <2>1, <4>2
      <4> QED BY <4>1, <4>2
    <3>4. u2.count = [j \in Stacks |->
           IF Arrives(w, d, i, m) /\ j = o THEN m - n
           ELSE IF j = i THEN w.count[i] - m
           ELSE IF j = d.item /\ SameType(i, d.item) THEN w.count[j] + n
           ELSE w.count[j]]
      BY <1>6, <2>1
    <3> QED BY <1>6, <3>2, <3>3, <3>4
  <2>2. CASE Arrives(w, d, i, m)
    <3> DEFINE x == IF i \in Stacks THEN [u2 EXCEPT !.count[o] = m - n] ELSE u2
    <3>1. FreeAt(w, d.to, d.index)
      <4>1. ~(SameType(i, d.item) /\ m <= Remainder(w, d.item))
        BY <1>3, <2>2 DEF Arrives, n
      <4> QED BY <4>1 DEF MayTransfer, Roomy
    <3>2. i \in Stacks => m - n # 0 /\ m - n \in 0..StackMax
      <4>1. i \in Stacks => m # n
        BY <2>2 DEF Arrives, n
      <4> QED BY <1>1, <1>2, <1>3, <4>1
    <3>3. u3 = AddThing(x, d.to, d.index, o)
      <4>1. i \notin Stacks => o = i
        BY <1>4 DEF Whole
      <4> QED BY <3>2, <4>1 DEF Arrive
    <3>4. o \in Items /\ u2.parent[o] = Nowhere /\ (i \in Stacks => o \in Stacks)
      <4>1. CASE Whole(w, i, m)
        BY <1>1, <1>4, <1>5, <1>6, <4>1
      <4>2. CASE ~Whole(w, i, m)
        BY <1>4, <1>5, <1>6, <2>2, <4>2 DEF Items
      <4> QED BY <4>1, <4>2
    <3>5. /\ u2.count \in [Stacks -> 0..StackMax] /\ ItemFields \subseteq DOMAIN u2
      BY <1>6 DEF Laid, PlaceTypes
    <3>6. /\ ItemFields \subseteq DOMAIN x
          /\ x.parent = u2.parent /\ x.list = u2.list /\ x.slot = u2.slot
          /\ x.count = IF i \in Stacks THEN [u2.count EXCEPT ![o] = m - n] ELSE u2.count
      BY <3>5 DEF ItemFields
    <3> HIDE DEF x, u3
    <3>7. x.count \in [Stacks -> 0..StackMax]
      BY <3>2, <3>4, <3>5, <3>6
    <3>8. Laid(x)
      BY <1>6, <3>6, <3>7, CountLaid
    <3>9. FreeAt(x, d.to, d.index)
      <4>1. FreeAt(u1, d.to, d.index)
        BY <1>2, <1>3, <1>5, <3>1
      <4> QED BY <1>6, <3>6, <4>1 DEF FreeAt
    <3>10. d.to \in Bags /\ o \in Bags => Clear(x, d.to, o)
      <4> SUFFICES ASSUME d.to \in Bags, o \in Bags  PROVE  Clear(x, d.to, o)
        OBVIOUS
      <4>1. i \notin Stacks
        BY <3>4 DEF Items
      <4>2. o = i /\ Whole(w, i, m)
        BY <1>4, <4>1 DEF Whole
      <4>3. PICK U \in SUBSET Bags :
              /\ d.to \in U /\ i \notin U
              /\ \A y \in U : w.parent[y] \in Bags => w.parent[y] \in U
        BY <4>2 DEF MayTransfer, Clear
      <4>4. \A y \in U : x.parent[y] = w.parent[y]
        BY <1>1, <1>5, <1>6, <3>6, <4>2, <4>3 DEF Items
      <4> QED BY <4>2, <4>3, <4>4 DEF Clear
    <3>11. PutIn(x, u3, d.to, d.index, o)
      BY <1>2, <1>3, <3>3, <3>4, <3>8, <3>9, AddFacts
    <3>12. Laid(u3)
      BY <1>2, <1>3, <3>4, <3>6, <3>8, <3>9, <3>10, <3>11, PutInLaid
    <3>13. u3.count = x.count /\ u3.parent = [u2.parent EXCEPT ![o] = d.to]
      BY <3>6, <3>11 DEF PutIn
    <3>14. u3.parent = [j \in Items |-> IF Arrives(w, d, i, m) /\ j = o THEN d.to
                                      ELSE IF j = i /\ Whole(w, i, m) THEN Nowhere
                                      ELSE w.parent[j]]
      <4>1. CASE Whole(w, i, m)
        BY SMTT(30), <1>1, <1>5, <1>6, <2>2, <3>4, <3>13, <4>1
      <4>2. CASE ~Whole(w, i, m)
        BY <1>1, <1>5, <1>6, <2>2, <3>4, <3>13, <4>2
      <4> QED BY <4>1, <4>2
    <3>15. u3.count = [j \in Stacks |->
           IF Arrives(w, d, i, m) /\ j = o THEN m - n
           ELSE IF j = i THEN w.count[i] - m
           ELSE IF j = d.item /\ SameType(i, d.item) THEN w.count[j] + n
           ELSE w.count[j]]
      <4>1. CASE i \in Stacks
        BY <1>6, <2>2, <3>4, <3>6, <3>13, <4>1
      <4>2. CASE i \notin Stacks
        <5>1. o \notin Stacks
          BY <1>4, <4>2 DEF Whole
        <5> QED BY <1>6, <3>6, <3>13, <4>2, <5>1
      <4> QED BY <4>1, <4>2
    <3> QED BY <3>12, <3>14, <3>15
  <2> QED BY <2>1, <2>2
<1>8. SamePlaces(u3, v)
  <2>1. v = PostNotification(PostNotification(u3, c), d.to)
    BY DEF Transfer, u3, u2, u1, n, o, c, Joining, Arriving
  <2> HIDE DEF u3
  <2>2. ItemFields \subseteq DOMAIN u3
    BY <1>7 DEF Laid, PlaceTypes
  <2>3. SamePlaces(u3, PostNotification(u3, c))
    BY <2>2, PostSame
  <2>4. SamePlaces(PostNotification(u3, c), v)
    BY <2>1, <2>3, PostSame DEF SamePlaces
  <2> QED BY <2>3, <2>4 DEF SamePlaces
<1> HIDE DEF u3
<1>9. Laid(v) /\ v.parent = u3.parent /\ v.count = u3.count
  BY <1>7, <1>8, SameLaid DEF SamePlaces
<1>10. Transferred(w, v, d, i, m)
  BY <1>7, <1>9 DEF Transferred, n, o
<1>11. ASSUME NEW j \in Items  PROVE  Exists(v, j) <=> v.parent[j] # Nowhere
  <2>1. CASE Arrives(w, d, i, m) /\ j = o
    <3>1. v.parent[j] = d.to /\ d.to # Nowhere
      BY <1>2, <1>3, <1>7, <1>9, <2>1 DEF Places, Items
    <3>2. j \in Stacks => v.count[j] = m - n /\ i \in Stacks
      BY <1>4, <1>7, <1>9, <2>1 DEF Whole
    <3>3. i \in Stacks => m - n > 0
      BY <1>2, <1>3, <2>1 DEF Arrives, n
    <3> QED BY <3>1, <3>2, <3>3 DEF Exists
  <2>2. CASE ~(Arrives(w, d, i, m) /\ j = o) /\ j = i
    <3>1. i \in Stacks /\ v.count[i] = w.count[i] - m
      <4>1. i \in Stacks
        BY <1>4, <2>2 DEF Arrives, Whole
      <4> QED BY <1>7, <1>9, <2>2, <4>1
    <3>2. v.parent[i] = IF Whole(w, i, m) THEN Nowhere ELSE w.parent[i]
      BY <1>7, <1>9, <2>2
    <3>3. v.count[i] > 0 <=> ~Whole(w, i, m)
      BY <1>1, <1>2, <1>3, <3>1 DEF Whole
    <3> QED BY <1>2, <1>3, <2>2, <3>1, <3>2, <3>3 DEF Exists
  <2>3. CASE ~(Arrives(w, d, i, m) /\ j = o) /\ j # i
    <3>1. v.parent[j] = w.parent[j]
      BY <1>7, <1>9, <2>3
    <3>2. CASE j = d.item /\ SameType(i, d.item)
      <4>1. j \in Stacks /\ v.count[j] = w.count[j] + n /\ w.parent[j] # Nowhere
        BY <1>2, <1>3, <1>7, <1>9, <2>3, <3>2
      <4>2. w.count[j] > 0 /\ w.count[j] \in Nat
        BY <1>1, <4>1 DEF Exists
      <4> QED BY <1>3, <3>1, <4>1, <4>2 DEF Exists
    <3>3. CASE ~(j = d.item /\ SameType(i, d.item))
      <4>1. j \in Stacks => v.count[j] = w.count[j]
        BY <1>7, <1>9, <2>3, <3>3
      <4> QED BY <1>1, <3>1, <4>1 DEF Exists
    <3> QED BY <3>2, <3>3
  <2> QED BY <2>1, <2>2, <2>3
<1> QED BY <1>9, <1>10, <1>11 DEF Placed

-----------------------------------------------------------------------------
(* Where an item is to go: lists of lists first.                            *)

(* x is in the list s.                                                      *)
Among(x, s) == \E k \in 1..Len(s) : s[k] = x

(* What is in one of two lists is in both together.                         *)
LEMMA AmongFacts ==
  ASSUME NEW V, NEW s \in Seq(V), NEW t \in Seq(V), NEW x, Among(x, s) \/ Among(x, t)
  PROVE  Among(x, s \o t)
<1>1. /\ Len(s) \in Nat /\ Len(t) \in Nat /\ Len(s \o t) = Len(s) + Len(t)
      /\ \A k \in 1..Len(s) : (s \o t)[k] = s[k]
      /\ \A k \in 1..Len(t) : (s \o t)[Len(s) + k] = t[k]
  OBVIOUS
<1> DEFINE a == Len(s)
           b == Len(t)
           r == s \o t
<1> HIDE DEF a, b, r
<1>2. CASE Among(x, s)
  <2>1. PICK k \in 1..a : s[k] = x
    BY <1>2 DEF Among, a
  <2>2. k \in 1..Len(r) /\ r[k] = x
    BY <1>1, <2>1 DEF a, b, r
  <2> QED BY <2>2 DEF Among, r
<1>3. CASE Among(x, t)
  <2>1. PICK k \in 1..b : t[k] = x
    BY <1>3 DEF Among, b
  <2>2. a + k \in 1..Len(r) /\ r[a + k] = x
    BY <1>1, <2>1 DEF a, b, r
  <2> QED BY <2>2 DEF Among, r
<1> QED BY <1>2, <1>3

(* All in the lists of s are in the list t.                                 *)
HasAll(s, t) == \A k \in 1..Len(s) : \A x : Among(x, s[k]) => Among(x, t)

(* A list of lists is a list, and misses nothing.                           *)
LEMMA FlattenFacts ==
  ASSUME NEW V, NEW s \in Seq(Seq(V))
  PROVE  FlattenSeq(s) \in Seq(V) /\ HasAll(s, FlattenSeq(s))
<1> DEFINE N == Len(s)
           W == Seq(V)
           F == [n \in 1..N |-> [x \in W |-> x \o s[n]]]
           Eq(f) == f = [n \in 1..N |-> IF n = 1 THEN s[n] ELSE f[n - 1] \o s[n]]
<1>1. N \in Nat /\ \A n \in 1..N : s[n] \in W
  OBVIOUS
<1>2. CASE N = 0
  <2>1. FlattenSeq(s) = s /\ s = <<>>
    BY <1>2 DEF FlattenSeq
  <2>2. HasAll(s, FlattenSeq(s))
    BY <1>2 DEF HasAll
  <2> QED BY <2>1, <2>2
<1>3. CASE N # 0
  <2>1. F \in [1..N -> [W -> W]]
    OBVIOUS
  <2>2. 1 \in 1..N /\ s[1] \in W
    BY <1>1, <1>3
  <2>3. PICK g \in [1..N -> W] : Stepwise(g, 1, N, s[1], F)
    <3> HIDE DEF F, W, N
    <3>1. 1 \in Int /\ N \in Int
      BY <1>1
    <3>2. HasSteps(1, N, W, s[1], F)
      BY <2>1, <2>2, <3>1, Recursion
    <3> QED BY <3>2 DEF HasSteps
  <2>4. \A n \in 1..N : n # 1 => F[n][g[n - 1]] = g[n - 1] \o s[n]
    <3>1. ASSUME NEW n \in 1..N, n # 1  PROVE  F[n][g[n - 1]] = g[n - 1] \o s[n]
      <4>1. n - 1 \in 1..N
        BY <1>1, <3>1
      <4>2. g[n - 1] \in W
        BY <2>3, <4>1
      <4> QED BY <4>2
    <3> QED BY <3>1
  <2> HIDE DEF F, W, N
  <2>5. Eq(g)
    BY <1>1, <2>3, <2>4 DEF Stepwise
  <2> DEFINE h == CHOOSE f : Eq(f)
  <2>6. Eq(h)
    <3> HIDE DEF Eq
    <3> QED BY <2>5
  <2>7. FlattenSeq(s) = h[N]
    BY <1>3 DEF FlattenSeq, N
  <2> HIDE DEF h
  <2> DEFINE All(n) == \A k \in 1..n : \A x : Among(x, s[k]) => Among(x, h[n])
             T == {n \in 1..N : h[n] \in W /\ All(n)}
  <2>8. 1..N \subseteq T
    <3>1. 1 \in T
      <4>1. h[1] = s[1]
        BY <2>2, <2>6
      <4>2. \A k \in 1..1 : k = 1
        OBVIOUS
      <4> QED BY <2>2, <4>1, <4>2
    <3>2. ASSUME NEW n \in 1 + 1..N, n - 1 \in T  PROVE  n \in T
      <4>1. n \in 1..N /\ n # 1 /\ n - 1 \in 1..N
        BY <1>1
      <4>2. h[n] = h[n - 1] \o s[n]
        BY <2>6, <4>1
      <4> DEFINE l == h[n - 1]
      <4>3. l \in Seq(V) /\ s[n] \in Seq(V) /\ h[n] = l \o s[n] /\ All(n - 1)
        BY <1>1, <3>2, <4>1, <4>2 DEF W
      <4>4. h[n] \in W
        BY <4>3 DEF W
      <4>5. ASSUME NEW k \in 1..n, NEW x, Among(x, s[k])  PROVE  Among(x, h[n])
        <5>1. Among(x, l) \/ Among(x, s[n])
          <6>1. CASE k = n
            BY <4>5, <6>1
          <6>2. CASE k # n
            <7>1. k \in 1..n - 1
              BY <6>2
            <7> QED BY <4>3, <4>5, <7>1
          <6> QED BY <6>1, <6>2
        <5> HIDE DEF l
        <5> QED BY <4>3, <5>1, AmongFacts
      <4> QED BY <4>1, <4>4, <4>5
    <3>3. 1 \in Int /\ N \in Int
      BY <1>1
    <3> HIDE DEF T
    <3> QED BY <3>1, <3>2, <3>3, Upward
  <2>9. N \in T
    BY <1>1, <1>3, <2>8
  <2> QED BY <2>7, <2>9 DEF W, HasAll, N
<1> QED BY <1>2, <1>3

(* The containers in a list are a list of containers, of V at least.        *)
LEMMA BagsOfFacts ==
  ASSUME NEW items, NEW n \in Nat, DOMAIN items = 1..n, NEW skip, NEW V,
         \A k \in 1..n : items[k] \in Bags \ skip => items[k] \in V
  PROVE  /\ BagsOf(items, skip) \in Seq(V)
         /\ \A k \in 1..n : items[k] \in Bags \ skip => Among(items[k], BagsOf(items, skip))
<1> DEFINE s == [k \in DOMAIN items |->
                  IF items[k] \in Bags \ skip THEN <<items[k]>> ELSE <<>>]
<1>1. s \in [1..n -> Seq(V)]
  OBVIOUS
<1>2. s \in Seq(Seq(V)) /\ Len(s) = n
  <2> HIDE DEF s
  <2> QED BY <1>1
<1>3. \A k \in 1..n : items[k] \in Bags \ skip => Among(items[k], s[k])
  <2> SUFFICES ASSUME NEW k \in 1..n, items[k] \in Bags \ skip  PROVE Among(items[k], s[k])
    OBVIOUS
  <2>1. s[k] = <<items[k]>>
    OBVIOUS
  <2>2. Len(<<items[k]>>) = 1 /\ <<items[k]>>[1] = items[k]
    OBVIOUS
  <2> HIDE DEF s
  <2> QED BY <2>1, <2>2 DEF Among
<1>4. FlattenSeq(s) \in Seq(V) /\ HasAll(s, FlattenSeq(s))
  <2> HIDE DEF s
  <2> QED BY <1>2, FlattenFacts
<1>5. BagsOf(items, skip) = FlattenSeq(s)
  BY DEF BagsOf
<1> HIDE DEF s
<1> QED BY <1>2, <1>3, <1>4, <1>5 DEF HasAll

(* The levels of the search in which the containers of p are looked at: those *)
(* of V, which has all of them.                                             *)
SlotBags(w, p, i, keep) == BagsOf([s \in 1..Cardinality(Slots) |-> w.slot[p][s]], {i, keep})

NextLevel(w, v, skip) == FlattenSeq([k \in DOMAIN v |-> BagsOf(w.list[v[k]], skip)])

Searched(w, p, i, keep, skip, V) ==
  /\ V \subseteq Bags
  /\ \A s \in Slots : w.slot[p][s] \in Bags \ {i, keep} => w.slot[p][s] \in V
  /\ \A b \in V : \A k \in 1..Len(w.list[b]) :
       w.list[b][k] \in Bags \ skip => w.list[b][k] \in V

Levels(w, p, i, keep, skip, V, h) ==
  /\ SearchOrder(w, p, i, keep, skip) = FlattenSeq([n \in 1..Depth |-> h[n - 1]])
  /\ h[0] = SlotBags(w, p, i, keep)
  /\ \A n \in 1..Depth : h[n] = NextLevel(w, h[n - 1], skip)
  /\ \A n \in 0..Depth : h[n] \in Seq(V)

(* From one to the next.                                                    *)
LEMMA LevelFacts ==
  ASSUME NEW w, PlaceTypes(w), NEW p, NEW i, NEW keep, NEW skip, NEW V,
         Searched(w, p, i, keep, skip, V), NEW v \in Seq(V)
  PROVE  /\ NextLevel(w, v, skip) \in Seq(V)
         /\ \A b \in V : Among(b, v) =>
              \A k \in 1..Len(w.list[b]) :
                w.list[b][k] \in Bags \ skip => Among(w.list[b][k], NextLevel(w, v, skip))
<1> DEFINE s == [k \in DOMAIN v |-> BagsOf(w.list[v[k]], skip)]
           t == NextLevel(w, v, skip)
<1>1. DOMAIN v = 1..Len(v) /\ Len(v) \in Nat /\ \A k \in 1..Len(v) : v[k] \in V
  OBVIOUS
<1>2. ASSUME NEW b \in V
      PROVE  /\ BagsOf(w.list[b], skip) \in Seq(V)
             /\ \A k \in 1..Len(w.list[b]) :
                  w.list[b][k] \in Bags \ skip => Among(w.list[b][k], BagsOf(w.list[b], skip))
  <2> DEFINE list == w.list[b]
             n == Len(list)
  <2>1. list \in Seq(Items)
    BY DEF PlaceTypes, Searched
  <2>2. n \in Nat /\ DOMAIN list = 1..n
    BY <2>1
  <2>3. \A k \in 1..n : list[k] \in Bags \ skip => list[k] \in V
    BY DEF Searched
  <2> HIDE DEF list, n
  <2>4. /\ BagsOf(list, skip) \in Seq(V)
        /\ \A k \in 1..n : list[k] \in Bags \ skip => Among(list[k], BagsOf(list, skip))
    BY <2>2, <2>3, BagsOfFacts
  <2> QED BY <2>4 DEF list, n
<1>3. \A k \in 1..Len(v) : s[k] = BagsOf(w.list[v[k]], skip)
  BY <1>1
<1>4. s \in Seq(Seq(V)) /\ Len(s) = Len(v)
  <2> DEFINE W == Seq(V)
  <2>1. \A k \in 1..Len(v) : s[k] \in W
    BY <1>1, <1>2, <1>3
  <2>2. DOMAIN s = 1..Len(v)
    BY <1>1
  <2>3. s = [k \in 1..Len(v) |-> s[k]]
    BY <2>2
  <2> HIDE DEF s, W
  <2>4. s \in [1..Len(v) -> W]
    BY <2>1, <2>3
  <2>5. s \in Seq(W) /\ Len(s) = Len(v)
    BY <1>1, <2>4
  <2> QED BY <2>5 DEF W
<1>5. t = FlattenSeq(s)
  BY DEF NextLevel
<1> HIDE DEF s, t
<1>6. t \in Seq(V) /\ HasAll(s, t)
  BY <1>4, <1>5, FlattenFacts
<1>7. ASSUME NEW b \in V, Among(b, v), NEW k \in 1..Len(w.list[b]), w.list[b][k] \in Bags \ skip
      PROVE  Among(w.list[b][k], t)
  <2>1. PICK l \in 1..Len(v) : v[l] = b
    BY <1>7 DEF Among
  <2>2. Among(w.list[b][k], s[l])
    BY <1>2, <1>3, <1>7, <2>1
  <2> QED BY <1>4, <1>6, <2>1, <2>2 DEF HasAll
<1> QED BY <1>6, <1>7 DEF t

(* There are such levels.                                                   *)
LEMMA SearchLevels ==
  ASSUME NEW w, PlaceTypes(w), NEW p \in Players, NEW i, NEW keep, NEW skip, NEW V,
         Searched(w, p, i, keep, skip, V)
  PROVE  \E h : Levels(w, p, i, keep, skip, V, h)
<1> DEFINE W == Seq(V)
           slots == SlotBags(w, p, i, keep)
           F == [n \in 0..Depth |-> [v \in W |-> NextLevel(w, v, skip)]]
           Eq(f) == f = [n \in 0..Depth |->
                          IF n = 0 THEN slots
                          ELSE FlattenSeq([k \in DOMAIN f[n - 1] |->
                                            BagsOf(w.list[f[n - 1][k]], skip)])]
<1>1. Depth \in Nat /\ Cardinality(Slots) \in Nat /\ Slots = 1..Cardinality(Slots)
  <2>1. IsFiniteSet(Bags) /\ IsFiniteSet(Slots)
    BY WorldAssumption, FS_Subset DEF Items
  <2> QED BY <2>1, WorldAssumption, FS_CardinalityType DEF Depth
<1>2. slots \in W
  <2> DEFINE items == [s \in 1..Cardinality(Slots) |-> w.slot[p][s]]
             n == Cardinality(Slots)
  <2>1. DOMAIN items = 1..n /\ \A k \in 1..n : items[k] \in Bags \ {i, keep} => items[k] \in V
    BY <1>1 DEF Searched
  <2>2. slots = BagsOf(items, {i, keep})
    BY DEF SlotBags
  <2> HIDE DEF items, slots
  <2>3. BagsOf(items, {i, keep}) \in Seq(V)
    BY <1>1, <2>1, BagsOfFacts
  <2> QED BY <2>2, <2>3
<1>3. ASSUME NEW v \in W  PROVE  NextLevel(w, v, skip) \in W
  BY LevelFacts
<1> HIDE DEF W, slots
<1>4. F \in [0..Depth -> [W -> W]]
  BY <1>3
<1>5. PICK g \in [0..Depth -> W] : Stepwise(g, 0, Depth, slots, F)
  <2> HIDE DEF F
  <2>1. HasSteps(0, Depth, W, slots, F)
    BY <1>1, <1>2, <1>4, Recursion
  <2> QED BY <2>1 DEF HasSteps
<1>6. \A n \in 0..Depth : n # 0 => F[n][g[n - 1]] = NextLevel(w, g[n - 1], skip)
  <2>1. ASSUME NEW n \in 0..Depth, n # 0  PROVE  F[n][g[n - 1]] = NextLevel(w, g[n - 1], skip)
    <3>1. n - 1 \in 0..Depth
      BY <1>1, <2>1
    <3>2. g[n - 1] \in W
      BY <1>5, <3>1
    <3> QED BY <3>2
  <2> QED BY <2>1
<1> HIDE DEF F
<1>7. Eq(g)
  <2>1. g = [n \in 0..Depth |-> IF n = 0 THEN slots ELSE NextLevel(w, g[n - 1], skip)]
    BY <1>1, <1>5, <1>6 DEF Stepwise
  <2> QED BY <2>1 DEF NextLevel
<1> DEFINE h == CHOOSE f : Eq(f)
<1>8. Eq(h)
  <2> HIDE DEF Eq
  <2> QED BY <1>7
<1>9. h = [n \in 0..Depth |-> IF n = 0 THEN slots ELSE NextLevel(w, h[n - 1], skip)]
  <2> HIDE DEF h
  <2> QED BY <1>8 DEF NextLevel
<1>10. SearchOrder(w, p, i, keep, skip) = FlattenSeq([n \in 1..Depth |-> h[n - 1]])
  BY DEF SearchOrder, Depth, slots, SlotBags
<1> HIDE DEF h
<1>11. h[0] = slots /\ \A n \in 1..Depth : h[n] = NextLevel(w, h[n - 1], skip)
  BY <1>1, <1>9
<1>12. \A n \in 0..Depth : h[n] \in W
  <2> DEFINE T == {n \in 0..Depth : h[n] \in W}
  <2>1. 0 \in T
    BY <1>1, <1>2, <1>11
  <2>2. ASSUME NEW n \in 0 + 1..Depth, n - 1 \in T  PROVE  n \in T
    <3>1. n \in 0..Depth /\ n \in 1..Depth
      BY <1>1
    <3> QED BY <1>3, <1>11, <2>2, <3>1
  <2>3. 0 \in Int /\ Depth \in Int
    BY <1>1
  <2> HIDE DEF T
  <2>4. 0..Depth \subseteq T
    BY <2>1, <2>2, <2>3, Upward
  <2> QED BY <2>4 DEF T
<1>13. Levels(w, p, i, keep, skip, V, h)
  BY <1>10, <1>11, <1>12 DEF Levels, W, slots
<1> QED BY <1>13

(* All levels together.                                                     *)
LEMMA LevelsFacts ==
  ASSUME NEW w, NEW p, NEW i, NEW keep, NEW skip, NEW V, NEW h,
         Levels(w, p, i, keep, skip, V, h), NEW o, o = SearchOrder(w, p, i, keep, skip)
  PROVE  /\ Depth \in Nat /\ o \in Seq(V)
         /\ \A n \in 0..Depth - 1 : \A b : Among(b, h[n]) => Among(b, o)
<1> DEFINE s == [n \in 1..Depth |-> h[n - 1]]
           W == Seq(V)
<1>1. Depth \in Nat
  <2>1. IsFiniteSet(Bags)
    BY WorldAssumption, FS_Subset DEF Items
  <2> QED BY <2>1, FS_CardinalityType DEF Depth
<1>2. s \in Seq(W) /\ Len(s) = Depth
  <2>1. \A n \in 1..Depth : h[n - 1] \in W
    <3>1. \A n \in 1..Depth : n - 1 \in 0..Depth
      BY <1>1
    <3> QED BY <3>1 DEF Levels
  <2> HIDE DEF W
  <2> QED BY <1>1, <2>1
<1>3. o = FlattenSeq(s) /\ \A n \in 1..Depth : s[n] = h[n - 1]
  BY DEF Levels
<1> HIDE DEF s
<1>4. o \in Seq(V) /\ HasAll(s, o)
  BY <1>2, <1>3, FlattenFacts
<1>5. ASSUME NEW n \in 0..Depth - 1, NEW b, Among(b, h[n])  PROVE  Among(b, o)
  <2>1. n + 1 \in 1..Depth /\ (n + 1) - 1 = n
    BY <1>1
  <2>2. s[n + 1] = h[n]
    BY <1>3, <2>1
  <2> QED BY <1>2, <1>4, <1>5, <2>1, <2>2 DEF HasAll
<1> QED BY <1>1, <1>4, <1>5

(* Player::__queryDestination looks into containers only.                   *)
LEMMA SearchFacts ==
  ASSUME NEW w, PlaceTypes(w), NEW p \in Players, NEW i, NEW keep, NEW skip
  PROVE  SearchOrder(w, p, i, keep, skip) \in Seq(Bags)
<1>1. Searched(w, p, i, keep, skip, Bags)
  BY DEF Searched
<1>2. PICK h : Levels(w, p, i, keep, skip, Bags, h)
  BY <1>1, SearchLevels
<1> QED BY <1>2, LevelsFacts

(* A set of numbers has a least one.                                        *)
LEMMA LeastFacts ==
  ASSUME NEW S \in SUBSET Nat, S # {}
  PROVE  Min(S) \in S /\ \A y \in S : Min(S) <= y
<1>1. PICK x \in S : \A y \in S : x <= y
  <2> SUFFICES ASSUME \A x \in S : \E y \in S : y < x  PROVE FALSE
    OBVIOUS
  <2> DEFINE T == {n \in Nat : \A k \in 0..n : k \notin S}
  <2>1. 0 \in T
    OBVIOUS
  <2>2. ASSUME NEW n \in Nat, n \in T  PROVE  n + 1 \in T
    <3>1. n + 1 \notin S
      <4> SUFFICES ASSUME n + 1 \in S  PROVE FALSE
        OBVIOUS
      <4>1. PICK y \in S : y < n + 1
        OBVIOUS
      <4>2. y \in 0..n
        BY <4>1
      <4> QED BY <2>2, <4>2
    <3>2. \A k \in 0..n + 1 : k \in 0..n \/ k = n + 1
      OBVIOUS
    <3> QED BY <2>2, <3>1, <3>2
  <2> HIDE DEF T
  <2>3. Nat \subseteq T
    BY <2>1, <2>2, Climb
  <2>4. PICK x \in S : x \in Nat
    OBVIOUS
  <2>5. x \in T
    BY <2>3, <2>4
  <2> QED BY <2>4, <2>5 DEF T
<1> DEFINE Least(m) == m \in S /\ \A y \in S : m <= y
<1>4. Min(S) = CHOOSE m : Least(m)
  BY DEF Min
<1>5. Least(x)
  BY <1>1
<1>6. Least(CHOOSE m : Least(m))
  <2> HIDE DEF Least
  <2> QED BY <1>5
<1> QED BY <1>4, <1>6

-----------------------------------------------------------------------------
(* The answers of cylinders to __queryDestination.  They name a cylinder, an  *)
(* index and an item that lies in it, if any.                               *)
Answers(w) ==
  {d \in [to : Places, index : Int, item : Items \cup {NoItem}] :
     d.index >= Wherever /\ (d.item # NoItem => w.parent[d.item] = d.to)}

(* The answer of a cylinder that names itself: the item at the index is the   *)
(* one named, and an index past the capacity of a container has an item.    *)
Settling(w, d) ==
  /\ d.to \in Players /\ d.index \in Slots => d.item = w.slot[d.to][d.index]
  /\ d.to \in Bags => /\ ItemAt(w, d.to, d.index) \in {NoItem, d.item}
                      /\ d.index < Room \/ ItemAt(w, d.to, d.index) # NoItem

(* What a list has at an index lies in it.                                  *)
LEMMA ItemAtFacts ==
  ASSUME NEW w, Laid(w), NEW b \in Tiles \cup Bags, NEW index \in Int
  PROVE  /\ w.list[b] \in Seq(Items) /\ Len(w.list[b]) \in Nat
         /\ ItemAt(w, b, index) \in Items \cup {NoItem}
         /\ ItemAt(w, b, index) # NoItem => /\ w.parent[ItemAt(w, b, index)] = b
                                            /\ index >= 0 /\ index < Len(w.list[b])
         /\ \A k \in 1..Len(w.list[b]) : /\ ItemAt(w, b, k - 1) = w.list[b][k]
                                         /\ w.list[b][k] \in Items /\ w.parent[w.list[b][k]] = b
<1>1. w.list[b] \in Seq(Items) /\ ListFits(w, b)
  BY DEF Laid, PlaceTypes
<1>2. Len(w.list[b]) \in Nat /\ \A k \in 1..Len(w.list[b]) : w.list[b][k] \in Items
  BY <1>1
<1>3. ASSUME NEW k \in Int, k \in 0..Len(w.list[b]) - 1
      PROVE  k + 1 \in 1..Len(w.list[b]) /\ ItemAt(w, b, k) = w.list[b][k + 1]
  BY <1>2, <1>3 DEF ItemAt
<1>4. NoItem \notin Items
  BY WorldAssumption
<1>5. index \in 0..Len(w.list[b]) - 1 \/ ItemAt(w, b, index) = NoItem
  BY DEF ItemAt
<1>6. ASSUME NEW k \in 1..Len(w.list[b])
      PROVE  ItemAt(w, b, k - 1) = w.list[b][k]
  <2>1. k - 1 \in Int /\ k - 1 \in 0..Len(w.list[b]) - 1 /\ (k - 1) + 1 = k
    BY <1>2
  <2>2. ItemAt(w, b, k - 1) = w.list[b][(k - 1) + 1]
    BY <1>3, <2>1
  <2> QED BY <2>1, <2>2
<1>7. \A k \in 1..Len(w.list[b]) : w.parent[w.list[b][k]] = b
  BY <1>1 DEF ListFits
<1>8. ASSUME ItemAt(w, b, index) # NoItem
      PROVE  /\ ItemAt(w, b, index) \in Items /\ w.parent[ItemAt(w, b, index)] = b
             /\ index >= 0 /\ index < Len(w.list[b])
  <2>1. index \in 0..Len(w.list[b]) - 1
    BY <1>5, <1>8
  <2>2. index + 1 \in 1..Len(w.list[b]) /\ ItemAt(w, b, index) = w.list[b][index + 1]
    BY <1>3, <2>1
  <2> QED BY <1>2, <1>7, <2>1, <2>2
<1> QED BY <1>1, <1>2, <1>6, <1>7, <1>8

(* A container names itself, or another one and any place in it.            *)
LEMMA BagAnswer ==
  ASSUME NEW w, Laid(w), NEW b \in Bags, NEW index0 \in Int, index0 >= Wherever,
         NEW item0 \in Items \cup {NoItem}, item0 # NoItem => w.parent[item0] = b,
         NEW i \in Items, NEW auto, NEW r, r = BagDestination(w, b, index0, i, item0, auto)
  PROVE  /\ r \in Answers(w) /\ r.to \in Bags /\ Settling(w, r)
         /\ r.to # b => r.index = Wherever /\ r.item = NoItem
         /\ index0 = Wherever => r.to = b
<1> USE WorldAssumption
<1> DEFINE index == IF index0 >= Room THEN Wherever ELSE index0
           item  == IF index0 >= Room THEN NoItem ELSE item0
           joins == {k \in DOMAIN w.list[b] :
                      LET j == w.list[b][k]
                      IN j # i /\ SameType(i, j) /\ Remainder(w, j) > 0}
           there == IF ItemAt(w, b, index) # NoItem THEN ItemAt(w, b, index) ELSE item
<1>1. /\ r = IF index0 = MoveUp
             THEN To(IF w.parent[b] \in Bags THEN w.parent[b] ELSE b, Wherever, NoItem)
             ELSE IF auto /\ w.parent[i] # b /\ joins # {}
             THEN To(b, Min(joins) - 1, w.list[b][Min(joins)])
             ELSE IF index = Wherever THEN To(b, index, item)
             ELSE IF there \in Bags THEN To(there, Wherever, NoItem)
             ELSE To(b, index, there)
  BY DEF BagDestination
<1>2. Room \in Nat /\ Room > 0 /\ Wherever = -1 /\ MoveUp = 254
  BY DEF Wherever, MoveUp
<1>3. /\ index \in Int /\ index >= Wherever /\ index < Room
      /\ item \in Items \cup {NoItem} /\ (item # NoItem => w.parent[item] = b)
      /\ index0 = Wherever => index = Wherever
  BY <1>2
<1> HIDE DEF index, item
<1>0. b \in Tiles \cup Bags /\ index \in Int
  BY <1>3
<1>4. /\ w.list[b] \in Seq(Items) /\ DOMAIN w.list[b] = 1..Len(w.list[b])
      /\ Len(w.list[b]) \in Nat
      /\ ItemAt(w, b, index) \in Items \cup {NoItem}
      /\ ItemAt(w, b, index) # NoItem => w.parent[ItemAt(w, b, index)] = b
      /\ \A k \in 1..Len(w.list[b]) : /\ ItemAt(w, b, k - 1) = w.list[b][k]
                                      /\ w.list[b][k] \in Items /\ w.parent[w.list[b][k]] = b
  <2>1. w.list[b] \in Seq(Items)
    BY <1>0, ItemAtFacts
  <2>2. DOMAIN w.list[b] = 1..Len(w.list[b]) /\ Len(w.list[b]) \in Nat
    BY <2>1
  <2>3. /\ ItemAt(w, b, index) \in Items \cup {NoItem}
        /\ ItemAt(w, b, index) # NoItem => w.parent[ItemAt(w, b, index)] = b
    BY <1>0, ItemAtFacts
  <2>4. \A k \in 1..Len(w.list[b]) : /\ ItemAt(w, b, k - 1) = w.list[b][k]
                                      /\ w.list[b][k] \in Items /\ w.parent[w.list[b][k]] = b
    BY <1>0, ItemAtFacts
  <2> QED BY <2>1, <2>2, <2>3, <2>4
<1>5. ASSUME NEW x \in Bags
      PROVE  /\ To(x, Wherever, NoItem) \in Answers(w) /\ To(x, Wherever, NoItem).to = x
             /\ To(x, Wherever, NoItem).index = Wherever /\ To(x, Wherever, NoItem).item = NoItem
             /\ Settling(w, To(x, Wherever, NoItem))
  <2>1. ItemAt(w, x, Wherever) = NoItem
    <3>1. ~(Wherever \in 0..Len(w.list[x]) - 1)
      BY <1>2
    <3> QED BY <3>1 DEF ItemAt
  <2>2. x \notin Players /\ Wherever < Room
    BY <1>2 DEF Items
  <2> QED BY <1>2, <2>1, <2>2 DEF To, Answers, Settling, Places
<1>6. CASE index0 = MoveUp
  <2>1. PICK x \in Bags : r = To(x, Wherever, NoItem)
    BY <1>1, <1>6
  <2> QED BY <1>2, <1>5, <1>6, <2>1
<1>7. CASE index0 # MoveUp /\ (auto /\ w.parent[i] # b /\ joins # {})
  <2> DEFINE k == Min(joins)
  <2>1. joins \subseteq Nat /\ \A n \in joins : n \in 1..Len(w.list[b])
    BY <1>4
  <2>2. k \in 1..Len(w.list[b])
    <3>1. k \in joins
      <4> HIDE DEF joins
      <4> QED BY <1>7, <2>1, LeastFacts
    <3> HIDE DEF k, joins
    <3> QED BY <2>1, <3>1
  <2>3. r = To(b, k - 1, w.list[b][k])
    BY <1>1, <1>7
  <2> HIDE DEF k, joins
  <2>4. /\ r.to = b /\ r.index = k - 1 /\ r.item = w.list[b][k]
        /\ r.item \in Items /\ w.parent[r.item] = b /\ r.item # NoItem
        /\ r.index \in Int /\ r.index >= Wherever
        /\ ItemAt(w, b, r.index) = r.item
    BY <1>2, <1>4, <2>2, <2>3 DEF To
  <2>5. r \in Answers(w)
    BY <2>3, <2>4 DEF Answers, To, Places
  <2>6. Settling(w, r)
    BY <2>4 DEF Settling, Items
  <2> QED BY <2>4, <2>5, <2>6
<1>8. CASE index0 # MoveUp /\ ~(auto /\ w.parent[i] # b /\ joins # {})
  <2> HIDE DEF joins
  <2>1. CASE index = Wherever
    <3>1. r = To(b, Wherever, item)
      BY <1>1, <1>8, <2>1
    <3>2. ItemAt(w, b, Wherever) = NoItem
      <4>1. ~(Wherever \in 0..Len(w.list[b]) - 1)
        BY <1>2
      <4> QED BY <4>1 DEF ItemAt
    <3>3. b \notin Players /\ Wherever < Room
      BY <1>2 DEF Items
    <3> QED BY <1>2, <1>3, <3>1, <3>2, <3>3 DEF To, Answers, Settling, Places
  <2>2. CASE index # Wherever /\ there \in Bags
    <3>1. r = To(there, Wherever, NoItem)
      BY <1>1, <1>8, <2>2
    <3> HIDE DEF there
    <3> QED BY <1>3, <1>5, <2>2, <3>1
  <2>3. CASE index # Wherever /\ there \notin Bags
    <3>1. r = To(b, index, there)
      BY <1>1, <1>8, <2>3
    <3>2. /\ there \in Items \cup {NoItem} /\ (there # NoItem => w.parent[there] = b)
          /\ ItemAt(w, b, index) \in {NoItem, there}
      BY <1>3, <1>4
    <3> HIDE DEF there
    <3>3. b \notin Players
      BY DEF Items
    <3>4. r.to = b /\ r.index = index /\ r.item = there
      BY <3>1 DEF To
    <3>5. r \in Answers(w)
      BY <1>3, <3>1, <3>2 DEF To, Answers, Places
    <3>6. Settling(w, r)
      BY <1>3, <3>2, <3>3, <3>4 DEF Settling
    <3> QED BY <3>4, <3>5, <3>6
  <2> QED BY <2>1, <2>2, <2>3
<1> QED BY <1>6, <1>7, <1>8

-----------------------------------------------------------------------------
(* Sums: MapThenSumSet takes one element after the other from the set.      *)
Some(s) == CHOOSE x \in s : TRUE

(* h has the sum of f for every subset of D.                                *)
Adds(f, D, h) ==
  h = [s \in SUBSET D |-> IF s = {} THEN 0 ELSE f[Some(s)] + h[s \ {Some(s)}]]

(* A set that is not empty loses an element.                                *)
LEMMA LessFacts ==
  ASSUME NEW D, IsFiniteSet(D), NEW s \in SUBSET D, NEW x \in s
  PROVE  /\ s \ {x} \in SUBSET D
         /\ Cardinality(s) \in Nat /\ Cardinality(s \ {x}) = Cardinality(s) - 1
         /\ Cardinality(s) > 0
<1>1. IsFiniteSet(s)
  BY FS_Subset
<1>2. IsFiniteSet(s \ {x}) /\ Cardinality(s \ {x}) = Cardinality(s) - 1
  BY <1>1, FS_RemoveElement
<1>3. Cardinality(s) \in Nat /\ Cardinality(s \ {x}) \in Nat
  BY <1>1, <1>2, FS_CardinalityType
<1> QED BY <1>2, <1>3

(* What holds of the empty set, and of a set if of all smaller ones, holds.  *)
LEMMA BySize ==
  ASSUME NEW D, IsFiniteSet(D), NEW T,
         \A s \in SUBSET D : (\A x \in s : s \ {x} \in T) => s \in T
  PROVE  SUBSET D \subseteq T
<1> DEFINE U == {n \in Nat : \A s \in SUBSET D : Cardinality(s) = n => s \in T}
<1>1. 0 \in U
  <2>1. ASSUME NEW s \in SUBSET D, Cardinality(s) = 0  PROVE  s \in T
    <3>1. s = {}
      BY <2>1, FS_Subset, FS_EmptySet
    <3> QED BY <3>1
  <2> QED BY <2>1
<1>2. ASSUME NEW n \in Nat, n \in U  PROVE  n + 1 \in U
  <2>1. ASSUME NEW s \in SUBSET D, Cardinality(s) = n + 1  PROVE  s \in T
    <3>1. ASSUME NEW x \in s  PROVE  s \ {x} \in T
      <4>1. s \ {x} \in SUBSET D /\ Cardinality(s \ {x}) = n
        BY <2>1, LessFacts
      <4> QED BY <1>2, <4>1
    <3> QED BY <3>1
  <2> QED BY <2>1
<1> HIDE DEF U
<1>3. Nat \subseteq U
  BY <1>1, <1>2, Climb
<1>4. ASSUME NEW s \in SUBSET D  PROVE  s \in T
  <2>1. Cardinality(s) \in Nat
    BY FS_Subset, FS_CardinalityType
  <2>2. Cardinality(s) \in U
    BY <1>3, <2>1
  <2> QED BY <2>2 DEF U
<1> QED BY <1>4

(* There are such sums.                                                     *)
LEMMA AddsExists ==
  ASSUME NEW D, IsFiniteSet(D), NEW f, \A x \in D : f[x] \in Int
  PROVE  \E h : Adds(f, D, h)
<1> DEFINE N == Cardinality(D)
           V == [SUBSET D -> Int]
           Next1(h) == [s \in SUBSET D |-> IF s = {} THEN 0 ELSE f[Some(s)] + h[s \ {Some(s)}]]
           zero == [s \in SUBSET D |-> 0]
           F == [n \in 0..N + 1 |-> [h \in V |-> Next1(h)]]
<1>1. N \in Nat
  BY FS_CardinalityType
<1>2. \A s \in SUBSET D : s # {} => Some(s) \in s /\ f[Some(s)] \in Int /\ s \ {Some(s)} \in SUBSET D
  BY DEF Some
<1>3. ASSUME NEW h \in V  PROVE  Next1(h) \in V
  BY <1>2
<1>4. zero \in V
  OBVIOUS
<1>5. F \in [0..N + 1 -> [V -> V]]
  <2> HIDE DEF V, Next1
  <2> QED BY <1>3
<1>6. PICK g \in [0..N + 1 -> V] : Stepwise(g, 0, N + 1, zero, F)
  <2>1. 0 \in Int /\ N + 1 \in Int
    BY <1>1
  <2> HIDE DEF F, zero, V
  <2>2. HasSteps(0, N + 1, V, zero, F)
    BY <1>4, <1>5, <2>1, Recursion
  <2> QED BY <2>2 DEF HasSteps
<1>7. g[0] = zero /\ \A n \in 1..N + 1 : g[n - 1] \in V /\ g[n] = Next1(g[n - 1])
  <2>1. g[0] = zero
    BY <1>1, <1>6 DEF Stepwise
  <2>2. ASSUME NEW n \in 1..N + 1  PROVE  g[n - 1] \in V /\ g[n] = Next1(g[n - 1])
    <3>1. n \in 0..N + 1 /\ n # 0 /\ n - 1 \in 0..N + 1
      BY <1>1
    <3>2. g[n - 1] \in V
      BY <3>1
    <3>3. g[n] = F[n][g[n - 1]]
      BY <1>6, <3>1 DEF Stepwise
    <3> HIDE DEF V, Next1
    <3> QED BY <3>1, <3>2, <3>3
  <2> QED BY <2>1, <2>2
<1> HIDE DEF F
<1> DEFINE Same(n) == \A s \in SUBSET D : Cardinality(s) <= n => g[n][s] = g[n + 1][s]
           T == {n \in 0..N : Same(n)}
<1>8. \A n \in 0..N : \A s \in SUBSET D :
        g[n + 1][s] = IF s = {} THEN 0 ELSE f[Some(s)] + g[n][s \ {Some(s)}]
  <2>1. ASSUME NEW n \in 0..N, NEW s \in SUBSET D
        PROVE  g[n + 1][s] = IF s = {} THEN 0 ELSE f[Some(s)] + g[n][s \ {Some(s)}]
    <3>1. n + 1 \in 1..N + 1 /\ (n + 1) - 1 = n
      BY <1>1
    <3>2. g[n + 1] = Next1(g[n])
      BY <1>7, <3>1
    <3> QED BY <3>2
  <2> QED BY <2>1
<1>9. 0 \in T
  <2>1. ASSUME NEW s \in SUBSET D, Cardinality(s) <= 0  PROVE  g[0][s] = g[0 + 1][s]
    <3>1. s = {}
      BY <2>1, FS_Subset, FS_EmptySet, FS_CardinalityType
    <3>2. g[0 + 1][s] = 0
      <4>1. 0 \in 0..N
        BY <1>1
      <4> QED BY <1>8, <3>1, <4>1
    <3> QED BY <1>7, <3>2
  <2> QED BY <1>1, <2>1
<1>10. ASSUME NEW n \in 0 + 1..N, n - 1 \in T  PROVE  n \in T
  <2>1. n \in 0..N /\ n - 1 \in 0..N /\ (n - 1) + 1 = n
    BY <1>1
  <2>2. ASSUME NEW s \in SUBSET D, Cardinality(s) <= n  PROVE  g[n][s] = g[n + 1][s]
    <3>1. g[n][s] = IF s = {} THEN 0 ELSE f[Some(s)] + g[n - 1][s \ {Some(s)}]
      BY <1>8, <2>1
    <3>2. g[n + 1][s] = IF s = {} THEN 0 ELSE f[Some(s)] + g[n][s \ {Some(s)}]
      BY <1>8, <2>1
    <3>3. CASE s # {}
      <4> DEFINE y == s \ {Some(s)}
      <4>1. Some(s) \in s
        BY <1>2, <3>3
      <4>2. y \in SUBSET D /\ Cardinality(y) = Cardinality(s) - 1 /\ Cardinality(s) \in Nat
        BY <4>1, LessFacts
      <4>3. Cardinality(y) <= n - 1
        BY <2>2, <4>2
      <4> HIDE DEF y
      <4>4. g[n - 1][y] = g[n][y]
        BY <1>10, <2>1, <4>2, <4>3
      <4> QED BY <3>1, <3>2, <4>4 DEF y
    <3> QED BY <3>1, <3>2, <3>3
  <2> QED BY <2>1, <2>2
<1>11. N \in T
  <2>1. 0 \in Int /\ N \in Int
    BY <1>1
  <2> HIDE DEF T
  <2>2. 0..N \subseteq T
    BY <1>9, <1>10, <2>1, Upward
  <2> QED BY <1>1, <2>2
<1>12. \A s \in SUBSET D : g[N][s] = g[N + 1][s]
  <2>1. ASSUME NEW s \in SUBSET D  PROVE  Cardinality(s) <= N
    BY FS_Subset
  <2> QED BY <1>11, <2>1
<1>13. g[N] = g[N + 1]
  <2>1. g[N] \in V /\ g[N + 1] \in V
    <3>1. N \in 0..N + 1 /\ N + 1 \in 0..N + 1
      BY <1>1
    <3> HIDE DEF V, N
    <3> QED BY <3>1
  <2> QED BY <1>12, <2>1
<1>14. g[N + 1] = Next1(g[N])
  <2>1. N + 1 \in 1..N + 1 /\ (N + 1) - 1 = N
    BY <1>1
  <2> QED BY <1>7, <2>1
<1> QED BY <1>13, <1>14 DEF Adds


(* The same elements have the same sum, whatever set they are taken from.    *)
LEMMA AddsSame ==
  ASSUME NEW D, IsFiniteSet(D), NEW f, NEW h, Adds(f, D, h),
         NEW S \in SUBSET D, NEW g, NEW k, Adds(g, S, k), \A x \in S : f[x] = g[x]
  PROVE  \A s \in SUBSET S : h[s] = k[s]
<1> DEFINE T == {s \in SUBSET S : h[s] = k[s]}
<1>1. IsFiniteSet(S)
  BY FS_Subset
<1>2. ASSUME NEW s \in SUBSET S, \A x \in s : s \ {x} \in T  PROVE  s \in T
  <2>1. s # {} => Some(s) \in s
    BY DEF Some
  <2>2. h[s] = IF s = {} THEN 0 ELSE f[Some(s)] + h[s \ {Some(s)}]
    BY DEF Adds
  <2>3. k[s] = IF s = {} THEN 0 ELSE g[Some(s)] + k[s \ {Some(s)}]
    BY DEF Adds
  <2> QED BY <1>2, <2>1, <2>2, <2>3
<1> HIDE DEF T
<1>3. SUBSET S \subseteq T
  BY <1>1, <1>2, BySize
<1> QED BY <1>3 DEF T

(* The order of the elements does not matter.                               *)
LEMMA AddsTakes ==
  ASSUME NEW D, IsFiniteSet(D), NEW f, \A x \in D : f[x] \in Int, NEW h, Adds(f, D, h)
  PROVE  /\ \A s \in SUBSET D : h[s] \in Int
         /\ h[{}] = 0
         /\ \A s \in SUBSET D : \A x \in s : h[s] = f[x] + h[s \ {x}]
         /\ \A s \in SUBSET D : (\A x \in s : f[x] \in Nat) => h[s] \in Nat
<1>1. ASSUME NEW s \in SUBSET D
      PROVE  /\ s = {} => h[s] = 0
             /\ s # {} => Some(s) \in s /\ h[s] = f[Some(s)] + h[s \ {Some(s)}]
  BY DEF Adds, Some
<1>2. \A s \in SUBSET D : h[s] \in Int
  <2> DEFINE T == {s \in SUBSET D : h[s] \in Int}
  <2>1. ASSUME NEW s \in SUBSET D, \A x \in s : s \ {x} \in T  PROVE  s \in T
    <3>1. CASE s = {}
      <4>1. h[s] = 0
        BY <1>1, <3>1
      <4> QED BY <4>1
    <3>2. CASE s # {}
      <4>1. /\ Some(s) \in s /\ h[s] = f[Some(s)] + h[s \ {Some(s)}]
            /\ s \ {Some(s)} \in T
        BY <1>1, <2>1, <3>2
      <4>2. f[Some(s)] \in Int /\ h[s \ {Some(s)}] \in Int
        BY <4>1
      <4> DEFINE a == f[Some(s)]
                 b == h[s \ {Some(s)}]
      <4>3. a \in Int /\ b \in Int /\ h[s] = a + b
        BY <4>1, <4>2
      <4> HIDE DEF a, b
      <4>4. h[s] \in Int
        BY <4>3
      <4> QED BY <4>4
    <3> QED BY <3>1, <3>2
  <2> HIDE DEF T
  <2>2. SUBSET D \subseteq T
    BY <2>1, BySize
  <2> QED BY <2>2 DEF T
<1>3. \A s \in SUBSET D : \A x \in s : h[s] = f[x] + h[s \ {x}]
  <2> DEFINE T == {s \in SUBSET D : \A x \in s : h[s] = f[x] + h[s \ {x}]}
  <2>1. ASSUME NEW s \in SUBSET D, \A x \in s : s \ {x} \in T  PROVE  s \in T
    <3>1. ASSUME NEW x \in s  PROVE  h[s] = f[x] + h[s \ {x}]
      <4> DEFINE c == Some(s)
      <4>1. c \in s /\ h[s] = f[c] + h[s \ {c}]
        BY <1>1
      <4> HIDE DEF c
      <4>2. CASE x # c
        <5>1. x \in s \ {c} /\ c \in s \ {x} /\ s \ {c} \in T /\ s \ {x} \in T
          BY <2>1, <4>1, <4>2
        <5>2. h[s \ {c}] = f[x] + h[(s \ {c}) \ {x}]
          BY <5>1
        <5>3. h[s \ {x}] = f[c] + h[(s \ {x}) \ {c}]
          BY <5>1
        <5>4. (s \ {x}) \ {c} = (s \ {c}) \ {x} /\ (s \ {x}) \ {c} \in SUBSET D
          OBVIOUS
        <5>5. f[x] \in Int /\ f[c] \in Int /\ h[(s \ {x}) \ {c}] \in Int
          BY <1>2, <4>1, <5>4
        <5>6. h[s \ {x}] = f[c] + h[(s \ {c}) \ {x}]
          BY <5>3, <5>4, Zenon
        <5>7. h[s] = f[c] + (f[x] + h[(s \ {c}) \ {x}])
          BY <4>1, <5>2, Zenon
        <5>8. h[(s \ {c}) \ {x}] \in Int
          BY <5>4, <5>5, Zenon
        <5> DEFINE u == h[(s \ {c}) \ {x}]
        <5>9. f[c] + (f[x] + u) = f[x] + (f[c] + u)
          <6>1. u \in Int
            BY <5>8
          <6> HIDE DEF u
          <6> QED BY <5>5, <6>1
        <5> QED BY <5>6, <5>7, <5>9, Zenon
      <4>3. CASE x = c
        BY <4>1, <4>3, Zenon
      <4> QED BY <4>2, <4>3
    <3> QED BY <3>1
  <2> HIDE DEF T
  <2>2. SUBSET D \subseteq T
    BY <2>1, BySize
  <2> QED BY <2>2 DEF T
<1>4. \A s \in SUBSET D : (\A x \in s : f[x] \in Nat) => h[s] \in Nat
  <2> DEFINE T == {s \in SUBSET D : (\A x \in s : f[x] \in Nat) => h[s] \in Nat}
  <2>1. ASSUME NEW s \in SUBSET D, \A x \in s : s \ {x} \in T  PROVE  s \in T
    <3>1. CASE s = {}
      <4>1. h[s] = 0
        BY <1>1, <3>1
      <4> QED BY <4>1
    <3>2. CASE s # {}
      <4>1. /\ Some(s) \in s /\ h[s] = f[Some(s)] + h[s \ {Some(s)}]
            /\ s \ {Some(s)} \in T
        BY <1>1, <2>1, <3>2
      <4>2. ASSUME \A x \in s : f[x] \in Nat  PROVE  h[s] \in Nat
        <5>1. f[Some(s)] \in Nat /\ h[s \ {Some(s)}] \in Nat
          BY <4>1, <4>2
        <5> DEFINE a == f[Some(s)]
                   b == h[s \ {Some(s)}]
        <5>2. a \in Nat /\ b \in Nat /\ h[s] = a + b
          BY <4>1, <5>1
        <5> HIDE DEF a, b
        <5> QED BY <5>2
      <4> QED BY <4>2
    <3> QED BY <3>1, <3>2
  <2> HIDE DEF T
  <2>2. SUBSET D \subseteq T
    BY <2>1, BySize
  <2> QED BY <2>2 DEF T
<1>5. h[{}] = 0
  BY <1>1
<1> QED BY <1>2, <1>3, <1>4, <1>5

(* The sum of f over S.                                                     *)
Total(f, S) == (CHOOSE h : Adds(f, S, h))[S]

(* The sum, one element at a time, in any order.                            *)
LEMMA TotalFacts ==
  ASSUME NEW S, IsFiniteSet(S), NEW f, \A x \in S : f[x] \in Int
  PROVE  /\ Total(f, S) \in Int
         /\ S = {} => Total(f, S) = 0
         /\ \A x \in S : Total(f, S) = f[x] + Total(f, S \ {x})
         /\ (\A x \in S : f[x] \in Nat) => Total(f, S) \in Nat
<1>1. ASSUME NEW s \in SUBSET S
      PROVE  Adds(f, s, CHOOSE h : Adds(f, s, h))
  <2>1. \E h : Adds(f, s, h)
    BY FS_Subset, AddsExists
  <2> QED BY <2>1
<1> DEFINE H(s) == CHOOSE h : Adds(f, s, h)
<1>2. Adds(f, S, H(S)) /\ Total(f, S) = H(S)[S]
  BY <1>1 DEF Total
<1>3. ASSUME NEW x \in S  PROVE  Total(f, S \ {x}) = H(S)[S \ {x}]
  <2>1. S \ {x} \in SUBSET S /\ S \ {x} \in SUBSET (S \ {x})
    OBVIOUS
  <2>2. Adds(f, S \ {x}, H(S \ {x})) /\ Total(f, S \ {x}) = H(S \ {x})[S \ {x}]
    BY <1>1, <2>1 DEF Total
  <2> HIDE DEF H
  <2>3. \A s \in SUBSET (S \ {x}) : H(S)[s] = H(S \ {x})[s]
    BY <1>2, <2>1, <2>2, AddsSame
  <2> QED BY <2>1, <2>2, <2>3
<1> DEFINE h == H(S)
<1> HIDE DEF H
<1>4. /\ \A s \in SUBSET S : h[s] \in Int
      /\ h[{}] = 0
      /\ \A s \in SUBSET S : \A x \in s : h[s] = f[x] + h[s \ {x}]
      /\ \A s \in SUBSET S : (\A x \in s : f[x] \in Nat) => h[s] \in Nat
  <2>1. Adds(f, S, h)
    BY <1>2
  <2> HIDE DEF h
  <2> QED BY <2>1, AddsTakes
<1>5. S \in SUBSET S
  OBVIOUS
<1> QED BY <1>2, <1>3, <1>4, <1>5

(* Only the values on S matter.                                             *)
LEMMA TotalSame ==
  ASSUME NEW S, IsFiniteSet(S), NEW f, NEW g, \A x \in S : f[x] \in Int /\ f[x] = g[x]
  PROVE  Total(f, S) = Total(g, S)
<1>1. (\E h : Adds(f, S, h)) /\ (\E h : Adds(g, S, h))
  BY AddsExists
<1> DEFINE h == CHOOSE e : Adds(f, S, e)
           k == CHOOSE e : Adds(g, S, e)
<1>2. Adds(f, S, h) /\ Adds(g, S, k)
  BY <1>1
<1> HIDE DEF h, k
<1>3. S \in SUBSET S
  OBVIOUS
<1>4. \A s \in SUBSET S : h[s] = k[s]
  BY <1>2, <1>3, AddsSame
<1> QED BY <1>3, <1>4 DEF Total, h, k

(* What can join a set of stacks.                                           *)
LEMMA RemainderSum ==
  ASSUME NEW w, NEW S, IsFiniteSet(S), \A j \in S : Remainder(w, j) \in Int
  PROVE  MapThenSumSet(LAMBDA j : Remainder(w, j), S) = Total([j \in S |-> Remainder(w, j)], S)
<1> DEFINE f == [j \in S |-> Remainder(w, j)]
           Eq(h) == h = [s \in SUBSET S |->
             IF s = {} THEN 0
             ELSE Remainder(w, CHOOSE x \in s : TRUE) + h[s \ {CHOOSE x \in s : TRUE}]]
<1>1. MapThenSumSet(LAMBDA j : Remainder(w, j), S) = (CHOOSE h : Eq(h))[S]
  BY DEF MapThenSumSet, MapThenFoldSet
<1>2. \A s \in SUBSET S : s # {} => f[Some(s)] = Remainder(w, CHOOSE x \in s : TRUE)
  BY DEF Some
<1>3. \A h : Eq(h) <=> Adds(f, S, h)
  <2> HIDE DEF f
  <2> QED BY <1>2 DEF Adds, Some
<1>4. \E h : Adds(f, S, h)
  <2>1. \A x \in S : f[x] \in Int
    OBVIOUS
  <2> HIDE DEF f
  <2> QED BY <2>1, AddsExists
<1> DEFINE h == CHOOSE e : Eq(e)
           k == CHOOSE e : Adds(f, S, e)
<1>5. Adds(f, S, h) /\ Adds(f, S, k)
  <2> HIDE DEF Eq, f
  <2>1. Eq(h)
    BY <1>3, <1>4
  <2> QED BY <1>3, <1>4, <2>1
<1> HIDE DEF h, k, f, Eq
<1>6. S \in SUBSET S
  OBVIOUS
<1>7. \A s \in SUBSET S : h[s] = k[s]
  BY <1>5, <1>6, AddsSame
<1> QED BY <1>1, <1>6, <1>7 DEF Total, h, k, f

-----------------------------------------------------------------------------
(* What a player answers.                                                   *)

(* An answer for p, or for a container: for p with the item in the slot.    *)
Proper(w, p, r) ==
  /\ r \in Answers(w) /\ r.to \in {p} \cup Bags
  /\ r.to = p /\ r.index \in Slots => r.item = w.slot[p][r.index]

(* It names no slot with an item that would have to make room for i.        *)
Peaceful(i, r) ==
  r.to \in Players /\ r.index \in Slots /\ r.item # NoItem => SameType(i, r.item)

(* The capacity window and INDEX_WHEREEVER are no slots.                    *)
LEMMA SlotFacts ==
  /\ Cardinality(Slots) \in Nat /\ Slots \subseteq Nat
  /\ 0 \notin Slots /\ Wherever \notin Slots
<1>1. Cardinality(Slots) \in Nat
  BY WorldAssumption, FS_CardinalityType
<1>2. Slots = 1..Cardinality(Slots)
  BY WorldAssumption
<1> QED BY <1>1, <1>2 DEF Wherever

(* How many places of a list there are.                                     *)
LEMMA CountFacts ==
  ASSUME NEW n \in Nat, NEW S \in SUBSET (1..n)
  PROVE  Cardinality(S) \in Nat
<1>1. IsFiniteSet(1..n)
  BY FS_Interval
<1> QED BY <1>1, FS_Subset, FS_CardinalityType

(* A slot answers for itself, or for the container in it.                   *)
LEMMA SlotAnswer ==
  ASSUME NEW w, Laid(w), NEW p \in Players, NEW s \in Slots, NEW i \in Items, NEW keep,
         NEW stacking, NEW r, r = InSlot(w, p, s, i, keep, stacking), r.to # Nowhere
  PROVE  Proper(w, p, r) /\ Peaceful(i, r)
<1> USE WorldAssumption
<1> DEFINE j == w.slot[p][s]
<1>1. /\ j \in Items \cup {NoItem} /\ (j # NoItem => w.parent[j] = p)
      /\ s \in Int /\ s >= Wherever /\ s # Wherever
  BY SlotFacts DEF Laid, PlaceTypes, SlotsFit, Wherever
<1>2. \/ r = To(p, s, NoItem) /\ j = NoItem
      \/ r = To(p, s, j) /\ SameType(i, j)
      \/ r = To(j, Wherever, NoItem) /\ j \in Bags
  <2>1. r # To(Nowhere, Wherever, NoItem)
    BY DEF To
  <2> QED BY <2>1 DEF InSlot
<1> HIDE DEF j
<1>3. CASE r = To(j, Wherever, NoItem) /\ j \in Bags
  <2>1. j \notin Players
    BY <1>3 DEF Items
  <2> QED BY <1>3, <2>1 DEF To, Proper, Peaceful, Answers, Places, Wherever
<1>4. CASE r = To(p, s, NoItem) /\ j = NoItem
  BY <1>1, <1>4 DEF To, Proper, Peaceful, Answers, Places, j
<1>5. CASE r = To(p, s, j) /\ SameType(i, j)
  BY <1>1, <1>5 DEF To, Proper, Peaceful, Answers, Places, j
<1> QED BY <1>2, <1>3, <1>4, <1>5

(* A container that is searched answers for itself.                         *)
LEMMA InBagAnswer ==
  ASSUME NEW w, Laid(w), NEW p \in Players, NEW b \in Bags, NEW i \in Items, NEW keep,
         NEW stacking, NEW r, r = InBag(w, b, i, keep, stacking), r.to # Nowhere
  PROVE  Proper(w, p, r) /\ Peaceful(i, r)
<1> USE WorldAssumption
<1> DEFINE list   == w.list[b]
           seen   == {k \in DOMAIN list : list[k] \notin {i, keep}}
           joins  == {k \in seen : SameType(i, list[k]) /\ Remainder(w, list[k]) > 0}
           passed == IF stacking THEN Cardinality(seen) ELSE Len(list)
           before == {k \in seen : k < Min(joins)}
<1>1. /\ list \in Seq(Items) /\ Len(list) \in Nat
      /\ \A k \in 1..Len(list) : list[k] \in Items /\ w.parent[list[k]] = b
  <2>1. b \in Tiles \cup Bags /\ 0 \in Int
    OBVIOUS
  <2> QED BY <2>1, ItemAtFacts
<1>2. /\ DOMAIN list = 1..Len(list)
  BY <1>1
<1>3. seen \in SUBSET (1..Len(list)) /\ before \in SUBSET (1..Len(list))
  BY <1>2
<1>4. Cardinality(seen) \in Nat /\ Cardinality(before) \in Nat /\ passed \in Nat
  <2> HIDE DEF seen, before, list
  <2>1. Cardinality(seen) \in Nat /\ Cardinality(before) \in Nat
    BY <1>1, <1>3, CountFacts
  <2> QED BY <1>1, <2>1
<1>5. \/ joins # {} /\ r = To(b, Cardinality(before), list[Min(joins)])
      \/ r = To(b, passed, NoItem)
  <2>1. r # To(Nowhere, Wherever, NoItem)
    BY DEF To
  <2> QED BY <2>1 DEF InBag
<1>6. joins # {} => Min(joins) \in 1..Len(list)
  <2>1. joins \in SUBSET (1..Len(list)) /\ joins \in SUBSET Nat
    BY <1>2
  <2> HIDE DEF joins
  <2> QED BY <2>1, LeastFacts
<1>7. b \notin Players /\ b \in Places
  BY DEF Items, Places
<1> HIDE DEF list, seen, joins, passed, before
<1>8. CASE joins # {} /\ r = To(b, Cardinality(before), list[Min(joins)])
  <2>1. list[Min(joins)] \in Items /\ w.parent[list[Min(joins)]] = b
    BY <1>1, <1>6, <1>8
  <2> QED BY <1>4, <1>7, <1>8, <2>1 DEF To, Proper, Peaceful, Answers, Wherever
<1>9. CASE r = To(b, passed, NoItem)
  BY <1>4, <1>7, <1>9 DEF To, Proper, Peaceful, Answers, Wherever
<1> QED BY <1>5, <1>8, <1>9

(* The first of several answers is one of them.                             *)
LEMMA FirstFacts ==
  ASSUME NEW R, NEW a \in Seq(R), NEW o
  PROVE  \/ FirstOf(a, o) = o
         \/ FirstOf(a, o) \in R /\ FirstOf(a, o).to # Nowhere
<1> DEFINE found == {k \in DOMAIN a : a[k].to # Nowhere}
<1>1. DOMAIN a = 1..Len(a) /\ Len(a) \in Nat
  OBVIOUS
<1>2. found \in SUBSET Nat
  BY <1>1
<1>3. FirstOf(a, o) = IF found = {} THEN o ELSE a[Min(found)]
  BY DEF FirstOf
<1>4. found # {} => Min(found) \in found
  <2> HIDE DEF found
  <2> QED BY <1>2, LeastFacts
<1>5. \A k \in found : a[k] \in R /\ a[k].to # Nowhere
  BY <1>1
<1> HIDE DEF found
<1> QED BY <1>3, <1>4, <1>5

(* The search of an inventory finds a place of it, or none.                 *)
LEMMA InventoryAnswer ==
  ASSUME NEW w, Laid(w), NEW p \in Players, NEW index \in {0, Wherever}, NEW i \in Items,
         NEW keep, NEW auto, NEW r, r = InInventory(w, p, index, i, keep, auto)
  PROVE  Proper(w, p, r) /\ Peaceful(i, r)
<1> USE WorldAssumption
<1> DEFINE stacking == auto /\ i \in Stacks
           bags == SearchOrder(w, p, i, keep, IF stacking THEN {i, keep} ELSE {})
           f == [s \in 1..Cardinality(Slots) |-> InSlot(w, p, s, i, keep, stacking)]
           g == [k \in DOMAIN bags |-> InBag(w, bags[k], i, keep, stacking)]
           o == To(p, index, NoItem)
           R == {InSlot(w, p, s, i, keep, stacking) : s \in Slots}
                  \cup {InBag(w, b, i, keep, stacking) : b \in Bags}
<1>1. r = FirstOf(f \o g, o)
  BY DEF InInventory
<1>2. bags \in Seq(Bags)
  BY SearchFacts DEF Laid
<1>3. f \in Seq(R)
  <2>1. Slots = 1..Cardinality(Slots)
    BY WorldAssumption
  <2>2. \A s \in 1..Cardinality(Slots) : InSlot(w, p, s, i, keep, stacking) \in R
    BY <2>1
  <2> HIDE DEF R
  <2> QED BY <2>2, SlotFacts
<1>4. g \in Seq(R)
  <2> HIDE DEF bags
  <2>1. \A k \in 1..Len(bags) : bags[k] \in Bags
    BY <1>2
  <2>2. \A k \in 1..Len(bags) : InBag(w, bags[k], i, keep, stacking) \in R
    BY <2>1
  <2> HIDE DEF R
  <2> QED BY <1>2, <2>2
<1>5. \A x \in R : x.to # Nowhere => Proper(w, p, x) /\ Peaceful(i, x)
  BY SlotAnswer, InBagAnswer
<1>6. Proper(w, p, o) /\ Peaceful(i, o)
  BY SlotFacts DEF Proper, Peaceful, Answers, To, Places, Wherever
<1> HIDE DEF f, g, R, o
<1>7. f \o g \in Seq(R)
  BY <1>3, <1>4
<1>8. r = o \/ (r \in R /\ r.to # Nowhere)
  <2> DEFINE a == f \o g
  <2>1. a \in Seq(R) /\ r = FirstOf(a, o)
    BY <1>1, <1>7
  <2> HIDE DEF a
  <2> QED BY <2>1, FirstFacts
<1> QED BY <1>5, <1>6, <1>8

(* A player names himself, or a container of his or in the slot.            *)
LEMMA PlayerAnswer ==
  ASSUME NEW w, Laid(w), NEW p \in Players, NEW index \in Int, index >= Wherever,
         NEW item \in Items \cup {NoItem}, item # NoItem => w.parent[item] = p,
         NEW i \in Items, NEW keep, NEW auto,
         NEW r, r = PlayerDestination(w, p, index, i, item, keep, auto)
  PROVE  /\ r \in Answers(w) /\ r.to \in {p} \cup Bags
         /\ item = NoItem => Proper(w, p, r)
         /\ index = Wherever => Peaceful(i, r)
<1> USE WorldAssumption
<1>1. CASE index \in {0, Wherever}
  <2>1. r = InInventory(w, p, index, i, keep, auto)
    BY <1>1 DEF PlayerDestination
  <2> QED BY <1>1, <2>1, InventoryAnswer DEF Proper
<1>2. CASE index \notin {0, Wherever}
  <2> DEFINE j == IF index \in Slots THEN w.slot[p][index] ELSE NoItem
  <2>1. r = IF j \in Bags THEN To(j, Wherever, NoItem)
            ELSE To(p, index, IF j # NoItem THEN j ELSE item)
    BY <1>2 DEF PlayerDestination
  <2>2. j \in Items \cup {NoItem} /\ (j # NoItem => w.parent[j] = p)
        /\ (index \in Slots => j = w.slot[p][index])
    BY DEF Laid, PlaceTypes, SlotsFit
  <2>3. \A b \in Bags : b \notin Players /\ b # p
    BY DEF Items
  <2> HIDE DEF j
  <2>4. CASE j \in Bags
    <3>1. r = To(j, Wherever, NoItem)
      BY <2>1, <2>4
    <3> QED BY <1>2, <2>3, <2>4, <3>1 DEF To, Proper, Answers, Places, Wherever
  <2>5. CASE j \notin Bags
    <3>1. r = To(p, index, IF j # NoItem THEN j ELSE item)
      BY <2>1, <2>5
    <3> QED BY <1>2, <2>2, <3>1 DEF To, Proper, Answers, Places
  <2> QED BY <2>4, <2>5
<1> QED BY <1>1, <1>2

-----------------------------------------------------------------------------
(* The destination of a move.                                               *)

(* One answer after the other: only players answer for players.             *)
LEMMA StepAnswer ==
  ASSUME NEW w, Laid(w), NEW d \in Answers(w), NEW i \in Items, NEW keep, NEW auto,
         NEW r, r = QueryDestination(w, d, i, keep, auto)
  PROVE  /\ r \in Answers(w)
         /\ d.to \in Tiles => r.to = d.to /\ Settling(w, r)
         /\ d.to \in Bags => /\ r.to \in Bags /\ Settling(w, r)
                             /\ r.to # d.to => r.index = Wherever
                             /\ d.index = Wherever => r.to = d.to
         /\ d.to \in Players => /\ r.to \in {d.to} \cup Bags
                                /\ d.item = NoItem => Proper(w, d.to, r)
                                /\ d.index = Wherever => Peaceful(i, r)
<1> USE WorldAssumption
<1>1. /\ d.to \in Places /\ d.index \in Int /\ d.index >= Wherever
      /\ d.item \in Items \cup {NoItem} /\ (d.item # NoItem => w.parent[d.item] = d.to)
  BY DEF Answers
<1>2. CASE d.to \in Tiles
  <2> DEFINE t == d.to
             x == IF w.list[t] = <<>> THEN NoItem ELSE Head(w.list[t])
  <2>1. r = To(t, d.index, x)
    BY <1>2 DEF QueryDestination, TileDestination
  <2>2. t \notin Players /\ t \notin Bags
    BY <1>2 DEF Items
  <2>3. x \in Items \cup {NoItem} /\ (x # NoItem => w.parent[x] = t)
    <3>1. CASE w.list[t] # <<>>
      <4>1. w.list[t] \in Seq(Items) /\ ListFits(w, t)
        BY <1>2 DEF Laid, PlaceTypes
      <4>2. 1 \in 1..Len(w.list[t]) /\ Head(w.list[t]) = w.list[t][1]
        BY <3>1, <4>1
      <4>3. w.list[t][1] \in Items
        BY <4>1, <4>2
      <4> QED BY <3>1, <4>1, <4>2, <4>3 DEF ListFits
    <3> QED BY <3>1
  <2> HIDE DEF x, t
  <2>4. r.to = t /\ r \in Answers(w)
    BY <1>1, <2>1, <2>3 DEF To, Answers, t
  <2>5. Settling(w, r)
    BY <2>2, <2>4 DEF Settling
  <2> QED BY <1>2, <2>2, <2>4, <2>5 DEF t
<1>3. CASE d.to \in Bags
  <2>1. d.to \notin Tiles /\ d.to \notin Players
    BY <1>3 DEF Items
  <2>2. r = BagDestination(w, d.to, d.index, i, d.item, auto)
    BY <1>3, <2>1 DEF QueryDestination
  <2>3. /\ r \in Answers(w) /\ r.to \in Bags /\ Settling(w, r)
        /\ r.to # d.to => r.index = Wherever /\ r.item = NoItem
        /\ d.index = Wherever => r.to = d.to
    BY <1>1, <1>3, <2>2, BagAnswer
  <2> QED BY <1>3, <2>1, <2>3
<1>4. CASE d.to \in Players
  <2>1. d.to \notin Tiles /\ d.to \notin Bags
    BY <1>4 DEF Items
  <2>2. r = PlayerDestination(w, d.to, d.index, i, d.item, keep[d.to], auto)
    BY <1>4, <2>1 DEF QueryDestination
  <2>3. /\ r \in Answers(w) /\ r.to \in {d.to} \cup Bags
        /\ d.item = NoItem => Proper(w, d.to, r)
        /\ d.index = Wherever => Peaceful(i, r)
    BY <1>1, <1>4, <2>2, PlayerAnswer
  <2> QED BY <1>4, <2>1, <2>3
<1> QED BY <1>1, <1>2, <1>3, <1>4 DEF Places

(* One answer after the other, each asked for by the one before.            *)
Asking(w, c, index, i, keep, auto, h) ==
  /\ Depth \in Nat /\ DOMAIN h = 0..Depth + 1
  /\ \A n \in 0..Depth + 1 :
       /\ h[n] \in Answers(w)
       /\ h[n] = QueryDestination(w, IF n = 0 THEN To(c, index, NoItem) ELSE h[n - 1],
                                  i, keep, auto \/ n > 0)
  /\ Destination(w, c, index, i, keep, auto) = Settled(h, c)

(* There are such answers.                                                  *)
LEMMA AskingExists ==
  ASSUME NEW w, Laid(w), NEW c \in Places, NEW index \in Int, index >= Wherever,
         NEW i \in Items, NEW keep, NEW auto
  PROVE  \E h : Asking(w, c, index, i, keep, auto, h)
<1> USE WorldAssumption
<1> DEFINE N == Depth + 1
           V == Answers(w)
           start == To(c, index, NoItem)
           first == QueryDestination(w, start, i, keep, auto \/ 0 > 0)
           Q(x, n) == QueryDestination(w, x, i, keep, auto \/ n > 0)
           F == [n \in 0..N |-> [x \in V |-> Q(x, n)]]
           Eq(f) == f = [n \in 0..N |-> QueryDestination(w, IF n = 0 THEN start ELSE f[n - 1],
                                                         i, keep, auto \/ n > 0)]
<1>1. Depth \in Nat
  <2>1. IsFiniteSet(Bags)
    BY FS_Subset DEF Items
  <2> QED BY <2>1, FS_CardinalityType DEF Depth
<1>2. start \in V /\ start.to = c /\ start.index = index /\ start.item = NoItem
  BY DEF To, Answers
<1>3. ASSUME NEW x \in V, NEW n  PROVE  Q(x, n) \in V
  BY <1>3, StepAnswer
<1>4. F \in [0..N -> [V -> V]] /\ first \in V
  <2>1. first \in V
    BY <1>2, <1>3
  <2> HIDE DEF V, Q, first
  <2> QED BY <1>3, <2>1
<1>5. PICK g \in [0..N -> V] : Stepwise(g, 0, N, first, F)
  <2>1. 0 \in Int /\ N \in Int
    BY <1>1
  <2> HIDE DEF F, V, first, N
  <2>2. HasSteps(0, N, V, first, F)
    BY <1>4, <2>1, Recursion
  <2> QED BY <2>2 DEF HasSteps
<1>6. g[0] = first /\ \A n \in 1..N : g[n] = Q(g[n - 1], n)
  <2>1. g[0] = first
    BY <1>1, <1>5 DEF Stepwise
  <2>2. ASSUME NEW n \in 1..N  PROVE  g[n] = Q(g[n - 1], n)
    <3>1. n \in 0..N /\ n # 0 /\ n - 1 \in 0..N
      BY <1>1
    <3>2. g[n - 1] \in V
      BY <3>1
    <3>3. g[n] = F[n][g[n - 1]]
      BY <1>5, <3>1 DEF Stepwise
    <3> HIDE DEF V, Q
    <3> QED BY <3>1, <3>2, <3>3
  <2> QED BY <2>1, <2>2
<1> HIDE DEF F
<1>7. Eq(g)
  <2>1. \A n \in 0..N :
          g[n] = QueryDestination(w, IF n = 0 THEN start ELSE g[n - 1], i, keep, auto \/ n > 0)
    <3>1. ASSUME NEW n \in 0..N, n # 0  PROVE  g[n] = Q(g[n - 1], n)
      <4>1. n \in 1..N
        BY <1>1, <3>1
      <4> QED BY <1>6, <4>1
    <3> HIDE DEF start
    <3> QED BY <1>6, <3>1
  <2> QED BY <2>1
<1> DEFINE h == CHOOSE f : Eq(f)
<1>8. Eq(h)
  <2> HIDE DEF Eq
  <2> QED BY <1>7
<1>9. Destination(w, c, index, i, keep, auto) = Settled(h, c)
  BY DEF Destination, Depth
<1> HIDE DEF h
<1>10. /\ DOMAIN h = 0..N
       /\ \A n \in 0..N : h[n] = Q(IF n = 0 THEN start ELSE h[n - 1], n)
  BY <1>8
<1> HIDE DEF Eq, Q, start, V, first
<1>11. \A n \in 0..N : h[n] \in V
  <2> DEFINE T == {n \in 0..N : h[n] \in V}
  <2>1. 0 \in T
    BY <1>1, <1>2, <1>3, <1>10
  <2>2. ASSUME NEW n \in 0 + 1..N, n - 1 \in T  PROVE  n \in T
    <3>1. n \in 0..N /\ n # 0
      BY <1>1
    <3>2. h[n] = Q(h[n - 1], n)
      BY <1>10, <3>1
    <3> QED BY <1>3, <2>2, <3>1, <3>2
  <2>3. 0 \in Int /\ N \in Int
    BY <1>1
  <2> HIDE DEF T, N
  <2>4. 0..N \subseteq T
    BY <2>1, <2>2, <2>3, Upward
  <2> QED BY <2>4 DEF T
<1>12. Asking(w, c, index, i, keep, auto, h)
  BY <1>1, <1>9, <1>10, <1>11 DEF Asking, Q, V, start
<1> QED BY <1>12

(* A destination is found, and what was asked last answers for itself.      *)
LEMMA DestinationFacts ==
  ASSUME NEW w, Laid(w), NEW c \in Places, NEW index \in Int, index >= Wherever,
         NEW i \in Items, NEW keep, NEW auto,
         NEW d, d = Destination(w, c, index, i, keep, auto)
  PROVE  /\ d \in Answers(w) /\ Settling(w, d)
         /\ index = Wherever => Peaceful(i, d)
<1> USE WorldAssumption
<1> DEFINE N == Depth + 1
           V == Answers(w)
           start == To(c, index, NoItem)
           Q(x, n) == QueryDestination(w, x, i, keep, auto \/ n > 0)
<1>1. start \in V /\ start.to = c /\ start.index = index /\ start.item = NoItem
  BY DEF To, Answers
<1>2. PICK h : Asking(w, c, index, i, keep, auto, h)
  BY AskingExists
<1>3. /\ Depth \in Nat /\ DOMAIN h = 0..N /\ d = Settled(h, c)
      /\ \A n \in 0..N : h[n] = Q(IF n = 0 THEN start ELSE h[n - 1], n)
  BY <1>2 DEF Asking
<1>4. \A n \in 0..N : h[n] \in V
  BY <1>2 DEF Asking
<1> HIDE DEF Q, start, V
<1> DEFINE before(n) == IF n = 0 THEN start ELSE h[n - 1]
<1>5. ASSUME NEW n \in 0..N
      PROVE  /\ before(n) \in V
             /\ before(n).to \in Tiles => h[n].to = before(n).to /\ Settling(w, h[n])
             /\ before(n).to \in Bags => /\ h[n].to \in Bags /\ Settling(w, h[n])
                                         /\ h[n].to # before(n).to => h[n].index = Wherever
                                         /\ before(n).index = Wherever => h[n].to = before(n).to
             /\ before(n).to \in Players =>
                  /\ h[n].to \in {before(n).to} \cup Bags
                  /\ before(n).item = NoItem => Proper(w, before(n).to, h[n])
                  /\ before(n).index = Wherever => Peaceful(i, h[n])
  <2>1. before(n) \in V
    <3>1. n # 0 => n - 1 \in 0..N
      BY <1>3
    <3> QED BY <1>1, <1>4, <3>1
  <2>2. h[n] = QueryDestination(w, before(n), i, keep, auto \/ n > 0)
    BY <1>3 DEF Q
  <2> DEFINE x == before(n)
             r == h[n]
             more == auto \/ n > 0
  <2>3. x \in Answers(w) /\ r = QueryDestination(w, x, i, keep, more)
    BY <2>1, <2>2 DEF V
  <2> HIDE DEF x, r, more
  <2>4. /\ x.to \in Tiles => r.to = x.to /\ Settling(w, r)
        /\ x.to \in Bags => /\ r.to \in Bags /\ Settling(w, r)
                            /\ r.to # x.to => r.index = Wherever
                            /\ x.index = Wherever => r.to = x.to
        /\ x.to \in Players => /\ r.to \in {x.to} \cup Bags
                               /\ x.item = NoItem => Proper(w, x.to, r)
                               /\ x.index = Wherever => Peaceful(i, r)
    BY <2>3, StepAnswer
  <2> USE DEF x, r
  <2> QED BY <2>1, <2>4
<1> DEFINE P(n) == /\ h[n].to = before(n).to
                   /\ \A k \in 0..n - 1 : h[k].to # before(k).to
           m == CHOOSE n \in 0..N : P(n)
<1>6. d = h[m]
  <2> DEFINE Asked(n) == IF n = 0 THEN c ELSE h[n - 1].to
  <2>1. \A n : Asked(n) = before(n).to
    BY <1>1
  <2>2. d = h[CHOOSE n \in 0..N : /\ h[n].to = Asked(n)
                                  /\ \A k \in 0..n - 1 : h[k].to # Asked(k)]
    BY <1>3 DEF Settled
  <2> HIDE DEF Asked, before, N
  <2> QED BY <2>1, <2>2, Zenon
<1>7. \E n \in 0..N : P(n)
  <2>1. 0 \in 0..N /\ 1 \in 0..N /\ (Bags # {} => 2 \in 0..N)
    <3>1. Bags # {} => Depth # 0
      <4>1. IsFiniteSet(Bags)
        BY FS_Subset DEF Items
      <4> QED BY <4>1, FS_EmptySet DEF Depth
    <3> QED BY <1>3, <3>1
  <2>2. before(0) = start /\ before(1) = h[0] /\ before(2) = h[1]
    OBVIOUS
  <2> HIDE DEF before
  <2>3. /\ P(0) <=> h[0].to = c
        /\ P(1) <=> h[1].to = h[0].to /\ h[0].to # c
        /\ P(2) <=> h[2].to = h[1].to /\ h[1].to # h[0].to /\ h[0].to # c
    <3>1. 0..0 - 1 = {} /\ 0..1 - 1 = {0} /\ 0..2 - 1 = {0, 1}
      OBVIOUS
    <3> QED BY <1>1, <2>2, <3>1
  <2>4. h[0].to = c \/ (h[0].to \in Bags /\ (c \in Bags => h[0].index = Wherever))
    <3>1. c \in Tiles => h[0].to = c
      BY <1>1, <1>5, <2>1, <2>2
    <3>2. c \in Bags => h[0].to \in Bags /\ (h[0].to # c => h[0].index = Wherever)
      BY <1>1, <1>5, <2>1, <2>2
    <3>3. c \in Players => h[0].to \in {c} \cup Bags
      BY <1>1, <1>5, <2>1, <2>2
    <3>4. c \in Players => c \notin Bags
      BY DEF Items
    <3> QED BY <3>1, <3>2, <3>3, <3>4 DEF Places
  <2>5. CASE h[0].to # c
    <3>1. h[0].to \in Bags
      BY <2>4, <2>5
    <3>2. /\ h[1].to \in Bags /\ (h[1].to # h[0].to => h[1].index = Wherever)
      BY <1>5, <2>1, <2>2, <3>1
    <3>3. h[1].index = Wherever => h[2].to = h[1].to
      BY <1>5, <2>1, <2>2, <3>1, <3>2
    <3> HIDE DEF P
    <3> QED BY <2>1, <2>3, <2>5, <3>1, <3>2, <3>3
  <2> HIDE DEF P
  <2> QED BY <2>1, <2>3, <2>5
<1>8. m \in 0..N /\ P(m)
  <2> HIDE DEF P, N
  <2> QED BY <1>7
<1> HIDE DEF m
<1>9. CASE before(m).to \in Tiles \cup Bags
  <2>1. Settling(w, h[m]) /\ h[m].to \notin Players
    <3>1. before(m).to \notin Players
      BY <1>9 DEF Items
    <3> QED BY <1>5, <1>8, <1>9, <3>1
  <2>2. h[m] \in Answers(w)
    BY <1>4, <1>8 DEF V
  <2> QED BY <1>6, <2>1, <2>2 DEF Peaceful
<1>10. CASE before(m).to \in Players
  <2>1. m = 0
    <3> SUFFICES ASSUME m # 0  PROVE FALSE
      OBVIOUS
    <3>1. m - 1 \in 0..N /\ m - 1 \in 0..m - 1 /\ before(m) = h[m - 1]
      BY <1>3, <1>8
    <3>2. h[m - 1].to # before(m - 1).to /\ h[m - 1].to \in Players
      BY <1>8, <1>10, <3>1
    <3>3. before(m - 1).to \in Places
      BY <1>5, <3>1 DEF V, Answers
    <3>4. Players \cap Bags = {} /\ Players \cap Tiles = {}
      BY DEF Items
    <3> HIDE DEF before
    <3> QED BY <1>5, <3>1, <3>2, <3>3, <3>4 DEF Places
  <2>2. before(m) = start /\ h[m].to = c /\ c \in Players
    BY <1>1, <1>8, <1>10, <2>1
  <2>3. Proper(w, c, h[m]) /\ (index = Wherever => Peaceful(i, h[m]))
    BY <1>1, <1>5, <1>8, <2>2
  <2>4. Settling(w, h[m])
    <3>1. c \notin Bags
      BY <2>2 DEF Items
    <3> QED BY <2>2, <2>3, <3>1 DEF Settling, Proper
  <2> QED BY <1>6, <2>3, <2>4 DEF Proper
<1>11. before(m).to \in Places
  BY <1>5, <1>8 DEF V, Answers
<1> QED BY <1>9, <1>10, <1>11 DEF Places

-----------------------------------------------------------------------------
(* How much of an item there is room for.                                   *)

(* One space or more has room for a stack or more.                          *)
LEMMA TimesFacts ==
  ASSUME NEW a \in Nat, NEW b \in Nat
  PROVE  a * b \in Nat /\ (a >= 1 => a * b >= b)
<1>1. a * b \in Nat
  OBVIOUS
<1>2. ASSUME a >= 1  PROVE  a * b >= b
  <2>1. PICK k \in Nat : a = k + 1
    <3>1. a - 1 \in Nat /\ a = (a - 1) + 1
      BY <1>2
    <3> QED BY <3>1
  <2>2. a * b = k * b + b /\ k * b \in Nat
    BY <2>1
  <2> QED BY <2>2
<1> QED BY <1>1, <1>2

(* For what a container takes there is free space, or it joins the stack at   *)
(* the index.                                                               *)
LEMMA BagRoom ==
  ASSUME NEW w, Laid(w), NEW b \in Bags, NEW index \in Int, NEW i \in Items, NEW n,
         BagTakes(w, b, index, i, n), NEW max, max = BagMaxCount(w, b, index, i)
  PROVE  /\ max \in Nat
         /\ IF Len(w.list[b]) < Room THEN max # 0 /\ (i \in Stacks => max >= StackMax)
            ELSE max # 0 => /\ SameType(i, ItemAt(w, b, index))
                            /\ max = Remainder(w, ItemAt(w, b, index))
<1> USE WorldAssumption
<1> DEFINE free == Max({Room - Len(w.list[b]), 0})
           onto == {j \in IF index = Wherever THEN ToSet(w.list[b]) \ {i}
                          ELSE {ItemAt(w, b, index)} :
                     SameType(i, j) /\ BagTakes(w, b, 0, i, Remainder(w, j))}
           sum == MapThenSumSet(LAMBDA j : Remainder(w, j), onto)
           f == [j \in onto |-> Remainder(w, j)]
<1>1. /\ Room \in Nat /\ StackMax \in Nat /\ StackMax > 0 /\ w.count \in [Stacks -> 0..StackMax]
      /\ w.list[b] \in Seq(Items) /\ Len(w.list[b]) \in Nat
  <2>1. w.list[b] \in Seq(Items) /\ w.count \in [Stacks -> 0..StackMax]
    BY DEF Laid, PlaceTypes
  <2> QED BY <2>1
<1>2. max = IF i \in Stacks THEN free * StackMax + sum ELSE free
  BY DEF BagMaxCount
<1>3. free \in Nat /\ (Len(w.list[b]) < Room => free >= 1) /\ (~(Len(w.list[b]) < Room) => free = 0)
  <2>1. Room - Len(w.list[b]) \in Int /\ 0 \in Int
    BY <1>1
  <2>2. free = IF Room - Len(w.list[b]) >= 0 THEN Room - Len(w.list[b]) ELSE 0
    BY <2>1, MaxFacts
  <2> HIDE DEF free
  <2> QED BY <1>1, <2>2
<1>4. IsFiniteSet(onto) /\ \A j \in onto : j \in Stacks /\ Remainder(w, j) \in Nat
  <2>1. onto \subseteq Stacks
    BY DEF SameType
  <2>2. IsFiniteSet(Stacks)
    BY FS_Subset DEF Items
  <2>3. \A j \in Stacks : Remainder(w, j) \in Nat
    BY <1>1 DEF Remainder
  <2> HIDE DEF onto
  <2> QED BY <2>1, <2>2, <2>3, FS_Subset
<1>5. sum = Total(f, onto)
  <2>1. \A j \in onto : Remainder(w, j) \in Int
    BY <1>4
  <2> HIDE DEF onto
  <2> QED BY <1>4, <2>1, RemainderSum
<1>6. /\ Total(f, onto) \in Nat /\ (onto = {} => Total(f, onto) = 0)
      /\ \A j \in onto : onto = {j} => Total(f, onto) = Remainder(w, j)
  <2>1. \A j \in onto : f[j] = Remainder(w, j) /\ f[j] \in Int /\ f[j] \in Nat
    BY <1>4
  <2> HIDE DEF onto, f
  <2>2. /\ onto = {} => Total(f, onto) = 0
        /\ \A j \in onto : Total(f, onto) = f[j] + Total(f, onto \ {j})
        /\ Total(f, onto) \in Nat
    BY <1>4, <2>1, TotalFacts
  <2>3. ASSUME NEW j \in onto, onto = {j}  PROVE  Total(f, onto) = Remainder(w, j)
    <3>1. onto \ {j} = {} /\ IsFiniteSet({})
      BY <2>3, FS_EmptySet
    <3>2. Total(f, {}) = 0
      <4>1. \A x \in {} : f[x] \in Int
        OBVIOUS
      <4> QED BY <3>1, <4>1, TotalFacts
    <3>3. Total(f, onto) = f[j] + 0
      BY <2>2, <3>1, <3>2
    <3> QED BY <2>1, <3>3
  <2> QED BY <2>2, <2>3
<1>7. CASE Len(w.list[b]) < Room
  <2>1. free * StackMax \in Nat /\ free * StackMax >= StackMax
    BY <1>1, <1>3, <1>7, TimesFacts
  <2>2. sum \in Nat
    BY <1>5, <1>6
  <2> DEFINE a == free * StackMax
  <2>3. max = IF i \in Stacks THEN a + sum ELSE free
    BY <1>2
  <2>4. a \in Nat /\ a >= StackMax /\ free \in Nat /\ free >= 1
    BY <1>3, <1>7, <2>1
  <2> HIDE DEF free, sum, a
  <2>5. max \in Nat /\ max # 0 /\ (i \in Stacks => max >= StackMax)
    BY <1>1, <2>2, <2>3, <2>4
  <2> QED BY <1>7, <2>5
<1>8. CASE ~(Len(w.list[b]) < Room)
  <2>1. free = 0
    BY <1>3, <1>8
  <2>2. 0 * StackMax = 0
    BY <1>1
  <2>3. sum \in Nat /\ max = IF i \in Stacks THEN sum ELSE 0
    <3>1. max = IF i \in Stacks THEN 0 + sum ELSE 0
      BY <1>2, <2>1, <2>2
    <3>2. sum \in Nat
      BY <1>5, <1>6
    <3> HIDE DEF sum
    <3> QED BY <3>1, <3>2
  <2>4. index # Wherever
    BY <1>1, <1>8 DEF BagTakes
  <2>5. ASSUME max # 0
        PROVE  SameType(i, ItemAt(w, b, index)) /\ max = Remainder(w, ItemAt(w, b, index))
    <3>1. onto # {} /\ max = sum
      BY <1>5, <1>6, <2>3, <2>5
    <3>2. ItemAt(w, b, index) \in onto /\ onto = {ItemAt(w, b, index)}
          /\ SameType(i, ItemAt(w, b, index))
      BY <2>4, <3>1
    <3> QED BY <1>5, <1>6, <3>1, <3>2
  <2>6. max \in Nat
    BY <2>3
  <2> QED BY <1>8, <2>5, <2>6
<1> QED BY <1>7, <1>8

(* Where there is room for i, it does not push anything out.                *)
LEMMA RoomFacts ==
  ASSUME NEW w, Laid(w), NEW d \in Answers(w), Settling(w, d), NEW i \in Items,
         NEW n \in 0..StackMax, QueryAdd(w, d.to, d.index, i, n) = "ok",
         NEW max, max = QueryMaxCount(w, d.to, d.index, i, n).max, max # 0
  PROVE  /\ max \in Nat
         /\ \/ Roomy(w, d) /\ (i \in Stacks => max >= n)
            \/ SameType(i, d.item) /\ max = Remainder(w, d.item)
         /\ d.to \in Bags => i # d.to /\ ~Holds(w, i, d.to)
<1> USE WorldAssumption
<1> DEFINE b == d.to
<1>1. /\ b \in Places /\ d.index \in Int /\ d.index >= Wherever
      /\ d.item \in Items \cup {NoItem} /\ (d.item # NoItem => w.parent[d.item] = d.to)
      /\ StackMax \in Nat /\ StackMax > 0
  BY DEF Answers
<1>2. CASE b \in Tiles
  <2>1. b \notin Players /\ b \notin Bags
    BY <1>2 DEF Items
  <2>2. max = n
    BY <2>1 DEF QueryMaxCount
  <2> QED BY <1>1, <2>1, <2>2 DEF FreeAt, Roomy
<1>3. CASE b \in Bags
  <2>1. b \notin Players /\ b \notin Tiles
    BY <1>3 DEF Items
  <2>2. max = BagMaxCount(w, b, d.index, i)
    BY <1>3, <2>1 DEF QueryMaxCount
  <2>3. BagTakes(w, b, d.index, i, n)
    BY <2>1 DEF QueryAdd
  <2>4. /\ max \in Nat
        /\ \/ Len(w.list[b]) < Room /\ (i \in Stacks => max >= StackMax)
           \/ SameType(i, ItemAt(w, b, d.index)) /\ max = Remainder(w, ItemAt(w, b, d.index))
    <3> HIDE DEF b
    <3> QED BY <1>1, <1>3, <2>2, <2>3, BagRoom
  <2>5. /\ ItemAt(w, b, d.index) \in {NoItem, d.item}
        /\ d.index < Room \/ ItemAt(w, b, d.index) # NoItem
    BY <1>3 DEF Settling
  <2>6. CASE Len(w.list[b]) < Room /\ (i \in Stacks => max >= StackMax)
    <3>1. ItemAt(w, b, d.index) # NoItem => d.index < Len(w.list[b])
      <4>1. b \in Tiles \cup Bags
        BY <1>3
      <4> HIDE DEF b
      <4> QED BY <1>1, <4>1, ItemAtFacts
    <3>2. Len(w.list[b]) \in Nat /\ Room \in Nat
      <4>1. w.list[b] \in Seq(Items)
        BY <1>3 DEF Laid, PlaceTypes
      <4> QED BY <4>1
    <3>3. d.index < Room
      BY <1>1, <2>5, <2>6, <3>1, <3>2
    <3> QED BY <1>1, <2>1, <2>3, <2>4, <2>6, <3>3 DEF FreeAt, BagTakes, Roomy
  <2>7. CASE SameType(i, ItemAt(w, b, d.index)) /\ max = Remainder(w, ItemAt(w, b, d.index))
    <3>1. ItemAt(w, b, d.index) # NoItem
      BY <2>7 DEF SameType, Items
    <3> QED BY <2>3, <2>4, <2>5, <2>7, <3>1 DEF BagTakes
  <2> QED BY <2>4, <2>6, <2>7
<1>4. CASE b \in Players
  <2>1. b \notin Tiles /\ b \notin Bags
    BY <1>4 DEF Items
  <2>2. PlayerQueryAdd(w, b, d.index, i, n) = "ok"
    BY <1>4 DEF QueryAdd
  <2>3. d.index \in Slots /\ (w.slot[b][d.index] = NoItem \/ SameType(w.slot[b][d.index], i))
    BY <2>2 DEF PlayerQueryAdd
  <2>4. d.index # Wherever /\ d.item = w.slot[b][d.index]
    BY <1>4, <2>3, SlotFacts DEF Settling
  <2>5. max = IF d.item # NoItem THEN IF SameType(i, d.item) THEN Remainder(w, d.item) ELSE 0
              ELSE EmptySlotMaxCount(w, b, d.index, i, n)
    BY <1>4, <2>4 DEF QueryMaxCount, PlayerMaxCount
  <2>6. CASE d.item = NoItem
    <3>1. max = IF i \in Stacks THEN StackMax ELSE 1
      BY <2>2, <2>5, <2>6 DEF EmptySlotMaxCount
    <3>2. max \in Nat /\ (i \in Stacks => max >= n)
      BY <1>1, <3>1
    <3> QED BY <2>1, <2>3, <2>4, <2>6, <3>2 DEF FreeAt, Roomy
  <2>7. CASE d.item # NoItem
    <3>1. SameType(i, d.item) /\ max = Remainder(w, d.item)
      BY <2>3, <2>4, <2>5, <2>7 DEF SameType
    <3>2. max \in Nat
      <4>1. d.item \in Stacks /\ w.count \in [Stacks -> 0..StackMax]
        BY <3>1 DEF SameType, Laid, PlaceTypes
      <4> QED BY <1>1, <3>1, <4>1 DEF Remainder
    <3> QED BY <2>1, <3>1, <3>2
  <2> QED BY <2>6, <2>7
<1> QED BY <1>1, <1>2, <1>3, <1>4 DEF Places

(* After its checks internalMoveItem may transfer the item.                 *)
LEMMA MoveIntoFacts ==
  ASSUME NEW w, Placed(w), NEW i \in Items, NEW c, NEW d \in Answers(w), Settling(w, d),
         d.item # i, NEW n \in 0..StackMax, MaySplit(w, i, n), NEW guard,
         NEW r, r = MoveInto(w, c, d, i, n, guard)
  PROVE  \/ r.w = w /\ ~r.ok
         \/ \E m : /\ MayTransfer(w, d, i, m)
                   /\ r.w = Transfer(w, w.parent[i], d, i, m)
                   /\ r.ok /\ i \in Stacks => m = n
<1> USE WorldAssumption
<1> DEFINE max == QueryMaxCount(w, d.to, d.index, i, n).max
           m   == IF i \in Stacks THEN Min({n, max}) ELSE 1
           fails == \/ QueryAdd(w, d.to, d.index, i, n) # "ok" \/ max = 0
                    \/ ~QueryRemove(w, c, i, m) \/ WithinItem(w, d.to, guard)
<1>1. r = IF fails THEN Result(w, FALSE)
          ELSE Result(Transfer(w, c, d, i, m), i \in Stacks => max >= n)
  BY DEF MoveInto
<1>2. CASE fails
  BY <1>1, <1>2 DEF Result
<1>3. CASE ~fails
  <2>1. /\ QueryAdd(w, d.to, d.index, i, n) = "ok" /\ max # 0
        /\ w.parent[i] = c /\ m \in 1..ItemCount(w, i)
    BY <1>3 DEF QueryRemove
  <2>2. r.w = Transfer(w, w.parent[i], d, i, m) /\ r.ok = (i \in Stacks => max >= n)
    BY <1>1, <1>3, <2>1 DEF Result
  <2>3. Laid(w)
    BY DEF Placed
  <2>4. /\ max \in Nat
        /\ \/ Roomy(w, d) /\ (i \in Stacks => max >= n)
           \/ SameType(i, d.item) /\ max = Remainder(w, d.item)
        /\ d.to \in Bags => i # d.to /\ ~Holds(w, i, d.to)
    <3> HIDE DEF max, m
    <3>1. max = QueryMaxCount(w, d.to, d.index, i, n).max
      BY DEF max
    <3> QED BY <2>1, <2>3, <3>1, RoomFacts
  <2> HIDE DEF max
  <2>5. i \in Stacks => m = IF n <= max THEN n ELSE max
    BY <2>4, MinFacts
  <2> HIDE DEF m
  <2>6. w.parent[i] # Nowhere
    <3>1. i \in Stacks => w.count[i] \in 0..StackMax
      BY <2>3 DEF Laid, PlaceTypes
    <3>2. Exists(w, i)
      BY <2>1, <3>1 DEF ItemCount, Exists
    <3> QED BY <3>2 DEF Placed
  <2>7. Spot(w, d)
    BY DEF Spot, Answers
  <2>8. d.to \in Bags /\ i \in Bags => Clear(w, d.to, i)
    BY <2>3, <2>4, ClearFacts DEF Laid, PlaceTypes
  <2>9. SameType(i, d.item) => i \in Stacks
    BY DEF SameType
  <2>10. Roomy(w, d) \/ (SameType(i, d.item) /\ m <= Remainder(w, d.item))
    BY <2>4, <2>5, <2>9
  <2>11. ~Whole(w, i, m) /\ Arrives(w, d, i, m) => Unused(w) # {}
    <3> SUFFICES ASSUME ~Whole(w, i, m), Unused(w) = {}  PROVE ~Arrives(w, d, i, m)
      OBVIOUS
    <3>1. i \in Stacks /\ m # w.count[i] /\ n = w.count[i]
      BY DEF Whole, MaySplit
    <3>2. ~(max >= n) /\ m = max
      BY <2>4, <2>5, <3>1
    <3>3. SameType(i, d.item) /\ m = Remainder(w, d.item)
      BY <2>4, <3>1, <3>2
    <3>4. Min({Remainder(w, d.item), m}) = m
      BY <2>4, <3>2, <3>3, MinFacts
    <3>5. m = Joining(w, d, i, m)
      BY <3>3, <3>4 DEF Joining
    <3> QED BY <3>1, <3>5 DEF Arrives
  <2>12. r.ok /\ i \in Stacks => m = n
    BY <2>2, <2>4, <2>5
  <2>13. Bears(w, d, i, m)
    <3> SUFFICES ASSUME Holder(w, d.to) # NoPlayer
                 PROVE  \E k \in 0..StackMax : /\ i \in Stacks => m <= k
                                               /\ HasCapacity(w, Holder(w, d.to), i, k)
      BY DEF Bears
    <3>1. i \in Stacks => m <= n
      BY <2>4, <2>5
    <3>2. CASE d.to \in Players
      BY <2>1, <3>1, <3>2 DEF QueryAdd, PlayerQueryAdd, Holder
    <3>3. CASE d.to \notin Players
      <4>1. d.to \in Bags /\ d.to \notin Tiles
        BY <3>3 DEF Holder, Items
      <4> QED BY <2>1, <3>1, <3>3, <4>1 DEF QueryAdd, BagTakes
    <3> QED BY <3>2, <3>3
  <2>14. MayTransfer(w, d, i, m)
    BY <2>1, <2>6, <2>7, <2>8, <2>10, <2>11, <2>13 DEF MayTransfer
  <2> QED BY <2>2, <2>12, <2>14
<1> QED BY <1>2, <1>3


(* The item at d, in a slot, can go where i comes from, and i is asked for    *)
(* again.                                                                   *)
MakesRoom(w, c, d, i) ==
  /\ d.to \in Players /\ d.index \in Slots /\ d.item = w.slot[d.to][d.index]
  /\ d.item \in Items /\ d.item # i /\ w.parent[d.item] = d.to /\ ~SameType(d.item, i)
  /\ c \in Places \ Players
  /\ c \in Bags => /\ Clear(w, c, d.item)
                   /\ d.item \in Stacks \/ Len(w.list[c]) < Room
  /\ Holder(w, c) # NoPlayer =>
       HasCapacity(w, Holder(w, c), d.item, ItemCount(w, d.item))

(* That is what internalMoveItem checks before it lets items change places.  *)
LEMMA MakesRoomFacts ==
  ASSUME NEW w, Laid(w), NEW i \in Items, NEW c, w.parent[i] = c, c # Nowhere,
         NEW d \in Answers(w), Settling(w, d), d.item # i, NEW n,
         QueryAdd(w, d.to, d.index, i, n) = "exchange", MayExchange(w, c, d, i)
  PROVE  MakesRoom(w, c, d, i)
<1> USE WorldAssumption
<1> DEFINE p   == d.to
           old == d.item
<1>1. /\ PlaceTypes(w) /\ ParentTypes(w) /\ c \in Places
      /\ p \in Places /\ old \in Items \cup {NoItem} /\ (old # NoItem => w.parent[old] = p)
  BY DEF Laid, PlaceTypes, ParentTypes, Answers
<1>2. p \in Players /\ PlayerQueryAdd(w, p, d.index, i, n) = "exchange"
  BY DEF QueryAdd
<1>3. /\ d.index \in Slots /\ old = w.slot[p][d.index] /\ old # NoItem /\ ~SameType(old, i)
  <2>1. d.index \in Slots
    BY <1>2 DEF PlayerQueryAdd
  <2>2. old = w.slot[p][d.index]
    BY <1>2, <2>1 DEF Settling
  <2> QED BY <1>2, <2>1, <2>2 DEF PlayerQueryAdd
<1>4. QueryAdd(w, c, IndexOf(w, c, i), old, ItemCount(w, old)) = "ok"
  BY DEF MayExchange
<1>5. c \notin Players
  <2> SUFFICES ASSUME c \in Players  PROVE FALSE
    OBVIOUS
  <2> DEFINE s == IndexOf(w, c, i)
  <2>1. \E t \in Slots : w.slot[c][t] = i
    BY DEF Laid, SlotsFit
  <2>2. w.slot[c][s] = i
    BY <2>1 DEF IndexOf
  <2>3. PlayerQueryAdd(w, c, s, old, ItemCount(w, old)) = "ok"
    BY <1>4 DEF QueryAdd
  <2> HIDE DEF s
  <2>4. SameType(i, old)
    BY <2>2, <2>3 DEF PlayerQueryAdd
  <2> QED BY <1>3, <2>4 DEF SameType
<1>6. old \in Items /\ old # i /\ w.parent[old] = p
  BY <1>1, <1>3
<1>7. ASSUME c \in Bags
      PROVE  BagTakes(w, c, IndexOf(w, c, i), old, ItemCount(w, old))
  <2>1. c \notin Tiles
    BY <1>7 DEF Items
  <2> QED BY <1>4, <1>5, <2>1 DEF QueryAdd
<1>8. c \in Bags => Clear(w, c, old)
  <2>1. c \in Bags => old # c /\ ~Holds(w, old, c)
    BY <1>7 DEF BagTakes
  <2> QED BY <1>1, <1>6, <2>1, ClearFacts DEF Laid
<1>9. ASSUME c \in Bags, old \notin Stacks  PROVE Len(w.list[c]) < Room
  <2> DEFINE free == Room - Len(w.list[c])
  <2>1. c \notin Tiles
    BY <1>9 DEF Items
  <2>2. Len(w.list[c]) \in Nat /\ Room \in Nat /\ free \in Int
    <3>1. w.list[c] \in Seq(Items)
      BY <1>9 DEF Laid, PlaceTypes
    <3> QED BY <3>1
  <2>3. c \notin Players /\ BagMaxCount(w, c, Wherever, old) = Max({free, 0})
    BY <1>9 DEF BagMaxCount, Items
  <2>4. Max({free, 0}) > 0
    BY <1>5, <1>9, <2>1, <2>3 DEF MayExchange, QueryMaxCount
  <2>5. Max({free, 0}) = IF free >= 0 THEN free ELSE 0
    BY <2>2, MaxFacts
  <2> QED BY <2>2, <2>4, <2>5
<1>10. Holder(w, c) # NoPlayer => HasCapacity(w, Holder(w, c), old, ItemCount(w, old))
  <2> SUFFICES ASSUME Holder(w, c) # NoPlayer
               PROVE  HasCapacity(w, Holder(w, c), old, ItemCount(w, old))
    OBVIOUS
  <2>1. c \in Bags
    BY <1>5 DEF Holder
  <2> QED BY <1>7, <2>1 DEF BagTakes
<1> QED BY <1>1, <1>2, <1>3, <1>5, <1>6, <1>8, <1>9, <1>10 DEF MakesRoom

(* It does, or nothing happens.                                             *)
Exchanging(w, c, d, i, e) ==
  \/ e.w = w /\ e.d = d
  \/ /\ MakesRoom(w, c, d, i)
     /\ e.w = Exchanged(w, c, d.to, d.item) /\ e.d = [d EXCEPT !.item = NoItem]

(* u is w without d's item, which can come to c.                            *)
Unworn(w, u, c, d) ==
  /\ c \in Tiles \cup Bags /\ c \notin Players /\ d.to \in Players /\ d.to # Nowhere
  /\ d.item \in Items /\ w.parent[d.item] = d.to
  /\ TakenOut(w, u, d.item) /\ Laid(u)
  /\ u.parent = [w.parent EXCEPT ![d.item] = Nowhere] /\ u.parent[d.item] = Nowhere
  /\ u.slot = [w.slot EXCEPT ![d.to] = [w.slot[d.to] EXCEPT ![d.index] = NoItem]]
  /\ u.list = w.list
  /\ FreeAt(u, c, 0) /\ (c \in Bags => Clear(w, c, d.item) /\ Clear(u, c, d.item))

(* The item leaves its slot.                                                *)
LEMMA RoomMade ==
  ASSUME NEW w, Laid(w), NEW i, NEW c, NEW d, MakesRoom(w, c, d, i)
  PROVE  Unworn(w, RemoveThing(w, d.to, d.item, ItemCount(w, d.item)), c, d)
<1> USE WorldAssumption
<1> DEFINE p   == d.to
           old == d.item
           u   == RemoveThing(w, p, old, ItemCount(w, old))
<1>1. /\ PlaceTypes(w) /\ ParentTypes(w) /\ c \in Tiles \cup Bags /\ c \notin Players
      /\ p \in Players /\ d.index \in Slots /\ w.slot[p][d.index] = old
      /\ old \in Items /\ old # i /\ w.parent[old] = p /\ p # Nowhere /\ old # NoItem
      /\ c \in Bags => Clear(w, c, old)
  BY DEF Laid, PlaceTypes, MakesRoom, Places
<1>2. TakenOut(w, u, old)
  BY <1>1, RemoveFacts DEF ItemCount
<1>3. Laid(u)
  BY <1>1, <1>2, TakenOutLaid
<1>4. /\ u.parent = [w.parent EXCEPT ![old] = Nowhere] /\ u.parent[old] = Nowhere
      /\ u.list = w.list
  BY <1>1, <1>2 DEF TakenOut, ParentTypes
<1>5. c \in Bags => Clear(u, c, old)
  <2> SUFFICES ASSUME c \in Bags  PROVE Clear(u, c, old)
    OBVIOUS
  <2>1. PICK U \in SUBSET Bags : /\ c \in U /\ old \notin U
                                 /\ \A y \in U : w.parent[y] \in Bags => w.parent[y] \in U
    BY <1>1 DEF Clear
  <2>2. \A y \in U : u.parent[y] = w.parent[y]
    BY <1>1, <1>4, <2>1 DEF ParentTypes, Items
  <2> QED BY <2>1, <2>2 DEF Clear
<1>6. FreeAt(u, c, 0)
  BY <1>1 DEF FreeAt
<1>7. u.slot = [w.slot EXCEPT ![p] = [w.slot[p] EXCEPT ![d.index] = NoItem]]
  <2>1. PICK s \in Slots : /\ w.slot[p][s] = old
                           /\ u.slot = [w.slot EXCEPT ![p] = [w.slot[p] EXCEPT ![s] = NoItem]]
    BY <1>1, <1>2 DEF TakenOut
  <2>2. s = d.index
    BY <1>1, <2>1 DEF Laid, SlotsFit
  <2> QED BY <2>1, <2>2
<1> QED BY <1>1, <1>2, <1>3, <1>4, <1>5, <1>6, <1>7 DEF Unworn

(* x differs from w in the place of d's item alone.                         *)
MovedAway(w, x, c, d) ==
  /\ x.count = w.count /\ x.parent = [w.parent EXCEPT ![d.item] = c]
  /\ x.slot = [w.slot EXCEPT ![d.to] = [w.slot[d.to] EXCEPT ![d.index] = NoItem]]
  /\ x.list = [w.list EXCEPT ![c] = <<d.item>> \o @]

(* It is in the list of the other cylinder then.                            *)
LEMMA ExchangedPlaces ==
  ASSUME NEW w, Placed(w), NEW i \in Items, NEW c, NEW d, MakesRoom(w, c, d, i),
         NEW p, p = d.to, NEW old, old = d.item,
         NEW x, x = Exchanged(w, c, p, old)
  PROVE  Placed(x) /\ MovedAway(w, x, c, d)
<1> USE WorldAssumption
<1> DEFINE u == RemoveThing(w, p, old, ItemCount(w, old))
           v == AddThing(u, c, 0, old)
<1>1. Laid(w) /\ ParentTypes(w)
  BY DEF Placed, Laid, PlaceTypes
<1>2. /\ c \in Tiles \cup Bags /\ c \notin Players /\ p \in Players /\ p # Nowhere
      /\ old \in Items /\ w.parent[old] = p
      /\ TakenOut(w, u, old) /\ Laid(u)
      /\ u.parent = [w.parent EXCEPT ![old] = Nowhere] /\ u.parent[old] = Nowhere
      /\ u.slot = [w.slot EXCEPT ![p] = [w.slot[p] EXCEPT ![d.index] = NoItem]]
      /\ u.list = w.list
      /\ FreeAt(u, c, 0) /\ (c \in Bags => Clear(w, c, old) /\ Clear(u, c, old))
  <2>1. Unworn(w, u, c, d)
    BY <1>1, RoomMade
  <2> HIDE DEF u
  <2> QED BY <2>1 DEF Unworn
<1> HIDE DEF u
<1>3. c \in Places /\ c # Nowhere /\ u.count = w.count /\ 0 \in Int
  BY <1>2 DEF TakenOut, Places, Items
<1>4. PutIn(u, v, c, 0, old)
  BY <1>2, <1>3, AddFacts
<1> HIDE DEF v
<1>5. Laid(v)
  BY <1>2, <1>3, <1>4, PutInLaid
<1>6. SamePlaces(v, x)
  <2>1. x = PostNotification(PostNotification(v, p), c)
    BY <1>2 DEF Exchanged, u, v
  <2>2. SamePlaces(v, PostNotification(v, p))
    BY <1>4, PostSame DEF PutIn
  <2>3. SamePlaces(PostNotification(v, p), PostNotification(PostNotification(v, p), c))
    BY <2>2, PostSame DEF SamePlaces
  <2> QED BY <2>1, <2>2, <2>3 DEF SamePlaces
<1>7. Laid(x)
  BY <1>5, <1>6, SameLaid
<1>8. x.count = w.count /\ x.parent = [w.parent EXCEPT ![old] = c] /\ x.slot = u.slot
      /\ x.list = [w.list EXCEPT ![c] = <<old>> \o @]
  BY <1>1, <1>2, <1>3, <1>4, <1>6 DEF SamePlaces, PutIn, ParentTypes
<1>9. Placed(x)
  <2>1. ASSUME NEW j \in Items  PROVE  Exists(x, j) <=> x.parent[j] # Nowhere
    <3>1. Exists(x, j) <=> Exists(w, j)
      BY <1>8 DEF Exists
    <3>2. Exists(w, j) <=> w.parent[j] # Nowhere
      BY DEF Placed
    <3>3. x.parent[j] = IF j = old THEN c ELSE w.parent[j]
      BY <1>1, <1>8 DEF ParentTypes
    <3> QED BY <1>2, <1>3, <3>1, <3>2, <3>3
  <2> QED BY <1>7, <2>1 DEF Placed
<1> QED BY <1>2, <1>8, <1>9 DEF MovedAway

(* Then i can be asked for again.                                           *)
LEMMA ExchangeFacts ==
  ASSUME NEW w, Placed(w), NEW i \in Items, NEW c, w.parent[i] = c, c # Nowhere,
         NEW d \in Answers(w), Settling(w, d), d.item # i, NEW n,
         NEW e, e = Exchange(w, c, d, i, n)
  PROVE  /\ Exchanging(w, c, d, i, e)
         /\ Placed(e.w) /\ e.w.parent[i] = c /\ e.w.count = w.count
         /\ e.d \in Answers(e.w) /\ Settling(e.w, e.d) /\ e.d.item # i
<1> USE WorldAssumption
<1> DEFINE p   == d.to
           old == d.item
           x   == Exchanged(w, c, p, old)
           f   == [d EXCEPT !.item = NoItem]
<1>1. CASE ~(QueryAdd(w, p, d.index, i, n) = "exchange" /\ MayExchange(w, c, d, i))
  BY <1>1 DEF Exchange, Exchanging
<1>2. CASE QueryAdd(w, p, d.index, i, n) = "exchange" /\ MayExchange(w, c, d, i)
  <2>1. e.w = x /\ e.d = f
    BY <1>2 DEF Exchange
  <2>2. Laid(w)
    BY DEF Placed
  <2>3. MakesRoom(w, c, d, i)
    BY <1>2, <2>2, MakesRoomFacts
  <2>4. Exchanging(w, c, d, i, e)
    BY <2>1, <2>3 DEF Exchanging
  <2>5. p \in Players /\ d.index \in Slots /\ old # i
    BY <2>3 DEF MakesRoom
  <2> HIDE DEF p, old, x
  <2>6. /\ Placed(x) /\ x.count = w.count /\ x.parent = [w.parent EXCEPT ![old] = c]
        /\ x.slot = [w.slot EXCEPT ![p] = [w.slot[p] EXCEPT ![d.index] = NoItem]]
    <3>1. Placed(x) /\ MovedAway(w, x, c, d)
      BY <2>3, ExchangedPlaces DEF p, old, x
    <3> QED BY <3>1 DEF MovedAway, p, old
  <2>7. /\ ParentTypes(w) /\ w.slot \in [Players -> [Slots -> Items \cup {NoItem}]]
    BY <2>2 DEF Laid, PlaceTypes
  <2>8. x.parent[i] = c /\ x.slot[p][d.index] = NoItem
    BY <2>5, <2>6, <2>7 DEF ParentTypes
  <2>9. f.to = p /\ f.index = d.index /\ f.item = NoItem /\ f \in Answers(x)
    BY DEF Answers, p
  <2>10. Settling(x, f)
    <3>1. p \notin Bags
      BY <2>5 DEF Items
    <3> QED BY <2>8, <2>9, <3>1 DEF Settling
  <2>11. f.item # i
    BY <2>9
  <2> QED BY <2>1, <2>4, <2>6, <2>8, <2>9, <2>10, <2>11
<1> QED BY <1>1, <1>2

(* The steps of Game::internalMoveItem: nothing, or an exchange if it needs   *)
(* one, and then a transfer if all checks pass.                             *)
Steps(w, c, i, n, index, r) ==
  \/ r.w = w
  \/ \E d, e, m :
       /\ d \in Answers(w) /\ Exchanging(w, c, d, i, e) /\ Placed(e.w)
       /\ index = Wherever => e.w = w
       /\ \/ r.w = e.w
          \/ /\ MayTransfer(e.w, e.d, i, m)
             /\ r.w = Transfer(e.w, e.w.parent[i], e.d, i, m)
             /\ r.ok /\ i \in Stacks => m = n

(* There is nothing else it does.                                           *)
LEMMA MoveItemSteps ==
  ASSUME NEW w, Placed(w), NEW i \in Items, NEW c,
         NEW to \in Places, NEW index \in Int, index >= Wherever,
         index = Wherever \/ (w.parent[i] = c /\ c # Nowhere),
         NEW n \in 0..StackMax, MaySplit(w, i, n), NEW auto, NEW guard,
         NEW r, r = MoveItem(w, c, to, index, i, n, auto, guard)
  PROVE  Steps(w, c, i, n, index, r)
<1> DEFINE d == Destination(w, to, index, i, w.tradeItem, auto)
           e == Exchange(w, c, d, i, n)
<1>1. Laid(w)
  BY DEF Placed
<1>2. /\ d \in Answers(w) /\ Settling(w, d)
      /\ index = Wherever => Peaceful(i, d)
  <2> DEFINE keep == w.tradeItem
  <2>1. d = Destination(w, to, index, i, keep, auto)
    OBVIOUS
  <2> HIDE DEF d, keep
  <2> QED BY <1>1, <2>1, DestinationFacts
<1>3. r = IF i = d.item THEN Result(w, TRUE) ELSE MoveInto(e.w, c, e.d, i, n, guard)
  BY DEF MoveItem, MoveTo
<1> HIDE DEF d
<1>4. CASE i = d.item
  BY <1>3, <1>4 DEF Result, Steps
<1>5. CASE i # d.item
  <2>1. r = MoveInto(e.w, c, e.d, i, n, guard)
    BY <1>3, <1>5
  <2>2. index = Wherever => e.w = w /\ e.d = d
    <3> SUFFICES ASSUME index = Wherever  PROVE QueryAdd(w, d.to, d.index, i, n) # "exchange"
      BY DEF Exchange
    <3>1. ASSUME d.to \in Players, PlayerQueryAdd(w, d.to, d.index, i, n) = "exchange"
          PROVE  FALSE
      <4>1. /\ d.index \in Slots /\ w.slot[d.to][d.index] # NoItem
            /\ ~SameType(w.slot[d.to][d.index], i)
        BY <3>1 DEF PlayerQueryAdd
      <4>2. d.item = w.slot[d.to][d.index]
        BY <1>2, <3>1, <4>1 DEF Settling
      <4> QED BY <1>2, <3>1, <4>1, <4>2 DEF Peaceful, SameType
    <3> QED BY <3>1 DEF QueryAdd
  <2>3. /\ Exchanging(w, c, d, i, e) /\ Placed(e.w) /\ e.w.count = w.count
        /\ e.d \in Answers(e.w) /\ Settling(e.w, e.d) /\ e.d.item # i
    <3>1. CASE index = Wherever
      BY <1>2, <1>5, <2>2, <3>1 DEF Exchanging
    <3>2. CASE index # Wherever
      <4>1. w.parent[i] = c /\ c # Nowhere
        BY <3>2
      <4> HIDE DEF e
      <4>2. e = Exchange(w, c, d, i, n)
        BY DEF e
      <4> QED BY <1>2, <1>5, <4>1, <4>2, ExchangeFacts
    <3> QED BY <3>1, <3>2
  <2>4. MaySplit(e.w, i, n)
    BY <2>3 DEF MaySplit, Unused
  <2> DEFINE v == e.w
             x == e.d
  <2>5. \/ r.w = v /\ ~r.ok
        \/ \E m : /\ MayTransfer(v, x, i, m)
                  /\ r.w = Transfer(v, v.parent[i], x, i, m)
                  /\ r.ok /\ i \in Stacks => m = n
    <3>1. /\ Placed(v) /\ x \in Answers(v) /\ Settling(v, x) /\ x.item # i
          /\ MaySplit(v, i, n) /\ r = MoveInto(v, c, x, i, n, guard)
      BY <2>1, <2>3, <2>4
    <3> HIDE DEF v, x
    <3> QED BY <3>1, MoveIntoFacts
  <2>6. index = Wherever => e.w = w
    BY <2>2
  <2> HIDE DEF e
  <2>7. \E m : \/ r.w = e.w
               \/ /\ MayTransfer(e.w, e.d, i, m)
                  /\ r.w = Transfer(e.w, e.w.parent[i], e.d, i, m)
                  /\ r.ok /\ i \in Stacks => m = n
    BY <2>5
  <2> QED BY <1>2, <2>3, <2>6, <2>7 DEF Steps
<1> QED BY <1>4, <1>5

(* Game::internalMoveItem keeps the places.  Whatever is offered in a trade    *)
(* and moves, moves as a whole.                                             *)
LEMMA MoveItemFacts ==
  ASSUME NEW w, Placed(w), NEW i \in Items, NEW c, NEW n, NEW index, NEW r,
         Steps(w, c, i, n, index, r)
  PROVE  /\ Placed(r.w)
         /\ index = Wherever =>
              \/ r.w = w
              \/ \E d, m : /\ MayTransfer(w, d, i, m) /\ Transferred(w, r.w, d, i, m)
                           /\ r.ok /\ i \in Stacks => m = n
<1>1. CASE r.w = w
  BY <1>1
<1>2. ASSUME NEW v, NEW x, NEW m, Placed(v), index = Wherever => v = w,
             \/ r.w = v
             \/ /\ MayTransfer(v, x, i, m) /\ r.w = Transfer(v, v.parent[i], x, i, m)
                /\ r.ok /\ i \in Stacks => m = n
      PROVE  /\ Placed(r.w)
             /\ index = Wherever =>
                  \/ r.w = w
                  \/ \E d, k : /\ MayTransfer(w, d, i, k) /\ Transferred(w, r.w, d, i, k)
                               /\ r.ok /\ i \in Stacks => k = n
  <2>1. CASE r.w = v
    BY <1>2, <2>1
  <2>2. CASE /\ MayTransfer(v, x, i, m) /\ r.w = Transfer(v, v.parent[i], x, i, m)
             /\ r.ok /\ i \in Stacks => m = n
    <3>1. Placed(r.w) /\ Transferred(v, r.w, x, i, m)
      BY <1>2, <2>2, TransferFacts
    <3> QED BY <1>2, <2>2, <3>1
  <2> QED BY <1>2, <2>1, <2>2
<1> QED BY <1>1, <1>2 DEF Steps

-----------------------------------------------------------------------------
(* The exchange of two offers.                                              *)

(* If the first offer changed the size of the second one, an object is free.*)
LEMMA SecondSplits ==
  ASSUME NEW w, Placed(w), NEW i \in Items, NEW j \in Items, i # j, SplitsPossible(w, i, j),
         NEW d, NEW m, MayTransfer(w, d, i, m), NEW v, Placed(v), Transferred(w, v, d, i, m),
         i \in Stacks => m = w.count[i]
  PROVE  MaySplit(v, j, ItemCount(w, j))
<1> SUFFICES ASSUME j \in Stacks, v.count[j] # w.count[j]  PROVE Unused(v) # {}
  BY DEF MaySplit, ItemCount
<1>1. w.count \in [Stacks -> 0..StackMax] /\ StackMax \in Nat
  BY WorldAssumption DEF Placed, Laid, PlaceTypes
<1>2. Arriving(w, i, m) = i
  BY DEF Arriving
<1>3. \A k \in Stacks : v.count[k] =
        IF Arrives(w, d, i, m) /\ k = i THEN m - Joining(w, d, i, m)
        ELSE IF k = i THEN w.count[i] - m
        ELSE IF k = d.item /\ SameType(i, d.item) THEN w.count[k] + Joining(w, d, i, m)
        ELSE w.count[k]
  BY <1>2 DEF Transferred
<1>4. j = d.item /\ SameType(i, j) /\ i \in Stacks
  BY <1>3 DEF SameType
<1>5. m = w.count[i] /\ m \in 1..StackMax
  BY <1>1, <1>4 DEF MayTransfer, ItemCount
<1>6. CASE ~Arrives(w, d, i, m)
  <2>1. v.count[i] = 0
    BY <1>1, <1>3, <1>4, <1>5, <1>6
  <2> QED BY <1>4, <2>1 DEF Unused
<1>7. CASE Arrives(w, d, i, m)
  <2>1. Joining(w, d, i, m) = IF Remainder(w, j) <= m THEN Remainder(w, j) ELSE m
    <3>1. Remainder(w, j) \in Int /\ m \in Int
      BY <1>1, <1>5 DEF Remainder
    <3>2. Min({Remainder(w, j), m}) = IF Remainder(w, j) <= m THEN Remainder(w, j) ELSE m
      BY <3>1, MinFacts
    <3> QED BY <1>4, <3>2 DEF Joining
  <2>2. Remainder(w, j) < m
    <3>1. m # Joining(w, d, i, m)
      BY <1>4, <1>7 DEF Arrives
    <3> QED BY <1>1, <1>5, <2>1, <3>1 DEF Remainder
  <2>3. ~(w.count[i] + w.count[j] <= StackMax)
    BY <1>1, <1>4, <1>5, <2>2 DEF Remainder
  <2>4. PICK k \in Unused(w) : TRUE
    BY <1>4, <2>3 DEF SplitsPossible, SameType
  <2>5. k \in Stacks /\ w.count[k] = 0
    BY <2>4 DEF Unused
  <2>6. k # i /\ k # j
    BY <1>1, <1>5, <2>2, <2>5 DEF Remainder
  <2>7. v.count[k] = 0
    BY <1>3, <1>4, <2>5, <2>6
  <2> QED BY <2>5, <2>7 DEF Unused
<1> QED BY <1>6, <1>7

(* An item may always be moved as a whole.                                  *)
LEMMA CountOf ==
  ASSUME NEW w, Placed(w), NEW i \in Items
  PROVE  ItemCount(w, i) \in 0..StackMax /\ MaySplit(w, i, ItemCount(w, i))
<1>1. StackMax \in Nat /\ StackMax > 0
  BY WorldAssumption
<1>2. i \in Stacks => w.count[i] \in 0..StackMax
  BY DEF Placed, Laid, PlaceTypes
<1> QED BY <1>1, <1>2 DEF ItemCount, MaySplit

(* What a swap does: nothing, one move or two.                              *)
Swaps(w, v) ==
  \/ v = w
  \/ \E i, j \in Items : \E c, n, r :
       /\ Steps(w, c, i, n, Wherever, r)
       /\ \/ v = r.w
          \/ \E e, k, s : Steps(r.w, e, j, k, Wherever, s) /\ v = s.w

(* Neither move wants more than there is, nor a spare object in vain.        *)
LEMMA SwapSteps ==
  ASSUME NEW w, Placed(w), NEW p \in Players, NEW q \in Players,
         NEW i, i = w.tradeItem[p], NEW j, j = w.tradeItem[q],
         {i, j} \subseteq Items \cup {NoItem}, i = j => i = NoItem, SplitsPossible(w, i, j)
  PROVE  Swaps(w, Swap(w, p, q))
<1> DEFINE given == MoveItem(w, w.parent[i], q, Wherever, i, ItemCount(w, i), FALSE, j)
           last  == MoveItem(given.w, w.parent[j], p, Wherever, j, ItemCount(w, j), FALSE, NoItem)
<1>1. \/ Swap(w, p, q) = w
      \/ /\ NoItem \notin {i, j}
         /\ Swap(w, p, q) = IF ~given.ok THEN given.w ELSE last.w
  BY DEF Swap
<1>2. CASE NoItem \notin {i, j} /\ Swap(w, p, q) = IF ~given.ok THEN given.w ELSE last.w
  <2>1. i \in Items /\ j \in Items /\ i # j
    BY <1>2
  <2>2. /\ p \in Places /\ q \in Places /\ Wherever \in Int /\ Wherever >= Wherever
    BY DEF Places, Wherever
  <2>3. /\ ItemCount(w, i) \in 0..StackMax /\ MaySplit(w, i, ItemCount(w, i))
        /\ ItemCount(w, j) \in 0..StackMax /\ MaySplit(w, j, ItemCount(w, j))
    BY <2>1, CountOf
  <2>4. /\ Placed(given.w)
        /\ Steps(w, w.parent[i], i, ItemCount(w, i), Wherever, given)
        /\ \/ given.w = w
           \/ \E d, m : /\ MayTransfer(w, d, i, m) /\ Transferred(w, given.w, d, i, m)
                        /\ given.ok /\ i \in Stacks => m = ItemCount(w, i)
    <3> DEFINE c == w.parent[i]
               n == ItemCount(w, i)
               index == Wherever
               auto == FALSE
               r == given
    <3>1. /\ r = MoveItem(w, c, q, index, i, n, auto, j) /\ n \in 0..StackMax
          /\ MaySplit(w, i, n) /\ index = Wherever /\ index \in Int /\ index >= Wherever
      BY <2>2, <2>3
    <3> HIDE DEF c, n, index, auto, r
    <3>2. Steps(w, c, i, n, index, r)
      BY <2>1, <2>2, <3>1, MoveItemSteps
    <3>3. /\ Placed(r.w)
          /\ \/ r.w = w
             \/ \E d, m : /\ MayTransfer(w, d, i, m) /\ Transferred(w, r.w, d, i, m)
                          /\ r.ok /\ i \in Stacks => m = n
      BY <2>1, <3>1, <3>2, MoveItemFacts
    <3> QED BY <3>2, <3>3 DEF r, n, c, index
  <2> HIDE DEF given
  <2>5. given.ok => Steps(given.w, w.parent[j], j, ItemCount(w, j), Wherever, last)
    <3> SUFFICES ASSUME given.ok
                 PROVE  Steps(given.w, w.parent[j], j, ItemCount(w, j), Wherever, last)
      OBVIOUS
    <3>1. MaySplit(given.w, j, ItemCount(w, j))
      <4>1. CASE given.w = w
        BY <2>3, <4>1
      <4>2. ASSUME NEW d, NEW m, MayTransfer(w, d, i, m), Transferred(w, given.w, d, i, m),
                   i \in Stacks => m = w.count[i]
            PROVE  MaySplit(given.w, j, ItemCount(w, j))
        <5> DEFINE v == given.w
        <5>1. Placed(v) /\ Transferred(w, v, d, i, m)
          BY <2>4, <4>2
        <5> HIDE DEF v
        <5>2. MaySplit(v, j, ItemCount(w, j))
          BY <2>1, <4>2, <5>1, SecondSplits
        <5> QED BY <5>2 DEF v
      <4> QED BY <2>4, <4>1, <4>2 DEF ItemCount
    <3> DEFINE v == given.w
               c == w.parent[j]
               n == ItemCount(w, j)
               index == Wherever
               auto == FALSE
               guard == NoItem
               r == last
    <3>2. /\ r = MoveItem(v, c, p, index, j, n, auto, guard) /\ n \in 0..StackMax
          /\ MaySplit(v, j, n) /\ index = Wherever /\ index \in Int /\ index >= Wherever
          /\ Placed(v)
      BY <2>2, <2>3, <2>4, <3>1
    <3> HIDE DEF v, c, n, index, auto, guard, r
    <3>3. Steps(v, c, j, n, index, r)
      BY <2>1, <2>2, <3>2, MoveItemSteps
    <3> QED BY <3>3 DEF v, c, n, index, r
  <2> HIDE DEF last
  <2>6. Swap(w, p, q) = given.w \/ (given.ok /\ Swap(w, p, q) = last.w)
    BY <1>2
  <2> QED BY <2>1, <2>4, <2>5, <2>6 DEF Swaps
<1> QED BY <1>1, <1>2 DEF Swaps

(* So a swap keeps the places.                                              *)
LEMMA SwapsPlaces ==
  ASSUME NEW w, Placed(w), NEW v, Swaps(w, v)
  PROVE  Placed(v)
<1>1. ASSUME NEW i \in Items, NEW c, NEW n, NEW r, Steps(w, c, i, n, Wherever, r)
      PROVE  Placed(r.w)
  BY <1>1, MoveItemFacts
<1>2. ASSUME NEW i \in Items, NEW c, NEW n, NEW r, Steps(w, c, i, n, Wherever, r),
             NEW j \in Items, NEW e, NEW k, NEW s, Steps(r.w, e, j, k, Wherever, s)
      PROVE  Placed(s.w)
  <2>1. Placed(r.w)
    BY <1>1, <1>2
  <2> DEFINE u == r.w
  <2>2. Placed(u) /\ Steps(u, e, j, k, Wherever, s)
    BY <1>2, <2>1
  <2> HIDE DEF u
  <2> QED BY <2>2, MoveItemFacts
<1> QED BY <1>1, <1>2 DEF Swaps

-----------------------------------------------------------------------------
(* Places at every moment.                                                  *)

(* What is not about items does not matter.                                 *)
LEMMA SamePlaced ==
  ASSUME NEW w, Placed(w), NEW v, SamePlaces(w, v)
  PROVE  Placed(v)
<1>1. Laid(v)
  BY SameLaid DEF Placed
<1> QED BY <1>1 DEF Placed, SamePlaces, Exists

(* A set in some order has each of its elements once.                       *)
LEMMA SetToSeqFacts ==
  ASSUME NEW S, IsFiniteSet(S)
  PROVE  /\ SetToSeq(S) \in Seq(S)
         /\ \A x \in S : \E k \in 1..Len(SetToSeq(S)) : SetToSeq(S)[k] = x
         /\ \A k, l \in 1..Len(SetToSeq(S)) : SetToSeq(S)[k] = SetToSeq(S)[l] => k = l
<1> DEFINE n == Cardinality(S)
           s == SetToSeq(S)
<1>1. n \in Nat /\ ExistsBijection(1..n, S)
  BY FS_CardinalityType
<1>2. \E f \in [1..n -> S] : IsInjective(f)
  BY <1>1 DEF ExistsBijection, Bijection, Injection, IsInjective
<1>3. s \in [1..n -> S] /\ IsInjective(s)
  BY <1>2 DEF SetToSeq
<1>4. s \in Seq(S) /\ Len(s) = n
  BY <1>1, <1>3
<1>5. s \in Injection(1..n, S)
  BY <1>3 DEF Injection, IsInjective
<1>6. Cardinality(1..n) = n
  <2>1. 1 \in Int /\ n \in Int
    BY <1>1
  <2>2. Cardinality(1..n) = IF 1 > n THEN 0 ELSE n - 1 + 1
    BY <2>1, FS_Interval
  <2> HIDE DEF n
  <2> QED BY <1>1, <2>2
<1>7. s \in Surjection(1..n, S)
  <2> DEFINE D == 1..n
  <2>1. s \in Injection(D, S) /\ Cardinality(D) = Cardinality(S)
    BY <1>5, <1>6
  <2> HIDE DEF D
  <2>2. s \in Surjection(D, S)
    BY <2>1, FS_Injection
  <2> QED BY <2>2 DEF D
<1> HIDE DEF n, s
<1>8. \A x \in S : \E k \in 1..n : s[k] = x
  BY <1>7 DEF Surjection
<1>9. \A k, l \in 1..n : s[k] = s[l] => k = l
  BY <1>3 DEF IsInjective
<1> QED BY <1>4, <1>8, <1>9 DEF s

(* At first the items lie on their tiles.                                   *)
LEMMA InitPlaced == Init => Placed(world)
<1> SUFFICES ASSUME Init  PROVE Placed(world)
  OBVIOUS
<1> USE WorldAssumption, StartAssumption
<1> DEFINE empty == [count |-> StartCount]
           lying(t) == {i \in Items : Exists(empty, i) /\ StartTile[i] = t}
           on(t) == SetToSeq(lying(t))
<1>1. /\ ItemFields \subseteq DOMAIN world
      /\ world.parent = [i \in Items |-> IF Exists(empty, i) THEN StartTile[i] ELSE Nowhere]
      /\ world.list = [c \in Tiles \cup Bags |-> IF c \in Tiles THEN on(c) ELSE <<>>]
      /\ world.slot = [p \in Players |-> [s \in Slots |-> NoItem]]
      /\ world.count = StartCount
  BY DEF Init, ItemFields
<1>2. \A i \in Items : Exists(world, i) <=> Exists(empty, i)
  BY <1>1 DEF Exists
<1> HIDE DEF empty
<1>3. /\ \A i \in Items : world.parent[i] \in Tiles \cup {Nowhere}
      /\ \A i \in Items : Exists(world, i) <=> world.parent[i] # Nowhere
      /\ \A b \in Bags : world.parent[b] \in Tiles
  <2>1. \A i \in Items : StartTile[i] \in Tiles /\ StartTile[i] # Nowhere
    OBVIOUS
  <2>2. \A b \in Bags : b \in Items /\ Exists(world, b)
    BY DEF Exists, Items
  <2> QED BY <1>1, <1>2, <2>1, <2>2
<1>4. ASSUME NEW t \in Tiles
      PROVE  /\ on(t) \in Seq(Items)
             /\ \A k \in 1..Len(on(t)) : on(t)[k] \in lying(t)
             /\ \A x \in lying(t) : \E k \in 1..Len(on(t)) : on(t)[k] = x
             /\ \A k, l \in 1..Len(on(t)) : on(t)[k] = on(t)[l] => k = l
  <2> DEFINE S == lying(t)
             s == on(t)
  <2>1. S \subseteq Items /\ IsFiniteSet(S)
    BY FS_Subset
  <2> HIDE DEF S, lying
  <2>3. /\ s \in Seq(S)
        /\ \A x \in S : \E k \in 1..Len(s) : s[k] = x
        /\ \A k, l \in 1..Len(s) : s[k] = s[l] => k = l
    <3>1. s = SetToSeq(S)
      BY DEF S
    <3>2. IsFiniteSet(S)
      BY <2>1
    <3> HIDE DEF s
    <3>3. s \in Seq(S)
      BY <3>1, <3>2, SetToSeqFacts
    <3>4. \A x \in S : \E k \in 1..Len(s) : s[k] = x
      BY <3>1, <3>2, SetToSeqFacts
    <3>5. \A k, l \in 1..Len(s) : s[k] = s[l] => k = l
      BY <3>1, <3>2, SetToSeqFacts
    <3> QED BY <3>3, <3>4, <3>5
  <2> HIDE DEF s
  <2>4. s \in Seq(Items) /\ \A k \in 1..Len(s) : s[k] \in S
    BY <2>1, <2>3
  <2> QED BY <2>3, <2>4 DEF s, S
<1>5. PlaceTypes(world)
  <2>1. ParentTypes(world)
    BY <1>1, <1>3 DEF ParentTypes, Places
  <2>2. world.list \in [Tiles \cup Bags -> Seq(Items)]
    <3>1. ASSUME NEW c \in Tiles \cup Bags  PROVE world.list[c] \in Seq(Items)
      <4>1. CASE c \in Tiles
        <5>1. world.list[c] = on(c)
          BY <1>1, <4>1
        <5> HIDE DEF on
        <5> QED BY <1>4, <4>1, <5>1
      <4>2. CASE c \notin Tiles
        <5>1. world.list[c] = <<>>
          BY <1>1, <4>2
        <5> QED BY <5>1
      <4> QED BY <4>1, <4>2
    <3>2. DOMAIN world.list = Tiles \cup Bags /\ world.list = [c \in Tiles \cup Bags |-> world.list[c]]
      BY <1>1
    <3> QED BY <3>1, <3>2
  <2> QED BY <1>1, <2>1, <2>2 DEF PlaceTypes
<1>6. NoKnot(world)
  <2>1. \A b \in Bags : b \notin Tiles
    BY DEF Items
  <2> QED BY <1>3, <2>1 DEF NoKnot
<1>7. ASSUME NEW c \in Tiles \cup Bags  PROVE ListFits(world, c)
  <2>1. CASE c \in Tiles
    <3>1. world.list[c] = on(c)
      BY <1>1, <2>1
    <3>2. \A i \in Items : world.parent[i] = c <=> i \in lying(c)
      BY <1>1, <2>1
    <3> HIDE DEF on, lying
    <3>3. on(c) \in Seq(Items) /\ \A k \in 1..Len(on(c)) : on(c)[k] \in Items
      <4>1. on(c) \in Seq(Items)
        BY <1>4, <2>1
      <4> QED BY <4>1
    <3> QED BY <1>4, <2>1, <3>1, <3>2, <3>3 DEF ListFits
  <2>2. CASE c \notin Tiles
    <3>1. world.list[c] = <<>> /\ c \in Items /\ c # Nowhere
      BY <1>1, <2>2 DEF Items
    <3>2. \A i \in Items : world.parent[i] # c
      BY <1>3, <2>2, <3>1
    <3>3. 1..Len(world.list[c]) = {}
      BY <3>1
    <3> QED BY <3>2, <3>3 DEF ListFits
  <2> QED BY <2>1, <2>2
<1>8. ASSUME NEW p \in Players  PROVE SlotsFit(world, p)
  <2>1. \A s \in Slots : world.slot[p][s] = NoItem
    BY <1>1
  <2>2. \A i \in Items : world.parent[i] # p
    BY <1>3
  <2> QED BY <2>1, <2>2 DEF SlotsFit
<1> QED BY <1>3, <1>5, <1>6, <1>7, <1>8 DEF Placed, Laid

(* What the actions do to items: nothing, a move or a swap.                 *)
Handles(w, v) ==
  \/ SameItems(w, v)
  \/ \E i \in Items : \E n, index, r : /\ w.parent[i] # Nowhere /\ v = r.w
                                       /\ Steps(w, w.parent[i], i, n, index, r)
  \/ \E u, x : SameItems(w, u) /\ Swaps(u, x) /\ SameItems(x, v)

(* The last of both accepts: v is what becomes of w, which has all items      *)
(* where they were.                                                         *)
Bargain(w, v, p, q) ==
  /\ Swapping(w, p, q) /\ SameItems(world, w) /\ Placed(w)
  /\ Swaps(w, v) /\ v = Swap(w, p, q)

(* The first of both accepts, or the last.                                  *)
LEMMA AcceptBargains ==
  ASSUME Placed(world), Trading(world, {}), NEW p \in Players, AcceptTrade(p)
  PROVE  \/ world' = [world EXCEPT !.tradeState[p] = "accept"]
         \/ \E w, v, q : Bargain(w, v, p, q)
<1> USE WorldAssumption
<1> DEFINE q == world.tradePartner[p]
           i == world.tradeItem[p]
           j == world.tradeItem[q]
           w == [world EXCEPT
                  !.tradeState = [@ EXCEPT ![p] = "transfer", ![q] = "transfer"],
                  !.tradeItems = @ \ {i, j}]
           v == Swap(w, p, q)
<1>1. /\ q # NoPlayer /\ SplitsPossible(world, i, j)
      /\ world.tradeState[q] # "accept" => world' = [world EXCEPT !.tradeState[p] = "accept"]
  BY DEF AcceptTrade
<1>2. q \in Players /\ q # p /\ i \in Items \cup {NoItem} /\ j \in Items \cup {NoItem}
      /\ (i = j => i = NoItem)
  <2>1. q \in Players /\ Paired(world, p, q)
    BY <1>1 DEF Trading
  <2>2. i \in Items \cup {NoItem} /\ j \in Items \cup {NoItem}
    BY <2>1 DEF Trading, TradeTypes
  <2> QED BY <2>1, <2>2 DEF Paired, Trading, Offers
<1>3. ItemFields \subseteq DOMAIN world /\ TradeFields \subseteq DOMAIN world
  BY DEF Placed, Laid, PlaceTypes, Trading, TradeTypes
<1>4. SameItems(world, w) /\ SamePlaces(world, w) /\ w.tradeItem = world.tradeItem
  BY <1>3 DEF SameItems, SamePlaces, ItemFields, TradeFields
<1>5. world.tradeState[q] = "accept" => Swapping(w, p, q)
  BY SwappingFacts
<1> HIDE DEF w
<1>6. Placed(w)
  BY <1>4, SamePlaced
<1>7. SplitsPossible(w, i, j) /\ i = w.tradeItem[p] /\ j = w.tradeItem[q]
  BY <1>1, <1>4 DEF SplitsPossible, Unused, SamePlaces
<1> HIDE DEF i, j, q
<1>8. Swaps(w, v)
  BY <1>2, <1>6, <1>7, SwapSteps
<1> HIDE DEF v
<1>9. Swapping(w, p, q) => Bargain(w, v, p, q)
  BY <1>4, <1>6, <1>8 DEF Bargain, v
<1> QED BY <1>1, <1>5, <1>9

(* Accepting a trade does nothing or swaps.                                 *)
LEMMA AcceptSteps ==
  ASSUME Placed(world), Trading(world, {}), NEW p \in Players, AcceptTrade(p)
  PROVE  Handles(world, world')
<1>1. ItemFields \subseteq DOMAIN world
  BY DEF Placed, Laid, PlaceTypes
<1>2. CASE world' = [world EXCEPT !.tradeState[p] = "accept"]
  <2>1. SameItems(world, world')
    BY <1>1, <1>2 DEF SameItems, SamePlaces, ItemFields
  <2> QED BY <2>1 DEF Handles
<1>3. ASSUME NEW w, NEW v, NEW q, Bargain(w, v, p, q)  PROVE Handles(world, world')
  <2>1. SameItems(world, w) /\ Placed(w) /\ Swaps(w, v) /\ world' = Reset(v, {p, q})
    BY <1>3 DEF Bargain, Swapping
  <2>2. Placed(v)
    BY <2>1, SwapsPlaces
  <2>3. SameItems(v, Reset(v, {p, q}))
    BY <2>2 DEF Placed, Laid, PlaceTypes, SameItems, SamePlaces, ItemFields, Reset
  <2> QED BY <2>1, <2>3 DEF Handles
<1> QED BY <1>2, <1>3, AcceptBargains

(* Moving an item is what internalMoveItem does.                            *)
LEMMA MoveSteps ==
  ASSUME Placed(world), NEW p \in Players, NEW i \in Items, MayTake(p, i),
         NEW c \in Destinations(p), NEW index \in Indices(c),
         NEW n \in 1..ItemCount(world, i), PlayerMoveItem(p, i, c, index, n)
  PROVE  \E r : /\ world.parent[i] # Nowhere /\ world' = r.w
                /\ Steps(world, world.parent[i], i, n, index, r)
<1> USE WorldAssumption
<1> DEFINE w == world
           from == world.parent[i]
           r == MoveItem(w, from, c, index, i, n, TRUE, NoItem)
<1>1. world' = r.w /\ MaySplit(w, i, n)
  BY DEF PlayerMoveItem
<1>2. from # Nowhere
  BY DEF MayTake
<1>3. c \in Places
  BY DEF Destinations, Places
<1>4. index \in Int /\ index >= Wherever
  <2>1. index \in {0} \cup Slots \cup (0..Room) \cup {MoveUp}
    BY DEF Indices
  <2>2. Slots \subseteq Nat /\ Room \in Nat
    BY SlotFacts
  <2> QED BY <2>1, <2>2 DEF MoveUp, Wherever
<1>5. n \in 0..StackMax
  <2>1. ItemCount(w, i) \in 0..StackMax /\ StackMax \in Nat
    BY CountOf
  <2> QED BY <2>1
<1> DEFINE auto == TRUE
           guard == NoItem
<1>6. r = MoveItem(w, from, c, index, i, n, auto, guard) /\ Placed(w) /\ w.parent[i] = from
  OBVIOUS
<1> HIDE DEF w, from, r, auto, guard
<1>7. Steps(w, from, i, n, index, r)
  BY <1>1, <1>2, <1>3, <1>4, <1>5, <1>6, MoveItemSteps
<1> QED BY <1>1, <1>2, <1>6, <1>7 DEF w

(* One case per action.                                                     *)
LEMMA NextSteps ==
  ASSUME Placed(world), Trading(world, {}), [Next]_world
  PROVE  Handles(world, world')
<1> USE WorldAssumption
<1>1. ItemFields \subseteq DOMAIN world
  BY DEF Placed, Laid, PlaceTypes
<1>2. ASSUME NEW p, NEW t
      PROVE  /\ SameItems(world, [world EXCEPT !.at[p] = t])
             /\ SameItems(world, CloseTrades([world EXCEPT !.at[p] = t], {p}))
  <2> DEFINE v == [world EXCEPT !.at[p] = t]
  <2>1. SameItems(world, v)
    BY <1>1 DEF SameItems, SamePlaces, ItemFields
  <2> HIDE DEF v
  <2>2. SameItems(v, CloseTrades(v, {p}))
    BY <2>1, CloseSame DEF SamePlaces, SameItems
  <2>3. SameItems(world, CloseTrades(v, {p}))
    BY <2>1, <2>2 DEF SameItems, SamePlaces
  <2> QED BY <2>1, <2>3 DEF v
<1>3. ASSUME NEW p \in Players, Login(p)  PROVE SameItems(world, world')
  BY <1>2, <1>3 DEF Login
<1>4. ASSUME NEW p \in Players, Logout(p)  PROVE SameItems(world, world')
  BY <1>2, <1>4 DEF Logout
<1>5. ASSUME NEW p \in Players, NEW t \in Tiles, Walk(p, t)  PROVE SameItems(world, world')
  BY <1>2, <1>5 DEF Walk
<1>6. ASSUME NEW p \in Players, PlayerCloseTrade(p)  PROVE SameItems(world, world')
  BY <1>1, <1>6, CloseSame DEF PlayerCloseTrade
<1>7. ASSUME NEW p \in Players, NEW q \in Players, NEW i \in Items, RequestTrade(p, q, i)
      PROVE  SameItems(world, world')
  BY <1>1, <1>7 DEF RequestTrade, SameItems, SamePlaces, ItemFields
<1>8. ASSUME NEW p \in Players, NEW i \in Items, MayTake(p, i), NEW c \in Destinations(p),
             NEW index \in Indices(c), NEW n \in 1..ItemCount(world, i),
             PlayerMoveItem(p, i, c, index, n)
      PROVE  Handles(world, world')
  <2>1. \E r : /\ world.parent[i] # Nowhere /\ world' = r.w
               /\ Steps(world, world.parent[i], i, n, index, r)
    BY <1>8, MoveSteps
  <2> QED BY <2>1 DEF Handles
<1>9. CASE world' = world
  BY <1>1, <1>9 DEF Handles, SameItems, SamePlaces
<1>10. ASSUME SameItems(world, world')  PROVE Handles(world, world')
  BY <1>10 DEF Handles
<1> QED BY <1>3, <1>4, <1>5, <1>6, <1>7, <1>8, <1>9, <1>10, AcceptSteps DEF Next

(* All of that keeps the places.                                            *)
LEMMA HandlesPlaces ==
  ASSUME NEW w, Placed(w), NEW v, Handles(w, v)
  PROVE  Placed(v)
<1>1. ASSUME NEW u, Placed(u), NEW x, SameItems(u, x)  PROVE Placed(x)
  BY <1>1, SamePlaced DEF SameItems
<1>2. ASSUME NEW i \in Items, NEW n, NEW index, NEW r,
             Steps(w, w.parent[i], i, n, index, r)
      PROVE  Placed(r.w)
  <2> DEFINE c == w.parent[i]
  <2>1. Steps(w, c, i, n, index, r)
    BY <1>2
  <2> HIDE DEF c
  <2> QED BY <2>1, MoveItemFacts
<1>3. ASSUME NEW u, NEW x, SameItems(w, u), Swaps(u, x), SameItems(x, v)  PROVE Placed(v)
  <2>1. Placed(x)
    BY <1>1, <1>3, SwapsPlaces
  <2> QED BY <1>1, <1>3, <2>1
<1> QED BY <1>1, <1>2, <1>3 DEF Handles

(* So does every step.                                                      *)
LEMMA PlacedStep == Placed(world) /\ Trading(world, {}) /\ [Next]_world => Placed(world')
<1> SUFFICES ASSUME Placed(world), Trading(world, {}), [Next]_world  PROVE Placed(world')
  OBVIOUS
<1>1. Handles(world, world')
  BY NextSteps
<1> QED BY <1>1, HandlesPlaces

(* The invariant says at least what PlacesAgree says.                       *)
LEMMA PlacedAgrees == Placed(world) => PlacesAgree
<1> SUFFICES ASSUME Placed(world)  PROVE PlacesAgree
  OBVIOUS
<1> USE WorldAssumption
<1>1. /\ Laid(world) /\ PlaceTypes(world) /\ ParentTypes(world) /\ NoKnot(world)
      /\ \A i \in Items : Exists(world, i) <=> world.parent[i] # Nowhere
  BY DEF Placed, Laid, PlaceTypes
<1>2. \A b \in Bags : world.parent[b] # Nowhere
  <2>1. \A b \in Bags : b \in Items /\ Exists(world, b)
    BY DEF Exists, Items
  <2> QED BY <1>1, <2>1
<1>3. ASSUME NEW i \in Items, Exists(world, i)  PROVE Root(world, i) \in Players \cup Tiles
  BY <1>1, <1>2, <1>3, RootFacts
<1>4. ASSUME NEW c \in Tiles \cup Bags
      PROVE  /\ ToSet(world.list[c]) = {i \in Items : world.parent[i] = c}
             /\ IsInjective(world.list[c])
  <2>1. world.list[c] \in Seq(Items) /\ ListFits(world, c)
    BY <1>1 DEF PlaceTypes, Laid
  <2>2. DOMAIN world.list[c] = 1..Len(world.list[c])
        /\ \A k \in 1..Len(world.list[c]) : world.list[c][k] \in Items
    BY <2>1
  <2> DEFINE here == world.list[c]
  <2>3. /\ DOMAIN here = 1..Len(here)
        /\ \A n \in 1..Len(here) : here[n] \in Items /\ world.parent[here[n]] = c
        /\ \A j \in Items : world.parent[j] = c => \E n \in 1..Len(here) : here[n] = j
        /\ \A n, m \in 1..Len(here) : here[n] = here[m] => n = m
    BY <2>1, <2>2 DEF ListFits
  <2> HIDE DEF here
  <2>4. {here[n] : n \in DOMAIN here} = {i \in Items : world.parent[i] = c}
    BY <2>3
  <2>5. \A n, m \in DOMAIN here : here[n] = here[m] => n = m
    BY <2>3
  <2>6. ToSet(here) = {i \in Items : world.parent[i] = c}
    BY <2>4 DEF ToSet
  <2>7. IsInjective(here)
    BY <2>5 DEF IsInjective
  <2> QED BY <2>6, <2>7 DEF here
<1>5. ASSUME NEW p \in Players
      PROVE  /\ Inventory(world, p) = {i \in Items : world.parent[i] = p}
             /\ \A s, t \in Slots : world.slot[p][s] = world.slot[p][t]
                                      => s = t \/ world.slot[p][s] = NoItem
  <2>1. SlotsFit(world, p) /\ \A s \in Slots : world.slot[p][s] \in Items \cup {NoItem}
    BY <1>1 DEF PlaceTypes, Laid
  <2> QED BY <2>1 DEF SlotsFit, Inventory
<1> QED BY <1>1, <1>3, <1>4, <1>5 DEF PlacesAgree

(* The inductive invariant: the places and the trades are in order.          *)
Ordered == Placed(world) /\ Trading(world, {})

(* For any players, items, containers and places: every item that exists is   *)
(* in exactly one place, which it points back to, and no container is inside *)
(* itself, however items are moved, stacked, split, exchanged and swapped.   *)
THEOREM PlacesAgreeHolds == Spec => []PlacesAgree
<1>1. Init => Ordered
  BY InitPlaced, InitTrading DEF Ordered
<1>2. Ordered /\ [Next]_world => Ordered'
  <2>1. Ordered /\ [Next]_world => Placed(world')
    BY PlacedStep DEF Ordered
  <2>2. Ordered /\ [Next]_world => Trading(world', {})
    BY TradingStep DEF Ordered
  <2>3. Ordered' <=> Placed(world') /\ Trading(world', {})
    BY DEF Ordered
  <2> QED BY <2>1, <2>2, <2>3
<1>3. Ordered => PlacesAgree
  BY PlacedAgrees DEF Ordered
<1> QED BY <1>1, <1>2, <1>3, PTL DEF Spec
=============================================================================
