-------------------------------- MODULE Items --------------------------------
(***************************************************************************)
(* Items change their place (src/src/game.cpp), with everything that this    *)
(* triggers: lists and back pointers, the cached weights of the containers   *)
(* around, the weight of who carries them, and the trades that a player      *)
(* watching sees concerned (src/src/player.cpp).                             *)
(***************************************************************************)
EXTENDS Cylinders

(* More fields of a world:                                                  *)
(*   at          position of a player, or Nowhere while he is logged out     *)
(*   tradeState, tradePartner, tradeItem    of a player                     *)
(*   tradeItems  the keys of Game::tradeItems                               *)
PositionOf(w, c) ==
  LET r == IF c \in Bags THEN Root(w, c) ELSE c
  IN IF r \in Players THEN w.at[r] ELSE r

InRange(a, b, n) == {a, b} \subseteq Tiles /\ a - b \in -n..n

-----------------------------------------------------------------------------
(* A plausible mistake: the partner keeps his side of the trade.             *)
CloseOwnTrades(w, ps) ==
  [w EXCEPT
    !.tradeState   = [p \in Players |-> IF p \in ps THEN "none" ELSE @[p]],
    !.tradePartner = [p \in Players |-> IF p \in ps THEN NoPlayer ELSE @[p]],
    !.tradeItem    = [p \in Players |-> IF p \in ps THEN NoItem ELSE @[p]],
    !.tradeItems   = @ \ {w.tradeItem[p] : p \in ps}]

(* Game::internalCloseTrade, for each of ps: with the partner's side, unless *)
(* the items are being swapped.                                             *)
CloseTrades(w, ps) ==
  LET both == {p \in Players : /\ p \in ps \/ w.tradePartner[p] \in ps
                               /\ w.tradeState[p] # "transfer"}
  IN IF both = {} THEN w ELSE CloseOwnTrades(w, both)

(* The players that see a change in cylinder c: in a tile everyone who is    *)
(* online and near enough (all of this row), in a container those within 2   *)
(* of it, in an inventory its owner.                                        *)
Watching(w, c) ==
  IF c \in Players THEN {c}
  ELSE IF c \in Tiles THEN {p \in Players : w.at[p] # Nowhere}
  ELSE {p \in Players : InRange(w.at[p], PositionOf(w, c), 2)}

(* A plausible mistake: what is in the trade item is not looked at.          *)
ConcernsItself(w, p, i) == w.tradeItem[p] = i

(* Player::checkTradeState: i is p's trade item, or in it.                  *)
Concerns(w, p, i) ==
  w.tradeItem[p] # NoItem /\ (w.tradeItem[p] = i \/ Holds(w, w.tradeItem[p], i))

(* Player::onRemoveTileItem and onRemoveInventoryItem: p's trade item went   *)
(* away, or lies in what went away.                                         *)
TradeLeaves(w, p, i) ==
  Concerns(w, p, i) \/ (w.tradeItem[p] # NoItem /\ Holds(w, i, w.tradeItem[p]))

(* Player::onRemoveContainerItem: or the container has it further down.     *)
TradeLeavesBag(w, p, b, i) ==
  \/ Concerns(w, p, i)
  \/ /\ w.tradeItem[p] # NoItem
     /\ w.parent[w.tradeItem[p]] # b
     /\ Holds(w, b, w.tradeItem[p])

NotifyRemove(w, c, i) ==
  CloseTrades(w, {p \in Watching(w, c) :
    IF c \in Bags THEN TradeLeavesBag(w, p, c, i) ELSE TradeLeaves(w, p, i)})

(* onAddContainerItem; tiles and inventories do not look at trades.         *)
NotifyAdd(w, b, i) == CloseTrades(w, {p \in Watching(w, b) : Concerns(w, p, i)})

(* onUpdateTileItem, onUpdateContainerItem, onUpdateInventoryItem           *)
NotifyUpdate(w, c, i) ==
  CloseTrades(w, {p \in Watching(w, c) :
                   IF c \in Tiles THEN w.tradeItem[p] = i ELSE Concerns(w, p, i)})

-----------------------------------------------------------------------------
(* A plausible mistake: the containers around are forgotten.                 *)
UpdateOwnWeight(w, b, diff) == [w EXCEPT !.weight[b] = @ + diff]

(* Container::updateItemWeight, for b and every container around it.        *)
UpdateItemWeight(w, b, diff) ==
  [w EXCEPT !.weight = [c \in Bags |-> IF c = b \/ Holds(w, c, b) THEN @[c] + diff ELSE @[c]]]

IndexOf(w, c, i) ==
  IF c \in Players THEN CHOOSE s \in Slots : w.slot[c][s] = i
  ELSE (CHOOSE k \in DOMAIN w.list[c] : w.list[c][k] = i) - 1

(* __addThing: at the front of a list; an index that the cylinder does not   *)
(* have loses the item.                                                     *)
PlayerAddThing(w, p, index, i) ==
  IF index \notin Slots THEN w ELSE [w EXCEPT !.parent[i] = p, !.slot[p][index] = i]

BagAddThing(w, b, index, i) ==
  IF index >= Room THEN w
  ELSE NotifyAdd(UpdateItemWeight([w EXCEPT !.parent[i] = b, !.list[b] = <<i>> \o @],
                                  b, Weight(w, i)), b, i)

TileAddThing(w, t, i) == [w EXCEPT !.parent[i] = t, !.list[t] = <<i>> \o @]

AddThing(w, c, index, i) ==
  IF c \in Players THEN PlayerAddThing(w, c, index, i)
  ELSE IF c \in Bags THEN BagAddThing(w, c, index, i)
  ELSE TileAddThing(w, c, i)

(* __updateThing, and the part of __removeThing that takes some of a stack. *)
BagUpdateThing(w, b, i, n) ==
  NotifyUpdate(UpdateItemWeight([w EXCEPT !.count[i] = n], b, n - w.count[i]), b, i)

UpdateThing(w, c, i, n) ==
  IF c \in Bags THEN BagUpdateThing(w, c, i, n)
  ELSE NotifyUpdate([w EXCEPT !.count[i] = n], c, i)

(* __removeThing: tiles tell it after the fact, containers and players before*)
PlayerRemoveThing(w, p, i) ==
  [NotifyRemove(w, p, i) EXCEPT !.parent[i] = Nowhere, !.slot[p][IndexOf(w, p, i)] = NoItem]

BagRemoveThing(w, b, i) ==
  UpdateItemWeight([NotifyRemove(w, b, i) EXCEPT !.parent[i] = Nowhere,
                                                 !.list[b] = RemoveAt(@, IndexOf(w, b, i) + 1)],
                   b, -Weight(w, i))

TileRemoveThing(w, t, i) ==
  NotifyRemove([w EXCEPT !.parent[i] = Nowhere, !.list[t] = RemoveAt(@, IndexOf(w, t, i) + 1)], t, i)

RemoveThing(w, c, i, n) ==
  IF i \in Stacks /\ n # w.count[i] THEN UpdateThing(w, c, i, w.count[i] - n)
  ELSE IF c \in Players THEN PlayerRemoveThing(w, c, i)
  ELSE IF c \in Bags THEN BagRemoveThing(w, c, i)
  ELSE TileRemoveThing(w, c, i)

(* postAddNotification and postRemoveNotification: who carries the cylinder *)
(* weighs his inventory again.                                              *)
PostNotification(w, c) ==
  LET p == Holder(w, c)
  IN IF p = NoPlayer THEN w
     ELSE [w EXCEPT !.carried[p] = MapThenSumSet(LAMBDA j : Weight(w, j), Inventory(w, p))]

QueryRemove(w, c, i, n) ==
  w.parent[i] = c /\ n \in 1..ItemCount(w, i)

-----------------------------------------------------------------------------
(* Objects of Stacks that do not exist (bound: their number).               *)
Unused(w) == {j \in Stacks : w.count[j] = 0}

(* The part of internalMoveItem after all checks: m of i leave c,           *)
Depart(w, c, i, m) ==
  [RemoveThing(w, c, i, m) EXCEPT
    !.count = IF i \in Stacks /\ m = w.count[i] THEN [@ EXCEPT ![i] = 0] ELSE @]

(* n of them join the stack that is there,                                  *)
Join(w, d, i, n) ==
  IF SameType(i, d.item) THEN UpdateThing(w, d.to, d.item, w.count[d.item] + n) ELSE w

(* and the rest arrives as an object of its own.                            *)
Arrive(w, d, i, object, rest) ==
  IF i \notin Stacks THEN AddThing(w, d.to, d.index, i)
  ELSE IF rest = 0 THEN w
  ELSE AddThing([w EXCEPT !.count[object] = rest], d.to, d.index, object)

Transfer(w, c, d, i, m) ==
  LET n      == IF SameType(i, d.item) THEN Min({Remainder(w, d.item), m}) ELSE 0
      object == IF i \in Stacks /\ m # w.count[i] THEN CHOOSE j \in Unused(w) : TRUE ELSE i
  IN PostNotification(PostNotification(
       Arrive(Join(Depart(w, c, i, m), d, i, n), d, i, object, m - n), c), d.to)

(* The objects suffice (bound).                                             *)
MaySplit(w, i, m) == i \in Stacks /\ m # w.count[i] => Unused(w) # {}

(* internalMoveItem swaps the item in a slot for the new one: the old one    *)
(* goes where that comes from, and the new one is asked for again.          *)
Exchanged(w, c, to, old) ==
  PostNotification(PostNotification(
    IF c \in Players THEN RemoveThing(w, to, old, ItemCount(w, old))
    ELSE AddThing(RemoveThing(w, to, old, ItemCount(w, old)), c, 0, old), to), c)

(* The old item has a place where the new one comes from.                   *)
MayExchange(w, c, d, i) ==
  /\ QueryAdd(w, c, IndexOf(w, c, i), d.item, ItemCount(w, d.item)) = "ok"
  /\ QueryMaxCount(w, c, Wherever, d.item, ItemCount(w, d.item)).max > 0
  /\ QueryRemove(w, d.to, d.item, ItemCount(w, d.item))

(* What lies in or is the item g: the guard of a trade (nothing otherwise). *)
WithinItem(w, c, g) == g # NoItem /\ (c = g \/ (c \in Bags /\ Holds(w, g, c)))

Result(w, ok) == [w |-> w, ok |-> ok]

(* The world and the destination once a worn item made room, if it can.      *)
Exchange(w, c, d, i, n) ==
  IF QueryAdd(w, d.to, d.index, i, n) = "exchange" /\ MayExchange(w, c, d, i)
  THEN [w |-> Exchanged(w, c, d.to, d.item), d |-> [d EXCEPT !.item = NoItem]]
  ELSE [w |-> w, d |-> d]

MoveInto(w, c, d, i, n, guard) ==
  LET max == QueryMaxCount(w, d.to, d.index, i, n).max
      m   == IF i \in Stacks THEN Min({n, max}) ELSE 1
  IN IF \/ QueryAdd(w, d.to, d.index, i, n) # "ok" \/ max = 0
        \/ ~QueryRemove(w, c, i, m) \/ WithinItem(w, d.to, guard)
     THEN Result(w, FALSE)
     ELSE Result(Transfer(w, c, d, i, m), i \in Stacks => max >= n)

MoveTo(w, c, d, i, n, guard) ==
  LET e == Exchange(w, c, d, i, n)
  IN IF i = d.item THEN Result(w, TRUE) ELSE MoveInto(e.w, c, e.d, i, n, guard)

(* Game::internalMoveItem: n of i from c to to0; guard is its tradeItem.     *)
MoveItem(w, c, to0, index, i, n, autoStack, guard) ==
  MoveTo(w, c, Destination(w, to0, index, i, w.tradeItem, autoStack), i, n, guard)

(* Game::internalAddItem(player, i, INDEX_WHEREEVER, 0, test = true)        *)
TestAddItem(w, p, i) ==
  LET d == QueryDestination(w, To(p, Wherever, NoItem), i, w.tradeItem, TRUE)
  IN /\ QueryAdd(w, d.to, d.index, i, ItemCount(w, i)) = "ok"
     /\ QueryMaxCount(w, p, Wherever, i, ItemCount(w, i)).enough
=============================================================================
