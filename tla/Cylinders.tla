------------------------------ MODULE Cylinders ------------------------------
(***************************************************************************)
(* Where items are, and what the cylinders that hold them answer: players   *)
(* (src/src/player.cpp), containers (src/src/container.cpp) and tiles        *)
(* (src/src/tile.cpp).  An item is referenced by its cylinder and has a      *)
(* pointer back to it; containers cache the weight of what is in them,       *)
(* players that of what they carry.                                         *)
(*                                                                          *)
(* All items are moveable and pickupable; no tile is blocked or changes the *)
(* floor; an equipment slot takes an item or not (Fits), whatever the other *)
(* hand holds and whatever level the item asks for.                         *)
(***************************************************************************)
EXTENDS Integers, Sequences, SequencesExt, FiniteSets, FiniteSetsExt

CONSTANTS Players,
          Bags,       \* the items that are containers
          Stacks,     \* the items that are stackable, all of one type
          Others,     \* the other items
          Tiles,      \* a row of tiles, numbered from west to east
          Slots,      \* of an inventory: 1..n, in the order of slots_t
          Fits,       \* the slots that take a bag, a stack, another item
          Room,       \* the capacity of a container
          StackMax,   \* 100 in the code
          Capacity,   \* the weight a player can carry
          NoItem, NoPlayer, Nowhere  \* nullptr

Items == Bags \cup Stacks \cup Others

ASSUME WorldAssumption ==
  /\ IsFiniteSet(Items) /\ IsFiniteSet(Slots) /\ Slots = 1..Cardinality(Slots)
  /\ Tiles \subseteq Nat
  /\ {Room, StackMax, Capacity} \subseteq Nat \ {0}
  /\ Bags \cap (Stacks \cup Others) = {} /\ Stacks \cap Others = {}
  /\ Players \cap (Tiles \cup Items) = {} /\ Tiles \cap Items = {}
  /\ NoItem \notin Items /\ NoPlayer \notin Players
  /\ Nowhere \notin Players \cup Tiles \cup Items

-----------------------------------------------------------------------------
(* The fields of a world w that matter here.                                *)
(*   parent  m_parent of an item       list    itemlist of a container, the *)
(*   count   of a stack (0: the object         down items of a tile         *)
(*           does not exist)           slot    inventory of a player        *)
(*   weight  totalWeight of a bag      carried inventoryWeight of a player  *)
Inventory(w, p) == {w.slot[p][s] : s \in Slots} \ {NoItem}

Contents(w, c) == IF c \in Players THEN Inventory(w, c) ELSE ToSet(w.list[c])

(* The cylinders around x, from the nearest one: up[n] once more above.     *)
Above(w, x) ==
  LET up[n \in 0..Cardinality(Bags)] ==
        IF n = 0 THEN w.parent[x]
        ELSE IF up[n - 1] \in Bags THEN w.parent[up[n - 1]] ELSE up[n - 1]
  IN up

(* Item::getTopParent, and the tile for what lies on the ground.            *)
Root(w, x) == Above(w, x)[Cardinality(Bags)]

(* Container::isHoldingItem: b, a bag or not, contains x at any depth.      *)
Holds(w, b, x) == \E n \in 0..Cardinality(Bags) : Above(w, x)[n] = b

(* The player at the root of a cylinder, if there is one (getHoldingPlayer) *)
Holder(w, c) == IF c \in Players THEN c
                ELSE IF c \in Bags /\ Root(w, c) \in Players THEN Root(w, c)
                ELSE NoPlayer

SameType(i, j) == {i, j} \subseteq Stacks

(* An item weighs 1, so does each piece of a stack.                         *)
Weight(w, i) == IF i \in Bags THEN 1 + w.weight[i]
                ELSE IF i \in Stacks THEN w.count[i] ELSE 1

ItemCount(w, i) == IF i \in Stacks THEN w.count[i] ELSE 1

-----------------------------------------------------------------------------
(* What a cylinder answers.  An index is a slot, a place in a list counted   *)
(* from 0, or one of:                                                       *)
Wherever == -1   \* INDEX_WHEREEVER
MoveUp   == 254  \* the parent of a container

(* No container has so many places that this is one of them: the largest in  *)
(* data/items/items.xml has 32.                                             *)
ASSUME RoomAssumption == Room <= MoveUp

ItemAt(w, b, index) == IF index \in 0..Len(w.list[b]) - 1
                       THEN w.list[b][index + 1] ELSE NoItem

(* A plausible mistake: one piece of the stack is weighed.                   *)
HasCapacityForOne(w, p, i, n) ==
  \/ Root(w, i) = p
  \/ w.carried[p] + (IF i \in Stacks THEN 1 ELSE Weight(w, i)) <= Capacity

HasCapacity(w, p, i, n) ==
  \/ Root(w, i) = p
  \/ w.carried[p] + (IF i \in Stacks THEN n ELSE Weight(w, i)) <= Capacity

(* A plausible mistake: only the bag itself is compared with the item.       *)
BagTakesNested(w, b, index, i, n) ==
  /\ i # b
  /\ ~(index = Wherever /\ Len(w.list[b]) >= Room)
  /\ Holder(w, b) # NoPlayer => HasCapacity(w, Holder(w, b), i, n)

(* Container::__queryAdd: no error.                                         *)
BagTakes(w, b, index, i, n) ==
  /\ i # b
  /\ ~Holds(w, i, b)
  /\ ~(index = Wherever /\ Len(w.list[b]) >= Room)
  /\ Holder(w, b) # NoPlayer => HasCapacity(w, Holder(w, b), i, n)

(* Player::__queryAdd: "ok", "exchange" or "no".                            *)
PlayerQueryAdd(w, p, index, i, n) ==
  IF index \notin Slots \/ index \notin Fits[i] THEN "no"
  ELSE IF w.slot[p][index] # NoItem /\ ~SameType(w.slot[p][index], i) THEN "exchange"
  ELSE IF HasCapacity(w, p, i, n) THEN "ok" ELSE "no"

QueryAdd(w, c, index, i, n) ==
  IF c \in Players THEN PlayerQueryAdd(w, c, index, i, n)
  ELSE IF c \in Tiles \/ BagTakes(w, c, index, i, n) THEN "ok" ELSE "no"

(* What can still be stacked on the items of list, when the bag takes it.   *)
Remainder(w, j) == StackMax - w.count[j]

BagMaxCount(w, b, index, i) ==
  LET free == Max({Room - Len(w.list[b]), 0})
      onto == {j \in IF index = Wherever THEN ToSet(w.list[b]) \ {i}
                     ELSE {ItemAt(w, b, index)} :
                SameType(i, j) /\ BagTakes(w, b, 0, i, Remainder(w, j))}
  IN IF i \in Stacks
     THEN free * StackMax + MapThenSumSet(LAMBDA j : Remainder(w, j), onto)
     ELSE free

EmptySlotMaxCount(w, p, s, i, n) ==
  IF PlayerQueryAdd(w, p, s, i, n) = "ok" THEN IF i \in Stacks THEN StackMax ELSE 1 ELSE 0

(* A slot when any will do.  An empty one is asked for all of i.             *)
PlayerSlotMaxCount(w, p, s, i) ==
  LET j == w.slot[p][s]
  IN IF j \in Bags
     THEN BagMaxCount(w, j, Wherever, i)
            + MapThenSumSet(LAMBDA b : BagMaxCount(w, b, Wherever, i),
                            {b \in Bags : Holds(w, j, b)})
     ELSE IF j # NoItem
     THEN IF SameType(i, j) /\ PlayerQueryAdd(w, p, s, i, Remainder(w, j)) = "ok"
          THEN Remainder(w, j) ELSE 0
     ELSE EmptySlotMaxCount(w, p, s, i, ItemCount(w, i))

(* Player::__queryMaxCount.  A slot that is named is asked for the n that    *)
(* are to come.                                                             *)
PlayerMaxCount(w, p, index, i, n) ==
  LET j == w.slot[p][index]
  IN IF index = Wherever
     THEN MapThenSumSet(LAMBDA s : PlayerSlotMaxCount(w, p, s, i), Slots)
     ELSE IF j # NoItem THEN IF SameType(i, j) THEN Remainder(w, j) ELSE 0
     ELSE EmptySlotMaxCount(w, p, index, i, n)

(* __queryMaxCount: how many fit, for n of them, and whether that is enough. *)
(* A tile takes all.                                                        *)
QueryMaxCount(w, c, index, i, n) ==
  LET max == IF c \in Players THEN PlayerMaxCount(w, c, index, i, n)
             ELSE IF c \in Bags THEN BagMaxCount(w, c, index, i)
             ELSE n
  IN [max |-> max,
      enough |-> max >= IF i \in Stacks THEN n ELSE 1]

-----------------------------------------------------------------------------
(* __queryDestination: a cylinder, an index in it and the item there.       *)
To(c, index, item) == [to |-> c, index |-> index, item |-> item]

(* Container::__queryDestination; a stack joins another one already there,  *)
(* unless it comes from the same container or autoStack is off.             *)
BagDestination(w, b, index0, i, item0, autoStack) ==
  LET index == IF index0 >= Room THEN Wherever ELSE index0
      item  == IF index0 >= Room THEN NoItem ELSE item0
      joins == {k \in DOMAIN w.list[b] :
                 LET j == w.list[b][k]
                 IN j # i /\ SameType(i, j) /\ Remainder(w, j) > 0}
      there == IF ItemAt(w, b, index) # NoItem THEN ItemAt(w, b, index) ELSE item
  IN IF index0 = MoveUp
     THEN To(IF w.parent[b] \in Bags THEN w.parent[b] ELSE b, Wherever, NoItem)
     ELSE IF autoStack /\ w.parent[i] # b /\ joins # {}
     THEN To(b, Min(joins) - 1, w.list[b][Min(joins)])
     ELSE IF index = Wherever THEN To(b, index, item)
     ELSE IF there \in Bags THEN To(there, Wherever, NoItem)
     ELSE To(b, index, there)

(* The containers of an inventory in the order in which they are searched:   *)
(* those of the slots, then what is in them, level by level.                *)
BagsOf(items, skip) ==
  FlattenSeq([k \in DOMAIN items |-> IF items[k] \in Bags \ skip THEN <<items[k]>> ELSE <<>>])

SearchOrder(w, p, i, keep, skip) ==
  LET slots == BagsOf([s \in 1..Cardinality(Slots) |-> w.slot[p][s]], {i, keep})
      level[n \in 0..Cardinality(Bags)] ==
        IF n = 0 THEN slots
        ELSE FlattenSeq([k \in DOMAIN level[n - 1] |->
                          BagsOf(w.list[level[n - 1][k]], skip)])
  IN FlattenSeq([n \in 1..Cardinality(Bags) |-> level[n - 1]])

(* Where a container b of the inventory would take i, or Nowhere.  The index *)
(* is the number of items passed, of which keep, the item its owner offers  *)
(* in a trade, and i itself are not counted.  Unless a stack is to be joined, *)
(* the places left are an unsigned number: one item too many, and there are  *)
(* a lot of them.                                                           *)
InBag(w, b, i, keep, stacking) ==
  LET list    == w.list[b]
      seen    == {k \in DOMAIN list : list[k] \notin {i, keep}}
      joins   == {k \in seen : SameType(i, list[k]) /\ Remainder(w, list[k]) > 0}
      passed  == IF stacking THEN Cardinality(seen) ELSE Len(list)
      free    == IF stacking THEN passed < Room ELSE passed # Room
      takes   == BagTakes(w, b, 0, i, ItemCount(w, i))
  IN IF stacking /\ joins # {}
     THEN To(b, Cardinality({k \in seen : k < Min(joins)}), list[Min(joins)])
     ELSE IF free /\ takes THEN To(b, passed, NoItem)
     ELSE To(Nowhere, Wherever, NoItem)

(* Where slot s would take i, or Nowhere.                                   *)
InSlot(w, p, s, i, keep, stacking) ==
  LET j    == w.slot[p][s]
      none == To(Nowhere, Wherever, NoItem)
      ok   == PlayerQueryAdd(w, p, s, i, ItemCount(w, i)) = "ok"
  IN IF j = NoItem THEN IF ok THEN To(p, s, NoItem) ELSE none
     ELSE IF j \in {i, keep} THEN none
     ELSE IF stacking
     THEN IF ok /\ SameType(i, j) /\ Remainder(w, j) > 0 THEN To(p, s, j) ELSE none
     ELSE IF j \in Bags /\ BagTakes(w, j, Wherever, i, ItemCount(w, i))
     THEN To(j, Wherever, NoItem) ELSE none

FirstOf(answers, otherwise) ==
  LET found == {k \in DOMAIN answers : answers[k].to # Nowhere}
  IN IF found = {} THEN otherwise ELSE answers[Min(found)]

(* Player::__queryDestination for the capacity window or INDEX_WHEREEVER.   *)
InInventory(w, p, index, i, keep, autoStack) ==
  LET stacking == autoStack /\ i \in Stacks
      bags == SearchOrder(w, p, i, keep, IF stacking THEN {i, keep} ELSE {})
  IN FirstOf([s \in 1..Cardinality(Slots) |-> InSlot(w, p, s, i, keep, stacking)]
               \o [k \in DOMAIN bags |-> InBag(w, bags[k], i, keep, stacking)],
             To(p, index, NoItem))

PlayerDestination(w, p, index, i, item, keep, autoStack) ==
  IF index \in {0, Wherever} THEN InInventory(w, p, index, i, keep, autoStack)
  ELSE LET j == IF index \in Slots THEN w.slot[p][index] ELSE NoItem
       IN IF j \in Bags THEN To(j, Wherever, NoItem)
          ELSE To(p, index, IF j # NoItem THEN j ELSE item)

(* Tile::__queryDestination: the top item of the tile.                      *)
TileDestination(w, t, index) ==
  To(t, index, IF w.list[t] = <<>> THEN NoItem ELSE Head(w.list[t]))

(* One step: d is the destination so far, keep the trade items of players.  *)
QueryDestination(w, d, i, keep, autoStack) ==
  IF d.to \in Tiles THEN TileDestination(w, d.to, d.index)
  ELSE IF d.to \in Bags THEN BagDestination(w, d.to, d.index, i, d.item, autoStack)
  ELSE PlayerDestination(w, d.to, d.index, i, d.item, keep[d.to], autoStack)

(* The first of the answers that names the cylinder which was asked.         *)
Settled(answers, c) ==
  LET Asked(n) == IF n = 0 THEN c ELSE answers[n - 1].to
  IN answers[CHOOSE n \in DOMAIN answers :
               /\ answers[n].to = Asked(n)
               /\ \A k \in 0..n - 1 : answers[k].to # Asked(k)]

(* The loop of internalMoveItem: until the cylinder answers itself; flags   *)
(* are cleared after the first descent.                                     *)
Destination(w, c, index, i, keep, autoStack) ==
  LET answers[n \in 0..Cardinality(Bags) + 1] ==
        QueryDestination(w, IF n = 0 THEN To(c, index, NoItem) ELSE answers[n - 1],
                         i, keep, autoStack \/ n > 0)
  IN Settled(answers, c)
=============================================================================
