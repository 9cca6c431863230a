-------------------------------- MODULE Trade --------------------------------
(***************************************************************************)
(* Players walk, move items about and trade (src/src/game.cpp,               *)
(* src/src/player.cpp), one command at a time on the dispatcher's thread.    *)
(* A trade is a small protocol between two players; the items on offer stay  *)
(* where they are, and whatever happens to them must end the trade.         *)
(*                                                                          *)
(* A player who is too far from an item first walks to it: the same command  *)
(* again after some steps.  Nothing obstructs the row of tiles, so every     *)
(* throw is possible; script hooks let everything pass, house documents are  *)
(* not among the items.                                                     *)
(***************************************************************************)
EXTENDS Items

CONSTANTS StartTile,   \* bound: where each item lies at first
          StartCount,  \* bound: the size of each stack at first, 0 if unused
          StartAt,     \* the tile on which a player logs in
          ThrowRange   \* Item::getThrowRange, in tiles

ASSUME StartAssumption ==
  /\ \A i \in Items : StartTile[i] \in Tiles
  /\ StartCount \in [Stacks -> 0..StackMax]
  /\ \A p \in Players : StartAt[p] \in Tiles

VARIABLE world

Nothing == [p \in Players |-> NoItem]

Exists(w, i) == i \in Stacks => w.count[i] > 0

Init ==
  LET empty == [count |-> StartCount]
      on(t) == SetToSeq({i \in Items : Exists(empty, i) /\ StartTile[i] = t})
  IN world = [parent       |-> [i \in Items |-> IF Exists(empty, i) THEN StartTile[i] ELSE Nowhere],
              list         |-> [c \in Tiles \cup Bags |-> IF c \in Tiles THEN on(c) ELSE <<>>],
              slot         |-> [p \in Players |-> [s \in Slots |-> NoItem]],
              count        |-> StartCount,
              weight       |-> [b \in Bags |-> 0],
              carried      |-> [p \in Players |-> 0],
              at           |-> [p \in Players |-> Nowhere],
              tradeState   |-> [p \in Players |-> "none"],
              tradePartner |-> [p \in Players |-> NoPlayer],
              tradeItem    |-> Nothing,
              tradeItems   |-> {}]

Online(p) == world.at[p] # Nowhere

-----------------------------------------------------------------------------
Login(p) ==
  /\ ~Online(p)
  /\ world' = [world EXCEPT !.at[p] = StartAt[p]]

(* Player::onCreatureDisappear                                              *)
Logout(p) ==
  /\ Online(p)
  /\ LET v == [world EXCEPT !.at[p] = Nowhere]
     IN world' = IF v.tradePartner[p] # NoPlayer THEN CloseTrades(v, {p}) ELSE v

(* Player::onCreatureMove, which only the player who moves looks at.        *)
WalksAway(w, p) ==
  \/ w.tradeItem[p] # NoItem /\ ~InRange(PositionOf(w, w.parent[w.tradeItem[p]]), w.at[p], 1)
  \/ w.tradePartner[p] # NoPlayer /\ ~InRange(w.at[w.tradePartner[p]], w.at[p], 2)

(* A step, or a teleport.                                                   *)
Walk(p, t) ==
  /\ Online(p)
  /\ t # world.at[p]
  /\ LET v == [world EXCEPT !.at[p] = t]
     IN world' = IF WalksAway(v, p) THEN CloseTrades(v, {p}) ELSE v

(* A player gets at his inventory, at what is next to him, at the contents   *)
(* of containers he can open, and at the top item of a tile.                *)
Reaches(p, c) == InRange(world.at[p], PositionOf(world, c), 1)
                   /\ (c \in Players => c = p)
                   /\ (c \in Bags => Root(world, c) \in Tiles \cup {p})

MayTake(p, i) ==
  LET c == world.parent[i]
  IN /\ c # Nowhere
     /\ Reaches(p, c)
     /\ c \in Tiles => i = Head(world.list[c])

(* What a client can name as a destination.                                 *)
Indices(c) == IF c \in Tiles THEN {0}
              ELSE IF c \in Players THEN Slots \cup {0}
              ELSE (0..Room) \cup {MoveUp}

Destinations(p) ==
  {c \in Tiles : InRange(world.at[p], c, ThrowRange)}
    \cup {c \in Players \cup Bags : Reaches(p, c)}

(* Game::playerMoveItem                                                     *)
PlayerMoveItem(p, i, c, index, n) ==
  /\ MaySplit(world, i, n)
  /\ world' = MoveItem(world, world.parent[i], c, index, i, n, TRUE, NoItem).w

-----------------------------------------------------------------------------
(* A plausible mistake: only the item itself must not be on offer already.   *)
OfferedItself(i) == i \in world.tradeItems

(* Neither i, nor what it contains, nor what contains it is on offer.       *)
AlreadyTraded(i) ==
  \E j \in world.tradeItems : i = j \/ Holds(world, i, j) \/ Holds(world, j, i)

(* playerRequestTrade and internalStartTrade                                *)
RequestTrade(p, q, i) ==
  /\ Online(p) /\ Online(q) /\ p # q
  /\ InRange(world.at[q], world.at[p], 2)
  /\ MayTake(p, i)
  /\ ~AlreadyTraded(i)
  /\ \/ world.tradeState[p] = "none"
     \/ world.tradeState[p] = "acknowledge" /\ world.tradePartner[p] = q
  /\ world.tradeState[q] = "none" \/ world.tradePartner[q] = p
  /\ world' = [world EXCEPT
       !.tradePartner[p] = q,
       !.tradePartner[q] = p,
       !.tradeState[p] = "initiated",
       !.tradeState[q] = IF @ = "none" THEN "acknowledge" ELSE @,
       !.tradeItem[p] = i,
       !.tradeItems = @ \cup {i}]

Reset(w, ps) ==
  [w EXCEPT !.tradeState   = [p \in Players |-> IF p \in ps THEN "none" ELSE @[p]],
            !.tradePartner = [p \in Players |-> IF p \in ps THEN NoPlayer ELSE @[p]],
            !.tradeItem    = [p \in Players |-> IF p \in ps THEN NoItem ELSE @[p]]]

(* A plausible mistake: nothing is tried before the first item moves.        *)
MoveBoth(w, p, q) ==
  LET given == MoveItem(w, w.parent[w.tradeItem[p]], q, Wherever, w.tradeItem[p],
                        ItemCount(w, w.tradeItem[p]), FALSE, w.tradeItem[q])
  IN IF NoItem \in {w.tradeItem[p], w.tradeItem[q]} THEN w
     ELSE MoveItem(given.w, w.parent[w.tradeItem[q]], p, Wherever, w.tradeItem[q],
                   ItemCount(w, w.tradeItem[q]), FALSE, NoItem).w

(* The exchange: p, who accepted last, gives first; that his own item then   *)
(* reaches him is not looked at.                                            *)
Swap(w, p, q) ==
  LET i == w.tradeItem[p]
      j == w.tradeItem[q]
      given == MoveItem(w, w.parent[i], q, Wherever, i, ItemCount(w, i), FALSE, j)
  IN IF NoItem \in {i, j} THEN w
     ELSE IF ~TestAddItem(w, q, i) \/ ~TestAddItem(w, p, j) THEN w
     ELSE IF ~given.ok THEN given.w
     ELSE MoveItem(given.w, w.parent[j], p, Wherever, j, ItemCount(w, j), FALSE, NoItem).w

(* The pieces of stacks in or at i.                                         *)
Coins(w, i) == MapThenSumSet(LAMBDA j : w.count[j], {j \in Stacks : j = i \/ Holds(w, i, j)})

(* Two stacks that meet and do not fit into one need a spare object (bound). *)
SplitsPossible(w, i, j) ==
  {i, j} \subseteq Stacks => Unused(w) # {} \/ w.count[i] + w.count[j] <= StackMax

(* Game::playerAcceptTrade                                                  *)
AcceptTrade(p) ==
  LET q == world.tradePartner[p]
  IN /\ Online(p)
     /\ world.tradeState[p] \in {"acknowledge", "initiated"}
     /\ q # NoPlayer
     /\ SplitsPossible(world, world.tradeItem[p], world.tradeItem[q])
     /\ world' =
          IF world.tradeState[q] # "accept"
          THEN [world EXCEPT !.tradeState[p] = "accept"]
          ELSE Reset(Swap([world EXCEPT
                             !.tradeState = [@ EXCEPT ![p] = "transfer", ![q] = "transfer"],
                             !.tradeItems = @ \ {world.tradeItem[p], world.tradeItem[q]}],
                          p, q),
                     {p, q})

PlayerCloseTrade(p) ==
  /\ Online(p)
  /\ world' = CloseTrades(world, {p})

-----------------------------------------------------------------------------
Next ==
  \/ \E p \in Players : \/ Login(p) \/ Logout(p)
                        \/ AcceptTrade(p) \/ PlayerCloseTrade(p)
  \/ \E p \in Players, t \in Tiles : Walk(p, t)
  \/ \E p \in Players : \E i \in {i \in Items : MayTake(p, i)}, c \in Destinations(p) :
       \E index \in Indices(c), n \in 1..ItemCount(world, i) :
         PlayerMoveItem(p, i, c, index, n)
  \/ \E p, q \in Players, i \in Items : RequestTrade(p, q, i)

Spec == Init /\ [][Next]_world

-----------------------------------------------------------------------------
(* Every item that exists is in exactly one place, to which it points back,  *)
(* and is not inside itself: no sequence of moves, merges, splits, swaps and *)
(* exchanges loses, duplicates or ties a knot of items.                     *)
PlacesAgree ==
  /\ \A i \in Items :
       /\ Exists(world, i) <=> world.parent[i] # Nowhere
       /\ Exists(world, i) => Root(world, i) \in Players \cup Tiles
  /\ \A c \in Tiles \cup Bags :
       /\ ToSet(world.list[c]) = {i \in Items : world.parent[i] = c}
       /\ IsInjective(world.list[c])
  /\ \A p \in Players :
       /\ Inventory(world, p) = {i \in Items : world.parent[i] = p}
       /\ \A s, t \in Slots : world.slot[p][s] = world.slot[p][t]
                                => s = t \/ world.slot[p][s] = NoItem

(* The weights that containers and players cache are those of what is in     *)
(* them now, at any depth.                                                  *)
WeightsAgree ==
  /\ \A b \in Bags :
       world.weight[b] = MapThenSumSet(LAMBDA i : Weight(world, i), Contents(world, b))
  /\ \A p \in Players :
       world.carried[p] = MapThenSumSet(LAMBDA i : Weight(world, i), Contents(world, p))

(* Pieces of stacks are neither made nor lost, and nobody carries more than  *)
(* he can.                                                                  *)
WithinLimits ==
  /\ MapThenSumSet(LAMBDA i : world.count[i], Stacks)
       = MapThenSumSet(LAMBDA i : StartCount[i], Stacks)
  /\ \A p \in Players : world.carried[p] <= Capacity

(* A stack that p wore is back in b, and its slot is empty: it made room for *)
(* an item that p then could not carry.                                     *)
LaidOff(p, b) ==
  LET i == Head(world'.list[b])
  IN \E s \in Slots : i \in Stacks /\ world.slot[p][s] = i /\ world'.slot[p][s] = NoItem

(* No limit is passed, but for one case: internalMoveItem lays a worn stack  *)
(* into a full container, before it asks whether the player can carry what   *)
(* is to come out of it.                                                    *)
LimitsKept ==
  [][/\ WithinLimits'
     /\ \A b \in Bags : Len(world'.list[b]) > Max({Room, Len(world.list[b])}) =>
          \E p \in Players : LaidOff(p, b)]_world

(* Both sides of a trade see the same trade: partners point at each other,   *)
(* one who only acknowledged has no item, and Game::tradeItems has just the  *)
(* items on offer.                                                          *)
TradesAgree ==
  /\ \A p \in Players :
       /\ world.tradeState[p] = "none" <=> world.tradePartner[p] = NoPlayer
       /\ world.tradePartner[p] # NoPlayer =>
            /\ world.tradePartner[world.tradePartner[p]] = p
            /\ world.tradePartner[p] # p
            /\ world.tradeItem[p] # NoItem \/ world.tradeItem[world.tradePartner[p]] # NoItem
       /\ world.tradeState[p] \in {"none", "acknowledge"} => world.tradeItem[p] = NoItem
       /\ world.tradeState[p] = "initiated" => world.tradeItem[p] # NoItem
       /\ {world.tradeState[p]} # {"accept"} \/ world.tradePartner[p] = NoPlayer
            \/ world.tradeState[world.tradePartner[p]] # "accept"
  /\ world.tradeItems = {world.tradeItem[p] : p \in Players} \ {NoItem}

(* An item on offer exists, is in reach of who offers it, whose partner is   *)
(* near; no two offers are or contain the same item.                        *)
OffersApart ==
  \A p \in Players : world.tradeItem[p] # NoItem =>
    /\ world.parent[world.tradeItem[p]] # Nowhere
    /\ InRange(world.at[p], PositionOf(world, world.parent[world.tradeItem[p]]), 1)
    /\ InRange(world.at[p], world.at[world.tradePartner[p]], 2)
    /\ \A q \in Players \ {p} : world.tradeItem[q] # NoItem =>
         /\ world.tradeItem[q] # world.tradeItem[p]
         /\ ~Holds(world, world.tradeItem[p], world.tradeItem[q])

(* What is on offer: the item and everything in it, with its numbers.       *)
Offer(w, i) == [j \in {j \in Items : j = i \/ Holds(w, i, j)} |-> ItemCount(w, j)]

(* While a trade goes on an offer never changes: neither does a player put   *)
(* another item in its place, nor is anything taken from, added to, merged   *)
(* into or split off the item that the partner was shown.                   *)
OfferIsFixed ==
  [][\A p \in Players :
       LET i == world.tradeItem[p]
       IN i # NoItem /\ world'.tradePartner[p] # NoPlayer =>
            /\ world'.tradeItem[p] = i
            /\ world'.tradePartner[p] = world.tradePartner[p]
            /\ Offer(world', i) = Offer(world, i)]_world

(* What p carries of all stacks.                                            *)
Carries(w, p) == MapThenSumSet(LAMBDA i : w.count[i], {i \in Stacks : Root(w, i) = p})

(* The last to accept has a place for the item of his partner that neither   *)
(* needs a stack to join nor is inside the item he gives away, which leaves  *)
(* its own place free.                                                      *)
HasOwnPlace(w, p, i, j) ==
  \/ \E s \in Slots : s \in Fits[j] /\ w.slot[p][s] \in {NoItem, i}
  \/ \E b \in Bags : /\ Root(w, b) = p /\ b # i /\ ~Holds(w, i, b)
                     /\ Cardinality(ToSet(w.list[b]) \ {i}) < Room

(* If his stack i, which he does not carry, has joined j by then, that has   *)
(* grown too heavy for him.                                                 *)
Outgrown(w, p, i, j) ==
  /\ {i, j} \subseteq Stacks /\ Root(w, i) # p
  /\ w.carried[p] + w.count[i] + w.count[j] > Capacity

(* A container of his is fuller than it may be (see LimitsKept).              *)
Overfull(w, p) == \E b \in Bags : Root(w, b) = p /\ Len(w.list[b]) > Room

(* The last accept of a trade exchanges both items or leaves both alone,     *)
(* except that who accepts last may give his item for nothing: when his only *)
(* place for the other one is a stack to join or the item he gives, or when  *)
(* that has become too heavy.  Either item goes as a whole or not at all.   *)
SwapIsWhole ==
  [][\A p \in Players :
       LET q    == world.tradePartner[p]
           i    == world.tradeItem[p]
           j    == world.tradeItem[q]
           back == HasOwnPlace(world, p, i, j) /\ ~Outgrown(world, p, i, j)
           swap == /\ q # NoPlayer /\ world.tradeState[q] = "accept"
                   /\ ~Overfull(world, p) /\ ~Overfull(world, q)
                   /\ world'.parent # world.parent
                   /\ AcceptTrade(p)
       IN swap => \E got \in BOOLEAN :
            /\ back => got
            /\ i \notin Stacks => Root(world', i) = q
            /\ j \notin Stacks => Root(world', j) = IF got THEN p ELSE Root(world, j)
            /\ Carries(world', q) = Carries(world, q) + Coins(world, i)
                 - IF got /\ Root(world, j) = q THEN Coins(world, j) ELSE 0
            /\ Carries(world', p) = Carries(world, p) + (IF got THEN Coins(world, j) ELSE 0)
                 - IF Root(world, i) = p THEN Coins(world, i) ELSE 0]_world
=============================================================================
