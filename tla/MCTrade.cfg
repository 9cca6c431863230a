CONSTANTS
  a = a
  b = b
  bag = bag
  coins = coins
  more = more
  Players = {a, b}
  Bags = {bag}
  Stacks = {coins, more}
  Others = {}
  Tiles <- MCTiles
  Slots <- MCSlots
  Fits <- MCFits
  Room = 1
  StackMax = 2
  Capacity = 2
  StartTile <- MCStartTile
  StartCount <- MCStartCount
  StartAt <- MCStartAt
  ThrowRange = 1
  NoItem = noitem
  NoPlayer = noplayer
  Nowhere = nowhere
SPECIFICATION Spec
SYMMETRY Symmetry
INVARIANTS
  TradesAgree
  OffersApart
PROPERTIES
  OfferIsFixed
  SwapIsWhole
