\* Two containers with two places each, three coins in stacks of two.
CONSTANTS
  carrier = carrier
  bag = bag
  box = box
  coins = coins
  more = more
  spare = spare
  sword = sword
  Players = {carrier}
  Bags = {bag, box}
  Stacks = {coins, more, spare}
  Others = {sword}
  Tiles <- MCTiles
  Slots <- MCSlots
  Fits <- MCFits
  Room = 2
  StackMax = 2
  Capacity = 2
  StartTile <- MCStartTile
  StartCount <- MCStartCount
  StartAt <- MCStartAt
  ThrowRange = 0
  NoItem = noitem
  NoPlayer = noplayer
  Nowhere = nowhere
SPECIFICATION Spec
SYMMETRY Symmetry
INVARIANTS
  PlacesAgree
  WeightsAgree

  
