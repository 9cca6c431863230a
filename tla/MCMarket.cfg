\* Two players and two offers of up to two items; one fault.
CONSTANTS
  alice = alice
  bob = bob
  Players <- TwoPlayers
  Start <- AliceHasMoney
  Ids = {1, 2}
  NoOffer = none
  Price = 10
  MaxAmount = 2
  MaxOffers = 2
  MaxFaults = 1
SPECIFICATION Spec
PROPERTIES
  NothingIsMadeOrLost
  ExpiredOffersEnd
