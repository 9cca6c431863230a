\* Four players, each of which can lead a party.
CONSTANTS
  Players = {p1, p2, p3, p4}
  Parties = {g1, g2, g3, g4}
  NoPlayer = noplayer
  NoParty = noparty
SPECIFICATION Spec
SYMMETRY Symmetry
INVARIANTS
  InvitesAgree
  MembersAgree
  NoEmptyParty
  OnlineOnly
PROPERTIES
  ImplementsPartyGroups
CHECK_DEADLOCK FALSE
