\* Three players on levels of which the lowest is too low for the highest, in
\* two places; one party at a time. One of
\* them needs no points.
CONSTANTS
  Players = {p1, p2, p3}
  Parties = {g1}
  Exempt = {p3}
  Levels = {2, 3, 4}
  Places = {here, there}
  NoPlayer = noplayer
  NoParty = noparty
SPECIFICATION SharingSpec
SYMMETRY Symmetry
INVARIANTS
  SharingIsCurrent
  PointsOfMembers
CHECK_DEADLOCK FALSE
