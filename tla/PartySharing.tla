---------------------------- MODULE PartySharing ----------------------------
(***************************************************************************)
(* Shared experience (src/src/party.cpp), on top of Party: whether a party  *)
(* shares depends on its members' levels, places and recent fights, and is   *)
(* not computed when it is asked for but when one of these changes.          *)
(***************************************************************************)
EXTENDS Party

CONSTANTS Levels,  \* the levels that players reach
          Exempt,  \* the players with PlayerFlag_NotGainInFight: they need no points
          Places   \* players are in range of each other in the same place

ASSUME LevelsAssumption == Levels \subseteq Nat \ {0}
ASSUME ExemptAssumption == Exempt \subseteq Players

VARIABLES
  active,    \* sharedExpActive of each party: the leader wants to share
  enabled,   \* sharedExpEnabled of each party: it shares
  pointMap,  \* pointMap of each party: no entry, an old or a recent one
  level,     \* of each player
  place      \* of each player

sharing == <<active, enabled, pointMap, level, place>>

SharingVars == <<vars, sharing>>

SharingInit ==
  /\ Init
  /\ active = [g \in Parties |-> FALSE]
  /\ enabled = [g \in Parties |-> FALSE]
  /\ pointMap = [g \in Parties |-> [p \in Players |-> "none"]]
  /\ level \in [Players -> Levels]
  /\ place \in [Players -> Places]

-----------------------------------------------------------------------------
HighestLevel(g) == Max({level[p] : p \in InParty(ties, g)})

(* Two thirds of the highest level, rounded up.                              *)
MinLevel(g) == (2 * HighestLevel(g) + 2) \div 3

(* canUseSharedExperience, with entries of pointMap that are in fresh.       *)
CanUse(g, p, fresh) ==
  /\ ties.members[g] # <<>>
  /\ level[p] >= MinLevel(g)
  /\ place[p] = place[ties.leader[g]]
  /\ p \in Exempt \/ pointMap[g][p] \in fresh

CanEnable(g, fresh) == \A p \in InParty(ties, g) : CanUse(g, p, fresh)

(* A plausible mistake: what changed is not looked at again.                 *)
UpdateNothing(gs) == UNCHANGED enabled

(* updateSharedExperience of the parties gs, after the step that changes     *)
(* what it depends on.                                                       *)
Update(gs) ==
  enabled' = [g \in Parties |->
                IF g \in gs /\ active[g] THEN CanEnable(g, {"recent"})' ELSE enabled[g]]

PartyOf(p) == {ties.party[p]} \ {NoParty}

-----------------------------------------------------------------------------
(* addPlayerHealedMember and addPlayerDamageMonster.                        *)
AddPoints(p, g) ==
  /\ p \in online \ Exempt
  /\ ties.party[p] = g
  /\ pointMap' = [pointMap EXCEPT ![g][p] = "recent"]
  /\ UNCHANGED <<vars, active, level, place>>
  /\ Update({g})

(* PZ_LOCKED passes since p last did something.                              *)
PointsAge(p, g) ==
  /\ pointMap[g][p] = "recent"
  /\ pointMap' = [pointMap EXCEPT ![g][p] = "old"]
  /\ UNCHANGED <<vars, active, enabled, level, place>>

(* Player::onIdleStatus: clearPlayerPoints.                                 *)
Idle(p, g) ==
  /\ p \in online
  /\ ties.party[p] = g
  /\ pointMap[g][p] # "none"
  /\ pointMap' = [pointMap EXCEPT ![g][p] = "none"]
  /\ UNCHANGED <<vars, active, level, place>>
  /\ Update({g})

(* Player::addExperience and removeExperience.                              *)
ChangeLevel(p, l) ==
  /\ p \in online
  /\ level[p] # l
  /\ level' = [level EXCEPT ![p] = l]
  /\ UNCHANGED <<vars, active, pointMap, place>>
  /\ Update(PartyOf(p))

(* Player::onCreatureMove.                                                  *)
Move(p, x) ==
  /\ p \in online
  /\ place[p] # x
  /\ place' = [place EXCEPT ![p] = x]
  /\ UNCHANGED <<vars, active, pointMap, level>>
  /\ Update(PartyOf(p))

(* playerEnableSharedPartyExperience, setSharedExperience.                  *)
SetSharedExperience(p, g, on) ==
  /\ p \in online
  /\ ties.party[p] = g
  /\ ties.leader[g] = p
  /\ active[g] # on
  /\ active' = [active EXCEPT ![g] = on]
  /\ enabled' = IF on THEN [enabled EXCEPT ![g] = CanEnable(g, {"recent"})] ELSE enabled
  /\ UNCHANGED <<vars, pointMap, level, place>>

-----------------------------------------------------------------------------
(* What the steps of Party do to the fields of this module.                 *)

Gone(g) == ties.leader[g] # NoPlayer /\ ties'.leader[g] = NoPlayer

(* A party that is deleted takes its fields with it, and gs are updated.     *)
UpdateOrDelete(gs) ==
  /\ active' = [g \in Parties |-> active[g] /\ ~Gone(g)]
  /\ enabled' = [g \in Parties |->
                   /\ ~Gone(g)
                   /\ IF g \in gs /\ active[g] THEN CanEnable(g, {"recent"})' ELSE enabled[g]]

(* joinParty and passPartyLeadership: updateSharedExperience.               *)
AfterChange(g) ==
  /\ UNCHANGED <<active, pointMap, level, place>>
  /\ Update({g})

(* A plausible mistake: the points of those who leave are kept.              *)
AfterLeavingOnly(p, gs) ==
  /\ pointMap' = [g \in Parties |->
                    IF Gone(g) THEN [q \in Players |-> "none"] ELSE pointMap[g]]
  /\ UpdateOrDelete(gs)

(* leaveParty: updateSharedExperience and clearPlayerPoints.                 *)
AfterLeaving(p, gs) ==
  /\ pointMap' = [g \in Parties |->
                    IF Gone(g) THEN [q \in Players |-> "none"]
                    ELSE IF g \in gs THEN [pointMap[g] EXCEPT ![p] = "none"]
                    ELSE pointMap[g]]
  /\ UpdateOrDelete(gs)

Unmoved == UNCHANGED <<level, place>>

PartySteps ==
  \E p \in Players :
    \/ Login(p) /\ UNCHANGED sharing
    \/ LogoutAlone(p) /\ Unmoved /\ AfterLeaving(p, {})
    \/ \E g \in Parties :
         \/ Leave(p, g) /\ Unmoved /\ AfterLeaving(p, {g})
         \/ LogoutOfParty(p, g) /\ Unmoved /\ AfterLeaving(p, {g})
         \/ \E q \in Players :
              \/ InviteToNewParty(p, q, g) /\ UNCHANGED sharing
              \/ InviteToParty(p, q, g) /\ UNCHANGED sharing
              \/ JoinParty(q, p, g) /\ AfterChange(g)
              \/ PassLeadership(p, q, g) /\ AfterChange(g)
              \/ RevokeInvitation(p, q, g) /\ Unmoved /\ AfterLeaving(q, {})

SharingSteps ==
  \E p \in Players :
    \/ \E l \in Levels : ChangeLevel(p, l)
    \/ \E x \in Places : Move(p, x)
    \/ \E g \in Parties :
         \/ AddPoints(p, g)
         \/ PointsAge(p, g)
         \/ Idle(p, g)
         \/ \E on \in BOOLEAN : SetSharedExperience(p, g, on)

SharingNext == PartySteps \/ SharingSteps

SharingSpec == SharingInit /\ [][SharingNext]_SharingVars

-----------------------------------------------------------------------------
(* A party that is to share does so if all its members may, and does not if  *)
(* one of them is too low, too far or has taken no part in the fights; only   *)
(* that a member's last fight is too long ago goes unnoticed until something *)
(* else happens (updateSharedExperience and its callers).                    *)
SharingIsCurrent ==
  \A g \in Parties :
    active[g] => /\ CanEnable(g, {"recent"}) => enabled[g]
                 /\ enabled[g] => CanEnable(g, {"recent", "old"})

(* Only members have points, so that whoever comes back starts without        *)
(* (clearPlayerPoints in leaveParty), and a deleted party has nothing.        *)
PointsOfMembers ==
  \A g \in Parties :
    /\ \A p \in Players : pointMap[g][p] # "none" => ties.party[p] = g
    /\ ties.leader[g] = NoPlayer => ~active[g]
=============================================================================
