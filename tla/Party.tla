-------------------------------- MODULE Party --------------------------------
(***************************************************************************)
(* Parties (src/src/party.cpp) and the commands and events that change      *)
(* them (src/src/game.cpp, src/src/player.cpp).  Everything runs on the     *)
(* dispatcher's thread: a step is a whole command of a player, or a login   *)
(* or logout.  The same facts are kept twice, by the Party object and by    *)
(* the Player objects, and Party objects delete themselves.                 *)
(*                                                                          *)
(* The script hooks onJoin, onLeave and onDisband, disabled in              *)
(* data/events/events.xml, let everything pass; so does CONDITION_INFIGHT,  *)
(* which only forbids a player to leave: that is a step not taken.          *)
(***************************************************************************)
EXTENDS Naturals, Sequences, SequencesExt

CONSTANTS Players,   \* the Player objects, each of which logs in and out
          Parties,   \* bound: the Party objects that can exist at a time
          NoPlayer,  \* nullptr
          NoParty    \* nullptr

ASSUME NullAssumption == NoPlayer \notin Players /\ NoParty \notin Parties

VARIABLES
  online,  \* the players Game::getPlayerByID finds
  ties     \* the fields of all Player and Party objects: see Ties

vars == <<online, ties>>

(* party and invitations are the fields party and invitePartyList of a      *)
(* player (a list without duplicates and whose order nothing depends on);    *)
(* leader, members and invitees those of a party.  The objects of Parties    *)
(* without a leader do not exist.                                           *)
Ties == [party       : [Players -> Parties \cup {NoParty}],
         invitations : [Players -> SUBSET Parties],
         leader      : [Parties -> Players \cup {NoPlayer}],
         members     : [Parties -> Seq(Players)],
         invitees    : [Parties -> SUBSET Players]]

Init ==
  /\ online = {}
  /\ ties = [party       |-> [p \in Players |-> NoParty],
             invitations |-> [p \in Players |-> {}],
             leader      |-> [g \in Parties |-> NoPlayer],
             members     |-> [g \in Parties |-> <<>>],
             invitees    |-> [g \in Parties |-> {}]]

-----------------------------------------------------------------------------
(* What the methods of Party do, as functions of the ties t.                *)

Empty(t, g) == t.members[g] = <<>> /\ t.invitees[g] = {}

InParty(t, g) == {t.leader[g]} \cup Range(t.members[g])

(* A plausible mistake: those invited to a party that ends are not told.     *)
DisbandQuietly(t, gs) ==
  [party       |-> [p \in Players |->
                     IF \E g \in gs : p \in InParty(t, g) THEN NoParty ELSE t.party[p]],
   invitations |-> t.invitations,
   leader      |-> [g \in Parties |-> IF g \in gs THEN NoPlayer ELSE t.leader[g]],
   members     |-> [g \in Parties |-> IF g \in gs THEN <<>> ELSE t.members[g]],
   invitees    |-> [g \in Parties |-> IF g \in gs THEN {} ELSE t.invitees[g]]]

(* Each party of gs tells its leader, members and invitees, and is deleted. *)
Disband(t, gs) ==
  [party       |-> [p \in Players |->
                     IF \E g \in gs : p \in InParty(t, g) THEN NoParty ELSE t.party[p]],
   invitations |-> [p \in Players |->
                     {g \in t.invitations[p] : ~(g \in gs /\ p \in t.invitees[g])}],
   leader      |-> [g \in Parties |-> IF g \in gs THEN NoPlayer ELSE t.leader[g]],
   members     |-> [g \in Parties |-> IF g \in gs THEN <<>> ELSE t.members[g]],
   invitees    |-> [g \in Parties |-> IF g \in gs THEN {} ELSE t.invitees[g]]]

(* A plausible mistake: the last invitation is withdrawn, the party stays.   *)
RemoveInvitesOnly(t, gs, p) ==
  [t EXCEPT !.invitees = [g \in Parties |-> IF g \in gs THEN @[g] \ {p} ELSE @[g]],
            !.invitations[p] = @ \ gs]

(* The parties of gs no longer invite p; those that this empties disband.   *)
RemoveInvites(t, gs, p) ==
  LET inviting == {g \in gs : p \in t.invitees[g]}
      s == [t EXCEPT !.invitees = [g \in Parties |-> IF g \in gs THEN @[g] \ {p} ELSE @[g]],
                     !.invitations[p] = @ \ gs]
  IN Disband(s, {g \in inviting : Empty(s, g)})

(* A plausible mistake: the new leader stays in the list of members.         *)
PassLeadershipOnly(t, g, p) ==
  [t EXCEPT !.members[g] = <<t.leader[g]>> \o @,
            !.leader[g] = p]

PassPartyLeadership(t, g, p) ==
  [t EXCEPT !.members[g] = <<t.leader[g]>> \o RemoveFirst(@, p),
            !.leader[g] = p]

(* A plausible mistake: invitations are not counted.                        *)
OneMemberLeft(t, g, p) ==
  /\ t.leader[g] = p
  /\ Len(t.members[g]) <= 1

(* The leader's party goes with him if one player and no invitation are left.*)
MissingLeader(t, g, p) ==
  /\ t.leader[g] = p
  /\ Len(t.members[g]) = 0 \/ (Len(t.members[g]) = 1 /\ t.invitees[g] = {})

LeaveParty(t, g, p) ==
  LET led  == IF t.leader[g] = p /\ ~MissingLeader(t, g, p)
              THEN PassPartyLeadership(t, g, Head(t.members[g]))
              ELSE t
      left == [led EXCEPT !.members[g] = RemoveFirst(@, p),
                          !.party[p] = NoParty]
  IN IF MissingLeader(t, g, p) \/ Empty(left, g) THEN Disband(left, {g}) ELSE left

-----------------------------------------------------------------------------
(* The commands of players, as tasks of the dispatcher, and the events.      *)

Login(p) ==
  /\ p \notin online
  /\ online' = online \cup {p}
  /\ UNCHANGED ties

(* Player::isInviting                                                       *)
IsInviting(p, q) ==
  \E g \in Parties : /\ ties.party[p] = g
                     /\ ties.leader[g] = p
                     /\ q \in ties.invitees[g]

(* Nothing keeps a player from inviting himself.                            *)
MayInvite(p, q) ==
  /\ {p, q} \subseteq online
  /\ ~IsInviting(q, p)
  /\ ties.party[q] = NoParty

AddInvite(t, g, q) ==
  [t EXCEPT !.invitees[g] = @ \cup {q}, !.invitations[q] = @ \cup {g}]

(* playerInviteToParty, without a party: one is created.                    *)
InviteToNewParty(p, q, g) ==
  /\ MayInvite(p, q)
  /\ ties.party[p] = NoParty
  /\ ties.leader[g] = NoPlayer
  /\ ties' = AddInvite([ties EXCEPT !.leader[g] = p, !.party[p] = g], g, q)
  /\ UNCHANGED online

InviteToParty(p, q, g) ==
  /\ MayInvite(p, q)
  /\ ties.party[p] = g
  /\ ties.leader[g] = p
  /\ q \notin ties.invitees[g]
  /\ ties' = AddInvite(ties, g, q)
  /\ UNCHANGED online

JoinParty(q, p, g) ==
  /\ {p, q} \subseteq online
  /\ IsInviting(p, q)
  /\ ties.party[p] = g
  /\ ties.party[q] = NoParty
  /\ ties' = [ties EXCEPT !.invitees[g] = @ \ {q},
                          !.party[q] = g,
                          !.members[g] = Append(@, q),
                          !.invitations[q] = @ \ {g}]
  /\ UNCHANGED online

RevokeInvitation(p, q, g) ==
  /\ {p, q} \subseteq online
  /\ ties.party[p] = g
  /\ IsInviting(p, q)
  /\ ties' = RemoveInvites(ties, {g}, q)
  /\ UNCHANGED online

PassLeadership(p, q, g) ==
  /\ {p, q} \subseteq online
  /\ p # q
  /\ ties.party[p] = g
  /\ ties.leader[g] = p
  /\ ties.party[q] = g
  /\ ties' = PassPartyLeadership(ties, g, q)
  /\ UNCHANGED online

Leave(p, g) ==
  /\ p \in online
  /\ ties.party[p] = g
  /\ ties' = LeaveParty(ties, g, p)
  /\ UNCHANGED online

(* A plausible mistake: the inviting parties are not told.                   *)
Forgotten(p) == [ties EXCEPT !.invitations[p] = {}]

(* Player::onCreatureDisappear: clearPartyInvitations, then leaveParty.     *)
Cleared(p) ==
  [RemoveInvites(ties, ties.invitations[p], p) EXCEPT !.invitations[p] = {}]

LogoutAlone(p) ==
  /\ p \in online
  /\ Cleared(p).party[p] = NoParty
  /\ online' = online \ {p}
  /\ ties' = Cleared(p)

LogoutOfParty(p, g) ==
  /\ p \in online
  /\ Cleared(p).party[p] = g
  /\ online' = online \ {p}
  /\ ties' = LeaveParty(Cleared(p), g, p)

Next ==
  \E p \in Players :
    \/ Login(p)
    \/ LogoutAlone(p)
    \/ \E g \in Parties :
         \/ Leave(p, g)
         \/ LogoutOfParty(p, g)
         \/ \E q \in Players :
              \/ InviteToNewParty(p, q, g)
              \/ InviteToParty(p, q, g)
              \/ JoinParty(p, q, g)
              \/ RevokeInvitation(p, q, g)
              \/ PassLeadership(p, q, g)

Spec == Init /\ [][Next]_vars

-----------------------------------------------------------------------------
TypeOK == online \subseteq Players /\ ties \in Ties

(* A player has an invitation exactly if the inviting party lists him        *)
(* (Party::inviteList, Player::invitePartyList), which both sides change in  *)
(* methods that call each other.                                            *)
InvitesAgree ==
  \A p \in Players, g \in Parties : g \in ties.invitations[p] <=> p \in ties.invitees[g]

(* A player's party is the one that has him as leader or, once, as member:  *)
(* nobody is in two parties, or in one that was deleted (Player::party,      *)
(* Party::leader, Party::memberList).                                       *)
MembersAgree ==
  /\ \A p \in Players, g \in Parties :
       ties.party[p] = g <=> p \in InParty(ties, g)
  /\ \A g \in Parties :
       /\ ties.leader[g] \notin Range(ties.members[g])
       /\ IsInjective(ties.members[g])

(* A party that exists has a member or an invitation; one that was deleted   *)
(* has neither.  A party left empty would keep its leader from joining       *)
(* another, and would never be deleted (Party::empty).                      *)
NoEmptyParty ==
  \A g \in Parties : ties.leader[g] = NoPlayer <=> Empty(ties, g)

(* Player objects of those who logged out are deleted: no party refers to    *)
(* them, and they refer to none (Player::onCreatureDisappear).              *)
OnlineOnly ==
  \A p \in Players \ online :
    /\ ties.party[p] = NoParty
    /\ ties.invitations[p] = {}
    /\ \A g \in Parties : p \notin InParty(ties, g) \cup ties.invitees[g]

Consistent == /\ TypeOK
              /\ InvitesAgree
              /\ MembersAgree
              /\ NoEmptyParty
              /\ OnlineOnly

-----------------------------------------------------------------------------
LeaderOf == [p \in Players |->
               IF ties.party[p] = NoParty THEN NoPlayer ELSE ties.leader[ties.party[p]]]

Invites ==
  UNION {{<<ties.leader[g], p>> : g \in ties.invitations[p]} : p \in Players}

G == INSTANCE PartyGroups WITH leaderOf <- LeaderOf, invites <- Invites

(* Seen from the players, parties come and go as PartyGroups says: joining   *)
(* takes an invitation, leaders are succeeded by a member, and a party ends  *)
(* exactly when nobody is left to lead or to be led.                        *)
ImplementsPartyGroups == G!Spec

=============================================================================
