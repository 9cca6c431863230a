----------------------------- MODULE PartyGroups -----------------------------
(***************************************************************************)
(* What players can rely on about parties, without the lists that keep it: *)
(* who follows whom and who is invited by whom.  A group is named by its    *)
(* leader.  It lasts while somebody besides the leader belongs to it or is  *)
(* invited to it.                                                           *)
(***************************************************************************)
EXTENDS FiniteSets

CONSTANTS Players,   \* the players
          NoPlayer   \* the leader of those without a party

VARIABLES online,    \* the players in the game
          leaderOf,  \* the leader of each player's group, or NoPlayer
          invites    \* <<l, q>>: the group of l invites q

vars == <<online, leaderOf, invites>>

Group(l) == {q \in Players : leaderOf[q] = l}

Invited(l) == {q \in Players : <<l, q>> \in invites}

Init == /\ online = {}
        /\ leaderOf = [q \in Players |-> NoPlayer]
        /\ invites = {}

(* Groups that have become empty come to an end.                            *)
Settled(lo, inv) ==
  [q \in Players |->
     IF \/ \E r \in Players : r # lo[q] /\ lo[r] = lo[q]
        \/ \E r \in Players : <<lo[q], r>> \in inv
     THEN lo[q] ELSE NoPlayer]

(* heir takes the place of l in leaderOf lo and in the invitations inv.      *)
Follow(lo, l, heir) == [q \in Players |-> IF lo[q] = l THEN heir ELSE lo[q]]

Inherit(inv, l, heir) == {<<IF i[1] = l THEN heir ELSE i[1], i[2]>> : i \in inv}

Login(p) == /\ p \notin online
            /\ online' = online \cup {p}
            /\ UNCHANGED <<leaderOf, invites>>

(* Only players without a group can be invited, and only by a leader, which  *)
(* is what a player without a group becomes by inviting.                     *)
Invite(l, q) ==
  /\ {l, q} \subseteq online
  /\ leaderOf[q] = NoPlayer
  /\ leaderOf[l] \in {NoPlayer, l}
  /\ leaderOf' = [leaderOf EXCEPT ![l] = l]
  /\ invites' = invites \cup {<<l, q>>}
  /\ UNCHANGED online

Join(q, l) ==
  /\ <<l, q>> \in invites
  /\ leaderOf[q] = NoPlayer
  /\ leaderOf' = [leaderOf EXCEPT ![q] = l]
  /\ invites' = invites \ {<<l, q>>}
  /\ UNCHANGED online

Revoke(l, q) ==
  /\ <<l, q>> \in invites
  /\ invites' = invites \ {<<l, q>>}
  /\ leaderOf' = Settled(leaderOf, invites')
  /\ UNCHANGED online

PassLeadership(l, q) ==
  /\ leaderOf[l] = l
  /\ q \in Group(l) \ {l}
  /\ leaderOf' = Follow(leaderOf, l, q)
  /\ invites' = Inherit(invites, l, q)
  /\ UNCHANGED online

(* p leaves its group, given the groups lo and invitations inv: the others   *)
(* go on, under a new leader if p was it, unless that leaves one player and  *)
(* no invitation.                                                            *)
Goes(p, lo, inv) ==
  LET rest == {q \in Players \ {p} : lo[q] = lo[p]}
      left == [lo EXCEPT ![p] = NoPlayer]
      over == \/ rest = {}
              \/ Cardinality(rest) = 1 /\ \A q \in Players : <<lo[p], q>> \notin inv
  IN \/ /\ lo[p] = NoPlayer
        /\ leaderOf' = lo
        /\ invites' = inv
     \/ /\ lo[p] \notin {NoPlayer, p}
        /\ leaderOf' = Settled(left, inv)
        /\ invites' = inv
     \/ /\ lo[p] = p
        /\ over
        /\ leaderOf' = Follow(lo, p, NoPlayer)
        /\ invites' = {i \in inv : i[1] # p}
     \/ /\ lo[p] = p
        /\ ~over
        /\ \E heir \in rest : /\ leaderOf' = Follow(left, p, heir)
                              /\ invites' = Inherit(inv, p, heir)

Leave(p) == /\ leaderOf[p] # NoPlayer
            /\ Goes(p, leaderOf, invites)
            /\ UNCHANGED online

(* Whoever is not in the game is in no group and invited to none.           *)
Logout(p) ==
  LET kept == {i \in invites : i[2] # p}
  IN /\ p \in online
     /\ online' = online \ {p}
     /\ Goes(p, Settled(leaderOf, kept), kept)

Next ==
  \E p \in Players :
    \/ Login(p) \/ Leave(p) \/ Logout(p)
    \/ \E q \in Players :
         Invite(p, q) \/ Join(p, q) \/ Revoke(p, q) \/ PassLeadership(p, q)

Spec == Init /\ [][Next]_vars
=============================================================================
