----------------------------- MODULE PartyProofs -----------------------------
(* Proofs about Party: how its operators change ties on which both sides    *)
(* agree, that every step keeps them so, and that every step is one step of  *)
(* PartyGroups, the groups that players see.  And about PartySharing: that a *)
(* party which is to share is looked at again by every step that changes     *)
(* what CanEnable depends on, and that only members have points.            *)
EXTENDS PartySharing, TLAPS, FiniteSetTheorems

-----------------------------------------------------------------------------
(* RemoveFirst on a list without duplicates.                                *)

(* Removing a member takes away him and nobody else.                        *)
LEMMA RemoveFirstFacts ==
  ASSUME NEW S, NEW s \in Seq(S), IsInjective(s), NEW x
  PROVE  /\ RemoveFirst(s, x) \in Seq(S)
         /\ IsInjective(RemoveFirst(s, x))
         /\ Range(RemoveFirst(s, x)) = Range(s) \ {x}
<1>1. CASE ~\E i \in 1..Len(s) : s[i] = x
  BY <1>1 DEF RemoveFirst, Range
<1>2. CASE \E i \in 1..Len(s) : s[i] = x
  <2> DEFINE I == {i \in 1..Len(s) : s[i] = x}
             k == SelectInSeq(s, LAMBDA v : v = x)
             r == RemoveFirst(s, x)
  <2>1. PICK j \in 1..Len(s) : I = {j} /\ s[j] = x
    BY <1>2 DEF IsInjective
  <2>2. k = j
    BY <2>1, Min(I) = j DEF SelectInSeq, Min
  <2>3. r = RemoveAt(s, j)
    BY <1>2, <2>2 DEF RemoveFirst
  <2>4. r = SubSeq(s, 1, j - 1) \o SubSeq(s, j + 1, Len(s))
    BY <2>3 DEF RemoveAt
  <2> HIDE DEF r, k
  <2>5. /\ r \in Seq(S)
        /\ Len(r) = Len(s) - 1
        /\ \A i \in 1..(Len(s) - 1) : r[i] = IF i < j THEN s[i] ELSE s[i + 1]
    <3> DEFINE lo == SubSeq(s, 1, j - 1)
               hi == SubSeq(s, j + 1, Len(s))
    <3>1. lo \in Seq(S) /\ Len(lo) = j - 1 /\ \A i \in 1..(j - 1) : lo[i] = s[i]
      OBVIOUS
    <3>2. hi \in Seq(S) /\ Len(hi) = Len(s) - j /\ \A i \in 1..(Len(s) - j) : hi[i] = s[i + j]
      OBVIOUS
    <3> HIDE DEF lo, hi
    <3>3. r = lo \o hi
      BY <2>4 DEF lo, hi
    <3>4. r \in Seq(S) /\ Len(r) = Len(s) - 1
      BY <3>1, <3>2, <3>3
    <3>5. ASSUME NEW i \in 1..(Len(s) - 1), i < j PROVE r[i] = s[i]
      BY <3>1, <3>2, <3>3, <3>5
    <3>6. ASSUME NEW i \in 1..(Len(s) - 1), ~(i < j) PROVE r[i] = s[i + 1]
      <4>1. r[i] = hi[i - (j - 1)]
        BY <3>1, <3>2, <3>3, <3>6
      <4>2. i - (j - 1) \in 1..(Len(s) - j) /\ i - (j - 1) + j = i + 1
        BY <3>6
      <4> QED BY <3>2, <4>1, <4>2
    <3> QED BY <3>4, <3>5, <3>6
  <2>6. IsInjective(r)
    <3> SUFFICES ASSUME NEW a \in 1..(Len(s) - 1), NEW b \in 1..(Len(s) - 1), r[a] = r[b]
                 PROVE  a = b
      BY <2>5 DEF IsInjective
    <3>1. /\ r[a] = s[IF a < j THEN a ELSE a + 1]
          /\ r[b] = s[IF b < j THEN b ELSE b + 1]
      BY <2>5
    <3> DEFINE c == IF a < j THEN a ELSE a + 1
               d == IF b < j THEN b ELSE b + 1
    <3>0. c \in 1..Len(s) /\ d \in 1..Len(s)
      OBVIOUS
    <3>2. s[c] = s[d]
      <4>1. r[a] = s[c]
        BY <3>1
      <4>2. r[b] = s[d]
        BY <3>1
      <4> QED BY <4>1, <4>2
    <3>3. c = d
      BY <3>0, <3>2 DEF IsInjective
    <3> QED BY <3>3
  <2>7. Range(r) \subseteq Range(s) \ {x}
    <3> SUFFICES ASSUME NEW a \in 1..(Len(s) - 1)
                 PROVE  r[a] \in Range(s) /\ r[a] # x
      BY <2>5 DEF Range
    <3> DEFINE c == IF a < j THEN a ELSE a + 1
    <3>1. c \in 1..Len(s) /\ c # j /\ r[a] = s[c]
      BY <2>5
    <3>2. c \notin I
      BY <2>1, <3>1
    <3> QED BY <3>1, <3>2 DEF Range
  <2>8. Range(s) \ {x} \subseteq Range(r)
    <3> SUFFICES ASSUME NEW c \in 1..Len(s), s[c] # x
                 PROVE  \E a \in 1..(Len(s) - 1) : r[a] = s[c]
      BY <2>5 DEF Range
    <3>1. c # j
      BY <2>1
    <3>2. CASE c < j
      BY <2>5, <3>2
    <3>3. CASE c > j
      <4>1. r[c - 1] = s[c]
        BY <2>5, <3>3
      <4> QED BY <3>3, <4>1
    <3> QED BY <3>1, <3>2, <3>3
  <2> QED BY <2>5, <2>6, <2>7, <2>8 DEF r
<1> QED BY <1>1, <1>2

(* The old leader becomes the first member.                                 *)
LEMMA PrependFacts ==
  ASSUME NEW S, NEW s \in Seq(S), NEW x \in S
  PROVE  /\ <<x>> \o s \in Seq(S)
         /\ <<x>> \o s # <<>>
         /\ Range(<<x>> \o s) = {x} \cup Range(s)
         /\ IsInjective(s) /\ x \notin Range(s) => IsInjective(<<x>> \o s)
<1> DEFINE r == <<x>> \o s
<1>1. r \in Seq(S) /\ Len(r) = Len(s) + 1
  OBVIOUS
<1>2. r[1] = x
  OBVIOUS
<1>3. \A i \in 1..Len(s) : r[i + 1] = s[i]
  OBVIOUS
<1> HIDE DEF r
<1>4. \A i \in 2..Len(r) : i - 1 \in 1..Len(s) /\ r[i] = s[i - 1]
  BY <1>1, <1>3
<1>5. Range(r) \subseteq {x} \cup Range(s)
  BY <1>1, <1>2, <1>4 DEF Range
<1>6. {x} \cup Range(s) \subseteq Range(r)
  <2>1. x \in Range(r)
    BY <1>1, <1>2 DEF Range
  <2>2. \A i \in 1..Len(s) : i + 1 \in DOMAIN r /\ r[i + 1] = s[i]
    BY <1>1, <1>3
  <2> QED BY <2>1, <2>2 DEF Range
<1>7. ASSUME IsInjective(s), x \notin Range(s) PROVE IsInjective(r)
  <2> SUFFICES ASSUME NEW a \in 1..Len(r), NEW b \in 1..Len(r), r[a] = r[b] PROVE a = b
    BY <1>1 DEF IsInjective
  <2>1. CASE a = 1 /\ b = 1
    BY <2>1
  <2>2. CASE a = 1 /\ b # 1
    BY <1>1, <1>2, <1>4, <1>7, <2>2 DEF Range
  <2>3. CASE a # 1 /\ b = 1
    BY <1>1, <1>2, <1>4, <1>7, <2>3 DEF Range
  <2>4. CASE a # 1 /\ b # 1
    <3>1. a - 1 \in 1..Len(s) /\ b - 1 \in 1..Len(s) /\ s[a - 1] = s[b - 1]
      BY <1>1, <1>4, <2>4
    <3>2. a - 1 = b - 1
      BY <1>7, <3>1 DEF IsInjective
    <3> QED BY <3>2
  <2> QED BY <2>1, <2>2, <2>3, <2>4
<1>8. r # <<>>
  BY <1>1
<1> QED BY <1>1, <1>5, <1>6, <1>7, <1>8 DEF r

(* Who joins becomes the last member.                                       *)
LEMMA AppendFacts ==
  ASSUME NEW S, NEW s \in Seq(S), NEW x \in S
  PROVE  /\ Append(s, x) \in Seq(S)
         /\ Append(s, x) # <<>>
         /\ Range(Append(s, x)) = Range(s) \cup {x}
         /\ IsInjective(s) /\ x \notin Range(s) => IsInjective(Append(s, x))
<1> DEFINE r == Append(s, x)
<1>1. r \in Seq(S) /\ Len(r) = Len(s) + 1
  OBVIOUS
<1>2. r[Len(s) + 1] = x
  OBVIOUS
<1>3. \A i \in 1..Len(s) : r[i] = s[i]
  OBVIOUS
<1> HIDE DEF r
<1>4. DOMAIN r = 1..Len(s) \cup {Len(s) + 1}
  BY <1>1
<1>5. Range(r) = Range(s) \cup {x}
  <2>1. Range(r) \subseteq Range(s) \cup {x}
    BY <1>2, <1>3, <1>4 DEF Range
  <2>2. Range(s) \subseteq Range(r)
    BY <1>3, <1>4 DEF Range
  <2>3. x \in Range(r)
    BY <1>2, <1>4 DEF Range
  <2> QED BY <2>1, <2>2, <2>3
<1>6. ASSUME IsInjective(s), x \notin Range(s) PROVE IsInjective(r)
  BY <1>2, <1>3, <1>4, <1>6 DEF IsInjective, Range
<1>7. r # <<>>
  BY <1>1
<1> QED BY <1>1, <1>5, <1>6, <1>7 DEF r
-----------------------------------------------------------------------------
(* The parts of Consistent as predicates on ties t.  NearlyAgree allows a    *)
(* player to have left a party of gs that is about to be disbanded.          *)

Mirrored(t) == \A p \in Players, g \in Parties : g \in t.invitations[p] <=> p \in t.invitees[g]

ListsOK(t) == \A g \in Parties : /\ t.leader[g] \notin Range(t.members[g])
                                 /\ IsInjective(t.members[g])

NearlyAgree(t, gs) ==
  /\ t \in Ties
  /\ Mirrored(t)
  /\ ListsOK(t)
  /\ \A p \in Players, g \in Parties :
       /\ t.party[p] = g => p \in InParty(t, g)
       /\ p \in InParty(t, g) => t.party[p] = g \/ (g \in gs /\ t.party[p] = NoParty)

NoneEmpty(t, gs) == \A g \in gs : t.leader[g] = NoPlayer <=> Empty(t, g)

Agree(t) == NearlyAgree(t, {}) /\ NoneEmpty(t, Parties)

(* Agree says what the properties of Party say of the ties.                 *)
LEMMA AgreeConsistent ==
  Consistent <=> /\ online \subseteq Players
                 /\ Agree(ties)
                 /\ OnlineOnly
  BY DEF Consistent, TypeOK, InvitesAgree, MembersAgree, NoEmptyParty, Agree,
         NearlyAgree, NoneEmpty, Mirrored, ListsOK

(* The players of a party are players, except for its leader once deleted.   *)
LEMMA InPartyFacts ==
  ASSUME NEW t \in Ties, NEW g \in Parties
  PROVE  /\ Range(t.members[g]) \subseteq Players
         /\ \A p \in Players : p \in InParty(t, g) <=>
                                 p = t.leader[g] \/ p \in Range(t.members[g])
<1>1. t.members[g] \in Seq(Players)
  BY DEF Ties
<1> QED BY <1>1 DEF Range, InParty

(* Who is in a party that exists.                                           *)
LEMMA MemberFacts ==
  ASSUME NEW t, Agree(t), NEW g \in Parties, NEW p \in Players
  PROVE  /\ t.party[p] = g <=> p \in InParty(t, g)
         /\ p \in InParty(t, g) => t.leader[g] # NoPlayer
<1>1. t.party[p] = g <=> p \in InParty(t, g)
  BY DEF Agree, NearlyAgree
<1>2. ASSUME t.leader[g] = NoPlayer  PROVE  p \notin InParty(t, g)
  <2>1. t.members[g] = <<>>
    BY <1>2 DEF Agree, NoneEmpty, Empty
  <2>2. InParty(t, g) = {NoPlayer}
    BY <1>2, <2>1 DEF InParty, Range
  <2> QED BY <2>2, NullAssumption
<1> QED BY <1>1, <1>2

(* Nobody is left in a party that was disbanded, and nobody else is touched. *)
LEMMA DisbandFacts ==
  ASSUME NEW t, NEW gs \in SUBSET Parties, NearlyAgree(t, gs), NoneEmpty(t, Parties \ gs)
  PROVE  LET u == Disband(t, gs)
         IN /\ Agree(u)
            /\ \A p \in Players :
                 /\ u.party[p] \in {t.party[p], NoParty}
                 /\ u.invitations[p] \subseteq t.invitations[p]
<1> DEFINE u == Disband(t, gs)
<1> USE NullAssumption
<1>1. t \in Ties
  BY DEF NearlyAgree
<1>2. u \in Ties
  <2>1. \A p \in Players : t.party[p] \in Parties \cup {NoParty}
    BY <1>1 DEF Ties
  <2>2. u.party \in [Players -> Parties \cup {NoParty}]
    BY <2>1 DEF Disband
  <2>3. u.invitations \in [Players -> SUBSET Parties]
    BY <1>1 DEF Ties, Disband
  <2>4. u.leader \in [Parties -> Players \cup {NoPlayer}]
    BY <1>1 DEF Ties, Disband
  <2>5. u.members \in [Parties -> Seq(Players)]
    <3>1. <<>> \in Seq(Players)
      OBVIOUS
    <3>2. \A g \in Parties : t.members[g] \in Seq(Players)
      BY <1>1 DEF Ties
    <3> QED BY <3>1, <3>2 DEF Disband
  <2>6. u.invitees \in [Parties -> SUBSET Players]
    BY <1>1 DEF Ties, Disband
  <2> QED BY <2>2, <2>3, <2>4, <2>5, <2>6 DEF Ties, Disband
<1>3. Mirrored(u)
  BY <1>1 DEF NearlyAgree, Mirrored, Disband, Ties
<1>4. \A g \in Parties : /\ g \in gs => u.leader[g] = NoPlayer /\ u.members[g] = <<>>
                         /\ g \notin gs => /\ u.leader[g] = t.leader[g]
                                           /\ u.members[g] = t.members[g]
                                           /\ u.invitees[g] = t.invitees[g]
  BY DEF Disband
<1>5. Range(<<>>) = {} /\ IsInjective(<<>>)
  BY DEF Range, IsInjective
<1>6. ListsOK(u)
  BY <1>4, <1>5 DEF ListsOK, NearlyAgree
<1>7. ASSUME NEW p \in Players
      PROVE  /\ t.party[p] \in gs => u.party[p] = NoParty
             /\ t.party[p] \notin gs => u.party[p] = t.party[p]
  <2>1. t.party[p] \in Parties \cup {NoParty}
    BY <1>1 DEF Ties
  <2>2. u.party[p] = IF \E g \in gs : p \in InParty(t, g) THEN NoParty ELSE t.party[p]
    BY DEF Disband
  <2>3. t.party[p] \in gs => \E g \in gs : p \in InParty(t, g)
    BY <2>1 DEF NearlyAgree
  <2>4. (\E g \in gs : p \in InParty(t, g)) => t.party[p] \in gs \cup {NoParty}
    BY DEF NearlyAgree
  <2> QED BY <2>1, <2>2, <2>3, <2>4
<1>8. ASSUME NEW p \in Players, NEW g \in Parties
      PROVE  /\ u.party[p] = g => p \in InParty(u, g)
             /\ p \in InParty(u, g) => u.party[p] = g
  <2>1. CASE g \in gs
    <3>1. p \notin InParty(u, g)
      BY <1>4, <1>5, <2>1 DEF InParty
    <3>2. u.party[p] # g
      BY <1>7, <2>1
    <3> QED BY <3>1, <3>2
  <2>2. CASE g \notin gs
    <3>1. InParty(u, g) = InParty(t, g)
      BY <1>4, <2>2 DEF InParty
    <3>2. t.party[p] = g <=> p \in InParty(t, g)
      BY <2>2 DEF NearlyAgree
    <3>3. u.party[p] = g <=> t.party[p] = g
      BY <1>7, <2>2
    <3> QED BY <3>1, <3>2, <3>3
  <2> QED BY <2>1, <2>2
<1>9. NoneEmpty(u, Parties)
  <2> SUFFICES ASSUME NEW g \in Parties PROVE u.leader[g] = NoPlayer <=> Empty(u, g)
    BY DEF NoneEmpty
  <2>1. CASE g \in gs
    BY <2>1 DEF Disband, Empty
  <2>2. CASE g \notin gs
    BY <1>4, <2>2 DEF NoneEmpty, Empty
  <2> QED BY <2>1, <2>2
<1>10. \A p \in Players : u.invitations[p] \subseteq t.invitations[p]
  BY DEF Disband
<1>11. \A p \in Players : u.party[p] \in {t.party[p], NoParty}
  BY <1>7
<1>12. Agree(u)
  BY <1>2, <1>3, <1>6, <1>8, <1>9 DEF Agree, NearlyAgree
<1> QED BY <1>10, <1>11, <1>12

(* Withdrawing invitations, which may end parties, keeps agreement.         *)
LEMMA RemoveInvitesFacts ==
  ASSUME NEW t, Agree(t), NEW p \in Players, NEW gs \in SUBSET Parties
  PROVE  LET u == RemoveInvites(t, gs, p)
         IN /\ Agree(u)
            /\ \A q \in Players :
                 /\ u.party[q] \in {t.party[q], NoParty}
                 /\ u.invitations[q] \subseteq t.invitations[q]
            /\ u.invitations[p] \cap gs = {}
<1> DEFINE s == [t EXCEPT !.invitees = [g \in Parties |-> IF g \in gs THEN @[g] \ {p} ELSE @[g]],
                          !.invitations[p] = @ \ gs]
           ends == {g \in {h \in gs : p \in t.invitees[h]} : Empty(s, g)}
<1>1. t \in Ties
  BY DEF Agree, NearlyAgree
<1>2. /\ s.party = t.party
      /\ s.leader = t.leader
      /\ s.members = t.members
      /\ s.invitees = [g \in Parties |-> IF g \in gs THEN t.invitees[g] \ {p} ELSE t.invitees[g]]
      /\ s.invitations = [t.invitations EXCEPT ![p] = @ \ gs]
  BY <1>1 DEF Ties
<1>3. s \in Ties
  BY <1>1 DEF Ties
<1>4. RemoveInvites(t, gs, p) = Disband(s, ends)
  BY DEF RemoveInvites
<1> HIDE DEF s
<1>5. Mirrored(s)
  BY <1>1, <1>2 DEF Agree, NearlyAgree, Mirrored, Ties
<1>6. ListsOK(s) /\ \A g \in Parties : InParty(s, g) = InParty(t, g)
  BY <1>2 DEF Agree, NearlyAgree, ListsOK, InParty
<1>7. NearlyAgree(s, ends)
  BY <1>2, <1>3, <1>5, <1>6 DEF Agree, NearlyAgree
<1>8. NoneEmpty(s, Parties \ ends)
  <2> SUFFICES ASSUME NEW g \in Parties \ ends PROVE s.leader[g] = NoPlayer <=> Empty(s, g)
    BY DEF NoneEmpty
  <2>1. t.leader[g] = NoPlayer <=> Empty(t, g)
    BY DEF Agree, NoneEmpty
  <2>2. CASE g \in gs /\ p \in t.invitees[g]
    BY <1>2, <2>1, <2>2 DEF Empty
  <2>3. CASE ~(g \in gs /\ p \in t.invitees[g])
    <3>1. g \in gs => t.invitees[g] \ {p} = t.invitees[g]
      BY <2>3
    <3>2. s.invitees[g] = t.invitees[g]
      BY <1>2, <3>1
    <3> QED BY <1>2, <2>1, <3>2 DEF Empty
  <2> QED BY <2>2, <2>3
<1>9. LET u == Disband(s, ends)
      IN /\ Agree(u)
         /\ \A q \in Players : /\ u.party[q] \in {s.party[q], NoParty}
                               /\ u.invitations[q] \subseteq s.invitations[q]
  <2>1. ends \in SUBSET Parties
    OBVIOUS
  <2> HIDE DEF ends
  <2> QED BY <1>7, <1>8, <2>1, DisbandFacts
<1>10. /\ \A q \in Players : s.invitations[q] \subseteq t.invitations[q]
       /\ s.invitations[p] \cap gs = {}
  BY <1>1, <1>2 DEF Ties
<1> HIDE DEF ends
<1> QED BY <1>2, <1>4, <1>9, <1>10
(* A member takes the lead: nobody joins or leaves the party by that.        *)
LEMMA PassPartyLeadershipFacts ==
  ASSUME NEW t, Agree(t), NEW g \in Parties, t.leader[g] \in Players,
         NEW h \in Range(t.members[g])
  PROVE  LET u == PassPartyLeadership(t, g, h)
         IN /\ Agree(u)
            /\ u.party = t.party
            /\ u.invitations = t.invitations
            /\ u.invitees = t.invitees
            /\ u.leader[g] = h
            /\ u.leader[g] # t.leader[g]
            /\ Range(u.members[g]) = {t.leader[g]} \cup (Range(t.members[g]) \ {h})
<1> DEFINE u == PassPartyLeadership(t, g, h)
           rest == RemoveFirst(t.members[g], h)
<1>1. t \in Ties /\ t.members[g] \in Seq(Players) /\ IsInjective(t.members[g])
  BY DEF Agree, NearlyAgree, Ties, ListsOK
<1>2. rest \in Seq(Players) /\ IsInjective(rest) /\ Range(rest) = Range(t.members[g]) \ {h}
  BY <1>1, RemoveFirstFacts
<1>3. t.leader[g] \notin Range(rest) /\ h # t.leader[g] /\ h \in Players
  BY <1>1, <1>2, InPartyFacts DEF Agree, NearlyAgree, ListsOK
<1> HIDE DEF rest
<1> DEFINE new == <<t.leader[g]>> \o rest
<1>4. /\ new \in Seq(Players)
      /\ new # <<>>
      /\ Range(new) = {t.leader[g]} \cup Range(rest)
      /\ IsInjective(new)
  BY <1>2, <1>3, PrependFacts
<1> HIDE DEF new
<1>5. /\ u \in Ties
      /\ u.party = t.party
      /\ u.invitations = t.invitations
      /\ u.invitees = t.invitees
      /\ u.leader = [t.leader EXCEPT ![g] = h]
      /\ u.members = [t.members EXCEPT ![g] = new]
  BY <1>1, <1>3, <1>4 DEF Ties, PassPartyLeadership, new, rest
<1> HIDE DEF u
<1>6. /\ u.leader[g] = h
      /\ u.members[g] = new
      /\ \A f \in Parties \ {g} : u.leader[f] = t.leader[f] /\ u.members[f] = t.members[f]
  BY <1>1, <1>5 DEF Ties
<1>7. Mirrored(u)
  BY <1>5 DEF Agree, NearlyAgree, Mirrored
<1>8. h \notin Range(new)
  BY <1>2, <1>3, <1>4
<1>9. ListsOK(u)
  BY <1>4, <1>6, <1>8 DEF Agree, NearlyAgree, ListsOK
<1>10. \A f \in Parties : InParty(u, f) = InParty(t, f)
  <2>1. InParty(u, g) = InParty(t, g)
    BY <1>2, <1>4, <1>6 DEF InParty
  <2>2. \A f \in Parties \ {g} : InParty(u, f) = InParty(t, f)
    BY <1>6 DEF InParty
  <2> QED BY <2>1, <2>2
<1>11. NoneEmpty(u, Parties)
  <2> SUFFICES ASSUME NEW f \in Parties PROVE u.leader[f] = NoPlayer <=> Empty(u, f)
    BY DEF NoneEmpty
  <2>1. CASE f = g
    BY <1>3, <1>4, <1>6, <2>1, NullAssumption DEF Empty
  <2>2. CASE f # g
    BY <1>5, <1>6, <2>2 DEF Empty, Agree, NoneEmpty
  <2> QED BY <2>1, <2>2
<1>12. Agree(u)
  BY <1>5, <1>7, <1>9, <1>10, <1>11 DEF Agree, NearlyAgree
<1>13. Range(u.members[g]) = {t.leader[g]} \cup (Range(t.members[g]) \ {h})
  BY <1>2, <1>4, <1>6
<1> QED BY <1>3, <1>5, <1>6, <1>12, <1>13 DEF u

(* Whoever leaves is gone, others at most lose a party that ends.            *)
LEMMA LeavePartyFacts ==
  ASSUME NEW t, Agree(t), NEW g \in Parties, NEW p \in Players, t.party[p] = g
  PROVE  LET u == LeaveParty(t, g, p)
         IN /\ Agree(u)
            /\ u.party[p] = NoParty
            /\ \A q \in Players : /\ u.party[q] \in {t.party[q], NoParty}
                                  /\ u.invitations[q] \subseteq t.invitations[q]
<1> DEFINE led == IF t.leader[g] = p /\ ~MissingLeader(t, g, p)
                  THEN PassPartyLeadership(t, g, Head(t.members[g]))
                  ELSE t
           left == [led EXCEPT !.members[g] = RemoveFirst(@, p), !.party[p] = NoParty]
           over == MissingLeader(t, g, p) \/ Empty(left, g)
<1> USE NullAssumption
<1>1. LeaveParty(t, g, p) = IF over THEN Disband(left, {g}) ELSE left
  BY DEF LeaveParty
<1>2. t \in Ties /\ p \in InParty(t, g) /\ t.members[g] \in Seq(Players)
  BY DEF Agree, NearlyAgree, Ties
<1>3. /\ Agree(led)
      /\ led.party = t.party
      /\ led.invitations = t.invitations
      /\ led.leader[g] \in Players
      /\ led.leader[g] = p <=> MissingLeader(t, g, p)
  <2>1. CASE t.leader[g] = p /\ ~MissingLeader(t, g, p)
    <3>1. t.members[g] # <<>>
      BY <1>2, <2>1 DEF MissingLeader
    <3>2. Head(t.members[g]) \in Range(t.members[g])
      BY <1>2, <3>1 DEF Range
    <3>3. Head(t.members[g]) \in Players
      BY <1>2, <3>1
    <3> QED BY <2>1, <3>2, <3>3, PassPartyLeadershipFacts
  <2>2. CASE t.leader[g] = p /\ MissingLeader(t, g, p)
    BY <2>2
  <2>3. CASE t.leader[g] # p
    <3>1. t.members[g] # <<>>
      BY <1>2, <2>3 DEF InParty, Range
    <3>2. t.leader[g] \in Players
      BY <1>2, <3>1 DEF Agree, NoneEmpty, Empty, Ties
    <3> QED BY <2>3, <3>2 DEF MissingLeader
  <2> QED BY <2>1, <2>2, <2>3
<1> HIDE DEF led
<1>4. /\ led \in Ties
      /\ led.members[g] \in Seq(Players)
      /\ IsInjective(led.members[g])
      /\ p \in InParty(led, g)
      /\ led.party[p] = g
  BY <1>3 DEF Agree, NearlyAgree, Ties, ListsOK
<1> DEFINE rest == RemoveFirst(led.members[g], p)
<1>5. rest \in Seq(Players) /\ IsInjective(rest) /\ Range(rest) = Range(led.members[g]) \ {p}
  BY <1>4, RemoveFirstFacts
<1> HIDE DEF rest
<1>6. /\ left \in Ties
      /\ left.party = [led.party EXCEPT ![p] = NoParty]
      /\ left.invitations = led.invitations
      /\ left.invitees = led.invitees
      /\ left.leader = led.leader
      /\ left.members = [led.members EXCEPT ![g] = rest]
  BY <1>4, <1>5 DEF Ties, rest
<1> HIDE DEF left
<1>7. /\ left.members[g] = rest
      /\ \A f \in Parties \ {g} : left.members[f] = led.members[f]
      /\ left.party[p] = NoParty
      /\ \A q \in Players \ {p} : left.party[q] = led.party[q]
  BY <1>4, <1>6 DEF Ties
<1>8. Mirrored(left)
  BY <1>3, <1>6 DEF Agree, NearlyAgree, Mirrored
<1>9. ListsOK(left)
  BY <1>3, <1>5, <1>6, <1>7 DEF Agree, NearlyAgree, ListsOK
<1>10. /\ InParty(left, g) = {led.leader[g]} \cup (Range(led.members[g]) \ {p})
       /\ \A f \in Parties \ {g} : InParty(left, f) = InParty(led, f)
  BY <1>5, <1>6, <1>7 DEF InParty
<1>11. \A q \in Players, f \in Parties : led.party[q] = f <=> q \in InParty(led, f)
  BY <1>3 DEF Agree, NearlyAgree
<1>12. ASSUME NEW q \in Players, NEW f \in Parties
       PROVE  /\ left.party[q] = f => q \in InParty(left, f)
              /\ q \in InParty(left, f) =>
                   \/ left.party[q] = f
                   \/ f = g /\ q = p /\ MissingLeader(t, g, p) /\ left.party[q] = NoParty
  <2>1. CASE q = p
    <3>1. f # g => p \notin InParty(left, f)
      BY <1>4, <1>10, <1>11
    <3>2. p \in InParty(left, g) => MissingLeader(t, g, p)
      BY <1>3, <1>10
    <3> QED BY <1>7, <2>1, <3>1, <3>2
  <2>2. CASE q # p
    <3>1. q \in InParty(left, f) <=> q \in InParty(led, f)
      BY <1>10, <2>2 DEF InParty
    <3> QED BY <1>7, <1>11, <2>2, <3>1
  <2> QED BY <2>1, <2>2
<1>13. NearlyAgree(left, {g})
  <2>1. \A q \in Players, f \in Parties :
          /\ left.party[q] = f => q \in InParty(left, f)
          /\ q \in InParty(left, f) => left.party[q] = f \/ (f \in {g} /\ left.party[q] = NoParty)
    BY <1>12
  <2> QED BY <1>6, <1>8, <1>9, <2>1 DEF NearlyAgree
<1>14. NoneEmpty(left, Parties \ {g})
  BY <1>3, <1>6, <1>7 DEF Agree, NoneEmpty, Empty
<1>15. /\ \A q \in Players : left.party[q] \in {t.party[q], NoParty}
       /\ \A q \in Players : left.invitations[q] = t.invitations[q]
  BY <1>3, <1>6, <1>7
<1> HIDE DEF over
<1>16. CASE over
  <2> DEFINE u == Disband(left, {g})
  <2>1. /\ Agree(u)
        /\ \A q \in Players : /\ u.party[q] \in {left.party[q], NoParty}
                              /\ u.invitations[q] \subseteq left.invitations[q]
    BY <1>13, <1>14, DisbandFacts
  <2> HIDE DEF u
  <2>2. LeaveParty(t, g, p) = u
    BY <1>1, <1>16 DEF u
  <2> QED BY <1>7, <1>15, <2>1, <2>2
<1>17. CASE ~over
  <2>1. LeaveParty(t, g, p) = left
    BY <1>1, <1>17
  <2>2. NearlyAgree(left, {})
    <3>1. \A q \in Players, f \in Parties :
            /\ left.party[q] = f => q \in InParty(left, f)
            /\ q \in InParty(left, f) => left.party[q] = f
      BY <1>12, <1>17 DEF over
    <3> QED BY <1>6, <1>8, <1>9, <3>1 DEF NearlyAgree
  <2>3. NoneEmpty(left, Parties)
    <3>1. left.leader[g] # NoPlayer /\ ~Empty(left, g)
      BY <1>3, <1>6, <1>17 DEF over
    <3> QED BY <1>14, <3>1 DEF NoneEmpty
  <2> QED BY <1>7, <1>15, <2>1, <2>2, <2>3 DEF Agree
<1> QED BY <1>16, <1>17
-----------------------------------------------------------------------------
(* What each of them does to the parties, one by one.                       *)

SameParty(t, u, g) ==
  u.leader[g] = t.leader[g] /\ u.members[g] = t.members[g] /\ u.invitees[g] = t.invitees[g]

Deleted(u, g) == u.leader[g] = NoPlayer /\ u.members[g] = <<>> /\ u.invitees[g] = {}

(* The parties that disband are deleted, the others stay as they are.       *)
LEMMA DisbandEffect ==
  ASSUME NEW t, NEW gs, NEW g \in Parties
  PROVE  /\ g \in gs => Deleted(Disband(t, gs), g)
         /\ g \notin gs => SameParty(t, Disband(t, gs), g)
  BY DEF Disband, Deleted, SameParty

(* The invitations that party g keeps when those of gs no longer invite p.   *)
Kept(t, gs, p, g) == IF g \in gs THEN t.invitees[g] \ {p} ELSE t.invitees[g]

(* A party loses the invitation, and its leader if nothing else is left.     *)
LEMMA RemoveInvitesEffect ==
  ASSUME NEW t, Agree(t), NEW p \in Players, NEW gs \in SUBSET Parties, NEW g \in Parties
  PROVE  /\ t.members[g] = <<>> /\ Kept(t, gs, p, g) = {} =>
              Deleted(RemoveInvites(t, gs, p), g)
         /\ t.members[g] # <<>> \/ Kept(t, gs, p, g) # {} =>
              /\ RemoveInvites(t, gs, p).leader[g] = t.leader[g]
              /\ RemoveInvites(t, gs, p).members[g] = t.members[g]
              /\ RemoveInvites(t, gs, p).invitees[g] = Kept(t, gs, p, g)
<1> DEFINE s == [t EXCEPT !.invitees = [f \in Parties |-> IF f \in gs THEN @[f] \ {p} ELSE @[f]],
                          !.invitations[p] = @ \ gs]
           ends == {f \in {h \in gs : p \in t.invitees[h]} : Empty(s, f)}
           u == RemoveInvites(t, gs, p)
           kept == IF g \in gs THEN t.invitees[g] \ {p} ELSE t.invitees[g]
<1>1. t \in Ties
  BY DEF Agree, NearlyAgree
<1>2. /\ s.leader[g] = t.leader[g]
      /\ s.members[g] = t.members[g]
      /\ s.invitees[g] = kept
  BY <1>1 DEF Ties
<1>3. u = Disband(s, ends)
  BY DEF RemoveInvites
<1> HIDE DEF s, u
<1>4. g \in ends <=> g \in gs /\ p \in t.invitees[g] /\ t.members[g] = <<>> /\ kept = {}
  BY <1>2 DEF Empty
<1> HIDE DEF ends
<1>5. /\ g \in ends => Deleted(u, g)
      /\ g \notin ends => SameParty(s, u, g)
  BY <1>3, DisbandEffect
<1>6. ASSUME t.members[g] = <<>>, kept = {}  PROVE  Deleted(u, g)
  <2>1. CASE g \notin ends
    <3>1. Empty(t, g)
      BY <1>4, <1>6, <2>1 DEF Empty
    <3>2. t.leader[g] = NoPlayer
      BY <3>1 DEF Agree, NoneEmpty
    <3> QED BY <1>2, <1>5, <1>6, <2>1, <3>2 DEF SameParty, Deleted
  <2> QED BY <1>5, <2>1
<1>7. t.members[g] # <<>> \/ kept # {} =>
        /\ u.leader[g] = t.leader[g]
        /\ u.members[g] = t.members[g]
        /\ u.invitees[g] = kept
  BY <1>2, <1>4, <1>5 DEF SameParty
<1> QED BY <1>6, <1>7 DEF u, Kept

(* The party ends when p leaves.                                            *)
Ends(t, g, p) ==
  \/ MissingLeader(t, g, p)
  \/ t.leader[g] # p /\ Range(t.members[g]) = {p} /\ t.invitees[g] = {}

(* A party without its leader: the first member leads, or the party ends.    *)
LEMMA LeavePartyEffect ==
  ASSUME NEW t, Agree(t), NEW g \in Parties, NEW p \in Players, t.party[p] = g
  PROVE  LET u == LeaveParty(t, g, p)
         IN /\ \A f \in Parties \ {g} : SameParty(t, u, f)
            /\ Ends(t, g, p) => Deleted(u, g)
            /\ ~Ends(t, g, p) =>
                 /\ u.leader[g] = IF t.leader[g] = p THEN Head(t.members[g]) ELSE t.leader[g]
                 /\ u.leader[g] \in Players \ {p}
                 /\ t.leader[g] = p => Head(t.members[g]) \in Range(t.members[g])
                 /\ Range(u.members[g]) = InParty(t, g) \ {p, u.leader[g]}
                 /\ u.invitees[g] = t.invitees[g]
<1> DEFINE passed == PassPartyLeadership(t, g, Head(t.members[g]))
           led == IF t.leader[g] = p /\ ~MissingLeader(t, g, p) THEN passed ELSE t
           left == [led EXCEPT !.members[g] = RemoveFirst(@, p), !.party[p] = NoParty]
           u == LeaveParty(t, g, p)
           next == IF t.leader[g] = p THEN Head(t.members[g]) ELSE t.leader[g]
<1> USE NullAssumption
<1>1. u = IF MissingLeader(t, g, p) \/ Empty(left, g) THEN Disband(left, {g}) ELSE left
  BY DEF LeaveParty
<1>2. /\ t \in Ties /\ p \in InParty(t, g) /\ t.members[g] \in Seq(Players)
      /\ IsInjective(t.members[g]) /\ t.leader[g] \notin Range(t.members[g])
  BY DEF Agree, NearlyAgree, Ties, ListsOK
<1>3. t.leader[g] \in Players
  <2>1. CASE t.leader[g] = p
    BY <2>1
  <2>2. CASE t.leader[g] # p
    <3>1. t.members[g] # <<>>
      BY <1>2, <2>2 DEF InParty, Range
    <3> QED BY <1>2, <3>1 DEF Agree, NoneEmpty, Empty, Ties
  <2> QED BY <2>1, <2>2
<1>4. Range(t.members[g]) \subseteq Players
  BY <1>2, InPartyFacts
<1>5. ASSUME t.leader[g] = p, ~MissingLeader(t, g, p)
      PROVE  /\ Head(t.members[g]) \in Range(t.members[g])
             /\ Head(t.members[g]) \in Players
             /\ Agree(passed)
             /\ passed.leader[g] = Head(t.members[g])
             /\ Range(passed.members[g]) = {p} \cup (Range(t.members[g]) \ {Head(t.members[g])})
             /\ passed.invitees = t.invitees
             /\ \A f \in Parties \ {g} : SameParty(t, passed, f)
  <2>1. t.members[g] # <<>>
    BY <1>2, <1>5 DEF MissingLeader
  <2>2. Head(t.members[g]) \in Range(t.members[g])
    BY <1>2, <2>1 DEF Range
  <2>3. /\ Agree(passed) /\ passed.invitees = t.invitees
        /\ passed.leader[g] = Head(t.members[g])
        /\ Range(passed.members[g]) = {p} \cup (Range(t.members[g]) \ {Head(t.members[g])})
    BY <1>3, <1>5, <2>2, PassPartyLeadershipFacts
  <2>4. \A f \in Parties \ {g} : SameParty(t, passed, f)
    BY <1>2 DEF PassPartyLeadership, SameParty, Ties
  <2> QED BY <1>4, <2>2, <2>3, <2>4
<1>6. /\ Agree(led) /\ led.invitees = t.invitees
      /\ \A f \in Parties \ {g} : SameParty(t, led, f)
      /\ led.leader[g] = IF MissingLeader(t, g, p) THEN p ELSE next
      /\ Range(led.members[g]) \ {p} = InParty(t, g) \ {p, led.leader[g]}
  <2>1. CASE t.leader[g] = p /\ ~MissingLeader(t, g, p)
    BY <1>5, <2>1, <1>2 DEF InParty
  <2>2. CASE ~(t.leader[g] = p /\ ~MissingLeader(t, g, p))
    <3>1. led = t
      BY <2>2
    <3>2. Range(t.members[g]) \ {p} = InParty(t, g) \ {p, t.leader[g]}
      BY <1>2 DEF InParty
    <3> QED BY <2>2, <3>1, <3>2 DEF SameParty, MissingLeader
  <2> QED BY <2>1, <2>2
<1> HIDE DEF led, passed
<1>7. led \in Ties /\ led.members[g] \in Seq(Players) /\ IsInjective(led.members[g])
  BY <1>6 DEF Agree, NearlyAgree, Ties, ListsOK
<1> DEFINE rest == RemoveFirst(led.members[g], p)
<1>8. rest \in Seq(Players) /\ Range(rest) = Range(led.members[g]) \ {p}
  BY <1>7, RemoveFirstFacts
<1> HIDE DEF rest
<1>9. /\ left.leader[g] = led.leader[g] /\ left.members[g] = rest
      /\ left.invitees[g] = t.invitees[g]
      /\ \A f \in Parties \ {g} : SameParty(t, left, f)
  BY <1>6, <1>7 DEF Ties, SameParty, rest
<1> HIDE DEF left
<1>10. rest = <<>> <=> Range(led.members[g]) \ {p} = {}
  <2>1. rest = <<>> <=> Range(rest) = {}
    BY <1>8 DEF Range
  <2> QED BY <1>8, <2>1
<1>11. Empty(left, g) <=> InParty(t, g) \ {p, led.leader[g]} = {} /\ t.invitees[g] = {}
  BY <1>6, <1>9, <1>10 DEF Empty
<1>12. MissingLeader(t, g, p) \/ Empty(left, g) <=> Ends(t, g, p)
  <2>1. CASE MissingLeader(t, g, p)
    BY <2>1 DEF Ends
  <2>2. CASE t.leader[g] # p
    <3>1. led.leader[g] = t.leader[g] /\ p \in Range(t.members[g])
      BY <1>2, <1>6, <2>2 DEF MissingLeader, InParty
    <3>2. InParty(t, g) \ {p, t.leader[g]} = Range(t.members[g]) \ {p}
      BY <1>2 DEF InParty
    <3> QED BY <1>11, <2>2, <3>1, <3>2 DEF Ends, MissingLeader
  <2>3. CASE t.leader[g] = p /\ ~MissingLeader(t, g, p)
    <3>1. ~Empty(left, g)
      <4> SUFFICES ASSUME t.invitees[g] = {}
                   PROVE  \E q \in Range(t.members[g]) : q # Head(t.members[g])
        BY <1>2, <1>6, <1>11, <2>3 DEF InParty
      <4>1. Len(t.members[g]) > 1 /\ Len(t.members[g]) \in Nat
        <5>1. Len(t.members[g]) \in Nat
          BY <1>2
        <5>2. Len(t.members[g]) # 0 /\ Len(t.members[g]) # 1
          BY <2>3 DEF MissingLeader
        <5>3. \A n \in Nat : n # 0 /\ n # 1 => n > 1
          OBVIOUS
        <5> QED BY <5>1, <5>2, <5>3
      <4>2. t.members[g][2] # t.members[g][1] /\ 2 \in DOMAIN t.members[g]
        BY <1>2, <4>1 DEF IsInjective
      <4>3. Head(t.members[g]) = t.members[g][1]
        BY <1>2, <4>1
      <4> QED BY <4>2, <4>3 DEF Range
    <3> QED BY <2>3, <3>1 DEF Ends
  <2> QED BY <2>1, <2>2, <2>3
<1>13. CASE Ends(t, g, p)
  <2>1. u = Disband(left, {g})
    BY <1>1, <1>12, <1>13
  <2>2. Deleted(u, g) /\ \A f \in Parties \ {g} : SameParty(left, u, f)
    BY <2>1, DisbandEffect
  <2> QED BY <1>9, <1>13, <2>2 DEF SameParty
<1>14. CASE ~Ends(t, g, p)
  <2>1. u = left /\ ~MissingLeader(t, g, p)
    BY <1>1, <1>12, <1>14
  <2>2. u.leader[g] = next /\ next \in Players \ {p}
    BY <1>2, <1>3, <1>5, <1>6, <1>9, <2>1
  <2>3. Range(u.members[g]) = InParty(t, g) \ {p, u.leader[g]} /\ u.invitees[g] = t.invitees[g]
    BY <1>6, <1>8, <1>9, <2>1
  <2> QED BY <1>5, <1>9, <1>14, <2>1, <2>2, <2>3
<1> QED BY <1>13, <1>14 DEF u

-----------------------------------------------------------------------------
(* The invariant.                                                           *)

Away(t, p) == t.party[p] = NoParty /\ t.invitations[p] = {}

(* For those offline it is enough that they themselves refer to nothing.    *)
LEMMA OnlineOnlyFacts ==
  ASSUME Agree(ties)
  PROVE  OnlineOnly <=> \A p \in Players \ online : Away(ties, p)
  BY NullAssumption DEF OnlineOnly, Away, Agree, NearlyAgree, Mirrored

Inv == /\ online \subseteq Players
       /\ Agree(ties)
       /\ \A p \in Players \ online : Away(ties, p)

(* The inductive invariant is Consistent, said of the ties.                 *)
LEMMA InvConsistent == Inv <=> Consistent
  BY AgreeConsistent, OnlineOnlyFacts DEF Inv

(* The invariant holds initially.                                           *)
LEMMA InitInv == Init => Inv
<1> SUFFICES ASSUME Init PROVE Inv
  OBVIOUS
<1> USE NullAssumption
<1>1. ties \in Ties
  BY DEF Init, Ties
<1>2. Range(<<>>) = {} /\ IsInjective(<<>>)
  BY DEF Range, IsInjective
<1>3. /\ \A p \in Players : ties.party[p] = NoParty /\ ties.invitations[p] = {}
      /\ \A g \in Parties : /\ ties.leader[g] = NoPlayer
                            /\ ties.members[g] = <<>>
                            /\ ties.invitees[g] = {}
  BY DEF Init
<1>4. \A g \in Parties : InParty(ties, g) = {NoPlayer}
  BY <1>2, <1>3 DEF InParty
<1>5. NearlyAgree(ties, {})
  BY <1>1, <1>2, <1>3, <1>4 DEF NearlyAgree, Mirrored, ListsOK
<1>6. NoneEmpty(ties, Parties)
  BY <1>3 DEF NoneEmpty, Empty
<1> QED BY <1>3, <1>5, <1>6 DEF Inv, Init, Agree, Away

(* An invitation to a party that exists, or is just being created.           *)
LEMMA AddInviteFacts ==
  ASSUME NEW s, NearlyAgree(s, {}), NEW g \in Parties, NoneEmpty(s, Parties \ {g}),
         s.leader[g] \in Players, NEW q \in Players
  PROVE  LET u == AddInvite(s, g, q)
         IN /\ Agree(u)
            /\ u.party = s.party
            /\ \A p \in Players \ {q} : u.invitations[p] = s.invitations[p]
<1> DEFINE u == AddInvite(s, g, q)
<1>1. s \in Ties
  BY DEF NearlyAgree
<1>2. /\ u \in Ties
      /\ u.party = s.party
      /\ u.leader = s.leader
      /\ u.members = s.members
      /\ u.invitees = [s.invitees EXCEPT ![g] = @ \cup {q}]
      /\ u.invitations = [s.invitations EXCEPT ![q] = @ \cup {g}]
  BY <1>1 DEF Ties, AddInvite
<1> HIDE DEF u
<1>3. Mirrored(u)
  BY <1>1, <1>2 DEF NearlyAgree, Mirrored, Ties
<1>4. ListsOK(u) /\ \A f \in Parties : InParty(u, f) = InParty(s, f)
  BY <1>2 DEF NearlyAgree, ListsOK, InParty
<1>5. NoneEmpty(u, Parties)
  <2>1. q \in u.invitees[g]
    BY <1>1, <1>2 DEF Ties
  <2>2. \A f \in Parties \ {g} : u.invitees[f] = s.invitees[f]
    BY <1>1, <1>2 DEF Ties
  <2> QED BY <1>2, <2>1, <2>2, NullAssumption DEF NoneEmpty, Empty
<1>6. \A p \in Players \ {q} : u.invitations[p] = s.invitations[p]
  BY <1>1, <1>2 DEF Ties
<1>7. NearlyAgree(u, {})
  BY <1>2, <1>3, <1>4 DEF NearlyAgree
<1> QED BY <1>2, <1>5, <1>6, <1>7 DEF Agree, u

(* Joining keeps agreement.                                                 *)
LEMMA JoinFacts ==
  ASSUME Inv, NEW q \in Players, NEW p \in Players, NEW g \in Parties, JoinParty(q, p, g)
  PROVE  Inv'
<1> USE NullAssumption
<1>1. /\ ties \in Ties
      /\ ties.members[g] \in Seq(Players)
      /\ IsInjective(ties.members[g])
      /\ ties.party[q] = NoParty
      /\ ties.leader[g] = p
      /\ q \in online
  BY DEF Inv, Agree, NearlyAgree, Ties, ListsOK, JoinParty, IsInviting
<1>2. \A f \in Parties : q \notin InParty(ties, f)
  BY <1>1 DEF Inv, Agree, NearlyAgree
<1> DEFINE new == Append(ties.members[g], q)
<1>3. /\ new \in Seq(Players)
      /\ new # <<>>
      /\ Range(new) = Range(ties.members[g]) \cup {q}
      /\ IsInjective(new)
  BY <1>1, <1>2, AppendFacts DEF InParty
<1> HIDE DEF new
<1>4. /\ ties' \in Ties
      /\ ties'.party = [ties.party EXCEPT ![q] = g]
      /\ ties'.invitations = [ties.invitations EXCEPT ![q] = @ \ {g}]
      /\ ties'.invitees = [ties.invitees EXCEPT ![g] = @ \ {q}]
      /\ ties'.leader = ties.leader
      /\ ties'.members = [ties.members EXCEPT ![g] = new]
  <2>1. ties' = [ties EXCEPT !.invitees[g] = @ \ {q}, !.party[q] = g,
                             !.members[g] = new, !.invitations[q] = @ \ {g}]
    BY DEF JoinParty, new
  <2> QED BY <1>1, <1>3, <2>1 DEF Ties
<1>5. /\ ties'.party[q] = g
      /\ ties'.members[g] = new
      /\ \A r \in Players \ {q} : /\ ties'.party[r] = ties.party[r]
                                  /\ ties'.invitations[r] = ties.invitations[r]
      /\ \A f \in Parties \ {g} : /\ ties'.members[f] = ties.members[f]
                                  /\ ties'.invitees[f] = ties.invitees[f]
  BY <1>1, <1>4 DEF Ties
<1>6. Mirrored(ties')
  BY <1>1, <1>4 DEF Inv, Agree, NearlyAgree, Mirrored, Ties
<1>7. ListsOK(ties')
  BY <1>1, <1>2, <1>3, <1>4, <1>5 DEF Inv, Agree, NearlyAgree, ListsOK, InParty
<1>8. /\ InParty(ties', g) = InParty(ties, g) \cup {q}
      /\ \A f \in Parties \ {g} : InParty(ties', f) = InParty(ties, f)
  BY <1>3, <1>4, <1>5 DEF InParty
<1>9. NearlyAgree(ties', {})
  <2>1. \A r \in Players, f \in Parties : ties'.party[r] = f <=> r \in InParty(ties', f)
    <3> SUFFICES ASSUME NEW r \in Players, NEW f \in Parties
                 PROVE  ties'.party[r] = f <=> r \in InParty(ties', f)
      OBVIOUS
    <3>1. ties.party[r] = f <=> r \in InParty(ties, f)
      BY DEF Inv, Agree, NearlyAgree
    <3>2. CASE r = q
      BY <1>2, <1>5, <1>8, <3>2
    <3>3. CASE r # q
      BY <1>5, <1>8, <3>1, <3>3
    <3> QED BY <3>2, <3>3
  <2> QED BY <1>4, <1>6, <1>7, <2>1 DEF NearlyAgree
<1>10. NoneEmpty(ties', Parties)
  <2> SUFFICES ASSUME NEW f \in Parties PROVE ties'.leader[f] = NoPlayer <=> Empty(ties', f)
    BY DEF NoneEmpty
  <2>1. CASE f = g
    BY <1>1, <1>3, <1>4, <1>5, <2>1 DEF Empty
  <2>2. CASE f # g
    <3>1. ties.leader[f] = NoPlayer <=> Empty(ties, f)
      BY DEF Inv, Agree, NoneEmpty
    <3> QED BY <1>4, <1>5, <2>2, <3>1 DEF Empty
  <2> QED BY <2>1, <2>2
<1>11. online' = online
  BY DEF JoinParty
<1> QED BY <1>1, <1>5, <1>9, <1>10, <1>11 DEF Inv, Agree, Away

(* Player::onCreatureDisappear: after clearPartyInvitations no party invites  *)
(* the player any longer.                                                   *)
LEMMA ClearedFacts ==
  ASSUME Inv, NEW p \in Players
  PROVE  /\ Agree(Cleared(p))
         /\ Cleared(p) = RemoveInvites(ties, ties.invitations[p], p)
         /\ Cleared(p).invitations[p] = {}
         /\ \A q \in Players : /\ Cleared(p).party[q] \in {ties.party[q], NoParty}
                               /\ Cleared(p).invitations[q] \subseteq ties.invitations[q]
<1> DEFINE s == RemoveInvites(ties, ties.invitations[p], p)
<1>1. ties \in Ties /\ Agree(ties)
  BY DEF Inv, Agree, NearlyAgree
<1>2. ties.invitations[p] \in SUBSET Parties
  BY <1>1 DEF Ties
<1>3. /\ Agree(s)
      /\ \A q \in Players : /\ s.party[q] \in {ties.party[q], NoParty}
                            /\ s.invitations[q] \subseteq ties.invitations[q]
      /\ s.invitations[p] \cap ties.invitations[p] = {}
  BY <1>1, <1>2, RemoveInvitesFacts
<1>4. Cleared(p) = [s EXCEPT !.invitations[p] = {}]
  BY DEF Cleared
<1> HIDE DEF s
<1>5. s \in Ties /\ s.invitations[p] = {}
  BY <1>3 DEF Agree, NearlyAgree
<1>6. Cleared(p) = s
  BY <1>4, <1>5 DEF Ties
<1> QED BY <1>3, <1>5, <1>6 DEF s

(* One case per action.                                                     *)
LEMMA InvStep == Inv /\ [Next]_vars => Inv'
<1> SUFFICES ASSUME Inv, [Next]_vars PROVE Inv'
  OBVIOUS
<1> USE NullAssumption
<1>0. /\ ties \in Ties
      /\ Agree(ties)
      /\ online \subseteq Players
      /\ \A p \in Players \ online : Away(ties, p)
  BY DEF Inv, Agree, NearlyAgree
<1>1. ASSUME NEW p \in Players, Login(p) PROVE Inv'
  BY <1>0, <1>1 DEF Login, Inv, Agree, NearlyAgree, NoneEmpty, Mirrored, ListsOK, InParty, Empty, Away
<1>2. ASSUME NEW p \in Players, NEW g \in Parties, Leave(p, g) PROVE Inv'
  <2>1. ties.party[p] = g /\ ties' = LeaveParty(ties, g, p) /\ online' = online
    BY <1>2 DEF Leave
  <2>2. /\ Agree(ties')
        /\ \A q \in Players : /\ ties'.party[q] \in {ties.party[q], NoParty}
                              /\ ties'.invitations[q] \subseteq ties.invitations[q]
    BY <1>0, <2>1, LeavePartyFacts
  <2> QED BY <1>0, <2>1, <2>2 DEF Inv, Away
<1>3. ASSUME NEW p \in Players, p \in online
      PROVE  /\ Agree(Cleared(p))
             /\ Cleared(p).invitations[p] = {}
             /\ \A q \in Players : /\ Cleared(p).party[q] \in {ties.party[q], NoParty}
                                   /\ Cleared(p).invitations[q] \subseteq ties.invitations[q]
  BY ClearedFacts
<1>4. ASSUME NEW p \in Players, LogoutAlone(p) PROVE Inv'
  <2>1. /\ p \in online
        /\ online' = online \ {p}
        /\ ties' = Cleared(p)
        /\ ties'.party[p] = NoParty
    BY <1>4 DEF LogoutAlone
  <2> QED BY <1>0, <1>3, <2>1 DEF Inv, Away
<1>5. ASSUME NEW p \in Players, NEW g \in Parties, LogoutOfParty(p, g) PROVE Inv'
  <2>1. /\ p \in online
        /\ online' = online \ {p}
        /\ Cleared(p).party[p] = g
        /\ ties' = LeaveParty(Cleared(p), g, p)
    BY <1>5 DEF LogoutOfParty
  <2>2. /\ Agree(ties')
        /\ ties'.party[p] = NoParty
        /\ \A q \in Players : /\ ties'.party[q] \in {Cleared(p).party[q], NoParty}
                              /\ ties'.invitations[q] \subseteq Cleared(p).invitations[q]
    BY <1>3, <2>1, LeavePartyFacts
  <2>3. Cleared(p).invitations[p] = {}
    BY <1>3, <2>1
  <2>4. \A q \in Players : /\ ties'.party[q] \in {ties.party[q], NoParty}
                           /\ ties'.invitations[q] \subseteq ties.invitations[q]
    BY <1>3, <2>1, <2>2
  <2> QED BY <1>0, <2>1, <2>2, <2>3, <2>4 DEF Inv, Away
<1>6. ASSUME NEW p \in Players, NEW q \in Players, NEW g \in Parties, InviteToNewParty(p, q, g)
      PROVE  Inv'
  <2> DEFINE s == [ties EXCEPT !.leader[g] = p, !.party[p] = g]
  <2>1. /\ p \in online /\ q \in online
        /\ ties.party[p] = NoParty
        /\ ties.leader[g] = NoPlayer
        /\ ties' = AddInvite(s, g, q)
        /\ online' = online
    BY <1>6 DEF InviteToNewParty, MayInvite
  <2>2. /\ s \in Ties
        /\ s.leader = [ties.leader EXCEPT ![g] = p]
        /\ s.party = [ties.party EXCEPT ![p] = g]
        /\ s.members = ties.members
        /\ s.invitees = ties.invitees
        /\ s.invitations = ties.invitations
    BY <1>0 DEF Ties
  <2> HIDE DEF s
  <2>3. ties.members[g] = <<>>
    BY <1>0, <2>1 DEF Agree, NoneEmpty, Empty
  <2>4. Range(<<>>) = {} /\ IsInjective(<<>>)
    BY DEF Range, IsInjective
  <2>5. /\ s.leader[g] = p /\ s.party[p] = g
        /\ \A f \in Parties \ {g} : s.leader[f] = ties.leader[f]
        /\ \A r \in Players \ {p} : s.party[r] = ties.party[r]
    BY <1>0, <2>2 DEF Ties
  <2>6. /\ InParty(s, g) = {p}
        /\ \A r \in Players : r \notin InParty(ties, g)
        /\ \A f \in Parties \ {g} : InParty(s, f) = InParty(ties, f)
    BY <2>1, <2>2, <2>3, <2>4, <2>5 DEF InParty
  <2>7. Mirrored(s) /\ ListsOK(s)
    BY <1>0, <2>2, <2>3, <2>4, <2>5 DEF Agree, NearlyAgree, Mirrored, ListsOK
  <2>8. \A r \in Players, f \in Parties : ties.party[r] = f <=> r \in InParty(ties, f)
    BY <1>0 DEF Agree, NearlyAgree
  <2>9. \A r \in Players, f \in Parties : s.party[r] = f <=> r \in InParty(s, f)
    <3> SUFFICES ASSUME NEW r \in Players, NEW f \in Parties
                 PROVE  s.party[r] = f <=> r \in InParty(s, f)
      OBVIOUS
    <3>1. CASE r = p
      BY <2>1, <2>5, <2>6, <2>8, <3>1
    <3>2. CASE r # p
      BY <2>5, <2>6, <2>8, <3>2
    <3> QED BY <3>1, <3>2
  <2>10. NearlyAgree(s, {})
    BY <2>2, <2>7, <2>9 DEF NearlyAgree
  <2>11. NoneEmpty(s, Parties \ {g})
    BY <1>0, <2>2, <2>5 DEF Agree, NoneEmpty, Empty
  <2>12. /\ Agree(ties')
         /\ ties'.party = s.party
         /\ \A r \in Players \ {q} : ties'.invitations[r] = s.invitations[r]
    BY <2>1, <2>5, <2>10, <2>11, AddInviteFacts
  <2> QED BY <1>0, <2>1, <2>2, <2>5, <2>12 DEF Inv, Away
<1>7. ASSUME NEW p \in Players, NEW q \in Players, NEW g \in Parties, InviteToParty(p, q, g)
      PROVE  Inv'
  <2>1. /\ q \in online
        /\ ties.leader[g] = p
        /\ ties' = AddInvite(ties, g, q)
        /\ online' = online
    BY <1>7 DEF InviteToParty, MayInvite
  <2>2. NearlyAgree(ties, {}) /\ NoneEmpty(ties, Parties \ {g})
    BY <1>0 DEF Agree, NoneEmpty
  <2>3. /\ Agree(ties')
        /\ ties'.party = ties.party
        /\ \A r \in Players \ {q} : ties'.invitations[r] = ties.invitations[r]
    BY <2>1, <2>2, AddInviteFacts
  <2> QED BY <1>0, <2>1, <2>3 DEF Inv, Away
<1>8. ASSUME NEW p \in Players, NEW q \in Players, NEW g \in Parties, JoinParty(q, p, g)
      PROVE  Inv'
  BY <1>8, JoinFacts
<1>9. ASSUME NEW p \in Players, NEW q \in Players, NEW g \in Parties, RevokeInvitation(p, q, g)
      PROVE  Inv'
  <2>1. ties' = RemoveInvites(ties, {g}, q) /\ online' = online
    BY <1>9 DEF RevokeInvitation
  <2>2. /\ Agree(ties')
        /\ \A r \in Players : /\ ties'.party[r] \in {ties.party[r], NoParty}
                              /\ ties'.invitations[r] \subseteq ties.invitations[r]
    BY <1>0, <2>1, RemoveInvitesFacts
  <2> QED BY <1>0, <2>1, <2>2 DEF Inv, Away
<1>10. ASSUME NEW p \in Players, NEW q \in Players, NEW g \in Parties, PassLeadership(p, q, g)
       PROVE  Inv'
  <2>1. /\ ties.leader[g] = p /\ p # q
        /\ ties.party[q] = g
        /\ ties' = PassPartyLeadership(ties, g, q)
        /\ online' = online
    BY <1>10 DEF PassLeadership
  <2>2. q \in Range(ties.members[g])
    BY <1>0, <2>1 DEF Agree, NearlyAgree, InParty
  <2>3. Agree(ties') /\ ties'.party = ties.party /\ ties'.invitations = ties.invitations
    BY <1>0, <2>1, <2>2, PassPartyLeadershipFacts
  <2> QED BY <1>0, <2>1, <2>3 DEF Inv, Away
<1>11. CASE UNCHANGED vars
  BY <1>0, <1>11 DEF vars, Inv, Agree, NearlyAgree, NoneEmpty, Mirrored, ListsOK, InParty, Empty, Away
<1> QED
  BY <1>1, <1>2, <1>4, <1>5, <1>6, <1>7, <1>8, <1>9, <1>10, <1>11 DEF Next

(* The invariant holds in every behaviour.                                  *)
LEMMA InvHolds == Spec => []Inv
  BY InitInv, InvStep, PTL DEF Spec

(* Types, agreement and all that follows hold for any number of players.     *)
THEOREM PartyConsistent == Spec => []Consistent
  BY InvHolds, InvConsistent, PTL

(* Parties and players agree on who is invited.                             *)
THEOREM InvitesAgreeCorrect == Spec => []InvitesAgree
<1>1. Consistent => InvitesAgree
  BY DEF Consistent
<1> QED BY <1>1, PartyConsistent, PTL

(* Parties and players agree on who belongs to them.                        *)
THEOREM MembersAgreeCorrect == Spec => []MembersAgree
<1>1. Consistent => MembersAgree
  BY DEF Consistent
<1> QED BY <1>1, PartyConsistent, PTL

(* No party is left over.                                                   *)
THEOREM NoEmptyPartyCorrect == Spec => []NoEmptyParty
<1>1. Consistent => NoEmptyParty
  BY DEF Consistent
<1> QED BY <1>1, PartyConsistent, PTL

(* Nothing refers to a player who is gone.                                  *)
THEOREM OnlineOnlyCorrect == Spec => []OnlineOnly
<1>1. Consistent => OnlineOnly
  BY DEF Consistent
<1> QED BY <1>1, PartyConsistent, PTL

-----------------------------------------------------------------------------
(* Party implements PartyGroups: every command of a player, and every login   *)
(* and logout, is one step of the groups that players see.                  *)

(* What players see of the ties t: who leads each of them, who invites whom. *)
Leads(t) == [p \in Players |->
               IF t.party[p] = NoParty THEN NoPlayer ELSE t.leader[t.party[p]]]

Invitations(t) == UNION {{<<t.leader[g], p>> : g \in t.invitations[p]} : p \in Players}

(* The views of the refinement mapping are these, before a step and after it. *)
LEMMA ViewNow == LeaderOf = Leads(ties) /\ Invites = Invitations(ties)
  BY DEF LeaderOf, Leads, Invites, Invitations

(* The same of the ties after the step.                                      *)
LEMMA ViewNext == LeaderOf' = Leads(ties') /\ Invites' = Invitations(ties')
  BY DEF LeaderOf, Leads, Invites, Invitations

-----------------------------------------------------------------------------
(* Who belongs to a party is seen to follow its leader, others nobody.      *)
LEMMA LeadsFacts ==
  ASSUME NEW t, Agree(t), NEW q \in Players
  PROVE  /\ Leads(t)[q] \in Players \cup {NoPlayer}
         /\ \A g \in Parties : q \in InParty(t, g) =>
              Leads(t)[q] = t.leader[g] /\ t.leader[g] \in Players /\ t.party[q] = g
         /\ t.party[q] = NoParty => Leads(t)[q] = NoPlayer
         /\ (\A g \in Parties : q \notin InParty(t, g)) => t.party[q] = NoParty
         /\ Leads(t)[q] = NoPlayer => t.party[q] = NoParty
<1> USE NullAssumption
<1>1. /\ t.party[q] \in Parties \cup {NoParty}
      /\ \A g \in Parties : t.leader[g] \in Players \cup {NoPlayer}
  BY DEF Agree, NearlyAgree, Ties
<1>2. Leads(t)[q] = IF t.party[q] = NoParty THEN NoPlayer ELSE t.leader[t.party[q]]
  BY DEF Leads
<1>3. \A g \in Parties : t.party[q] = g <=> q \in InParty(t, g)
  BY MemberFacts
<1>4. \A g \in Parties : q \in InParty(t, g) => t.leader[g] \in Players
  BY <1>1, MemberFacts
<1> QED BY <1>1, <1>2, <1>3, <1>4

(* An invitation is seen exactly if a party has it on its list.             *)
LEMMA InvitationsFacts ==
  ASSUME NEW t, Agree(t)
  PROVE  /\ \A i : i \in Invitations(t) <=>
              \E g \in Parties : \E q \in t.invitees[g] : i = <<t.leader[g], q>>
         /\ \A g \in Parties : t.invitees[g] \subseteq Players
         /\ \A g \in Parties : t.invitees[g] # {} => t.leader[g] \in Players
<1>1. /\ t \in Ties
      /\ \A p \in Players, g \in Parties : g \in t.invitations[p] <=> p \in t.invitees[g]
  BY DEF Agree, NearlyAgree, Mirrored
<1>2. /\ \A p \in Players : t.invitations[p] \subseteq Parties
      /\ \A g \in Parties : t.invitees[g] \subseteq Players
      /\ \A g \in Parties : t.leader[g] \in Players \cup {NoPlayer}
  BY <1>1 DEF Ties
<1>3. \A i : i \in Invitations(t) <=>
        \E p \in Players : \E g \in t.invitations[p] : i = <<t.leader[g], p>>
  BY DEF Invitations
<1>4. \A g \in Parties : t.invitees[g] # {} => t.leader[g] # NoPlayer
  BY DEF Agree, NoneEmpty, Empty
<1> QED BY <1>1, <1>2, <1>3, <1>4

(* A party that exists is the group of its leader.                          *)
LEMMA GroupFacts ==
  ASSUME NEW t, Agree(t), NEW g \in Parties, t.leader[g] \in Players
  PROVE  /\ t.leader[g] \in InParty(t, g)
         /\ \A q \in Players : Leads(t)[q] = t.leader[g] <=> q \in InParty(t, g)
         /\ \A q \in Players : <<t.leader[g], q>> \in Invitations(t) <=> q \in t.invitees[g]
         /\ \A f \in Parties \ {g} : t.leader[f] # t.leader[g]
<1> USE NullAssumption
<1>1. t.leader[g] \in InParty(t, g)
  BY DEF InParty
<1>2. t.party[t.leader[g]] = g
  BY <1>1, LeadsFacts
<1>3. \A f \in Parties \ {g} : t.leader[f] # t.leader[g]
  <2>1. \A f \in Parties : t.leader[f] \in InParty(t, f)
    BY DEF InParty
  <2> QED BY <1>2, <2>1, LeadsFacts
<1>4. ASSUME NEW q \in Players, Leads(t)[q] = t.leader[g]  PROVE  q \in InParty(t, g)
  <2>1. t.party[q] # NoParty
    BY <1>4, LeadsFacts
  <2>2. PICK f \in Parties : q \in InParty(t, f)
    BY <2>1, LeadsFacts
  <2>3. t.leader[f] = t.leader[g]
    BY <1>4, <2>2, LeadsFacts
  <2> QED BY <1>3, <2>2, <2>3
<1>5. \A q \in Players : q \in InParty(t, g) => Leads(t)[q] = t.leader[g]
  BY LeadsFacts
<1>6. ASSUME NEW q \in Players
      PROVE  <<t.leader[g], q>> \in Invitations(t) <=> q \in t.invitees[g]
  <2>1. ASSUME <<t.leader[g], q>> \in Invitations(t)  PROVE  q \in t.invitees[g]
    <3>1. PICK f \in Parties : \E r \in t.invitees[f] : <<t.leader[g], q>> = <<t.leader[f], r>>
      BY <2>1, InvitationsFacts
    <3>2. t.leader[f] = t.leader[g] /\ q \in t.invitees[f]
      BY <3>1
    <3> QED BY <1>3, <3>2
  <2> QED BY <2>1, InvitationsFacts
<1> QED BY <1>1, <1>3, <1>4, <1>5, <1>6

(* A party has members exactly if somebody besides its leader follows him.   *)
LEMMA OthersInParty ==
  ASSUME NEW t, Agree(t), NEW g \in Parties, t.leader[g] \in Players
  PROVE  (\E r \in Players : r # t.leader[g] /\ Leads(t)[r] = t.leader[g]) <=>
           t.members[g] # <<>>
<1>1. /\ t.members[g] \in Seq(Players)
      /\ t.leader[g] \notin Range(t.members[g])
  BY DEF Agree, NearlyAgree, ListsOK, Ties
<1>2. ASSUME t.members[g] # <<>>
      PROVE  \E r \in Players : r # t.leader[g] /\ Leads(t)[r] = t.leader[g]
  <2>1. /\ t.members[g][1] \in Players
        /\ t.members[g][1] \in Range(t.members[g])
    BY <1>1, <1>2 DEF Range
  <2>2. t.members[g][1] \in InParty(t, g)
    BY <2>1 DEF InParty
  <2> QED BY <1>1, <2>1, <2>2, GroupFacts
<1>3. ASSUME NEW r \in Players, r # t.leader[g], Leads(t)[r] = t.leader[g]
      PROVE  t.members[g] # <<>>
  <2>1. r \in Range(t.members[g])
    BY <1>3, GroupFacts DEF InParty
  <2> QED BY <2>1 DEF Range
<1> QED BY <1>2, <1>3

(* A player who follows somebody belongs to his party.                      *)
LEMMA FollowerFacts ==
  ASSUME NEW t, Agree(t), NEW q \in Players, Leads(t)[q] # NoPlayer
  PROVE  \E g \in Parties : q \in InParty(t, g)
  BY LeadsFacts

(* Two views are equal if every player follows the same leader in both.      *)
LEMMA SameLeads ==
  ASSUME NEW t, NEW lo, lo = [q \in Players |-> lo[q]],
         \A q \in Players : Leads(t)[q] = lo[q]
  PROVE  Leads(t) = lo
<1>1. Leads(t) = [q \in Players |-> Leads(t)[q]]
  BY DEF Leads
<1> QED BY <1>1

-----------------------------------------------------------------------------
(* Parties that lose invitations: k[f] are the players that party f still     *)
(* invites, and those with nobody besides the leader come to an end.         *)
Shrunk(t, u, k) ==
  \A f \in Parties :
    /\ k[f] \subseteq t.invitees[f]
    /\ t.members[f] = <<>> /\ k[f] = {} => Deleted(u, f)
    /\ t.members[f] # <<>> \/ k[f] # {} =>
         /\ u.leader[f] = t.leader[f]
         /\ u.members[f] = t.members[f]
         /\ u.invitees[f] = k[f]

(* kept are the invitations that the lists k stand for.                     *)
Lists(t, k, kept) ==
  \A i : i \in kept <=> \E f \in Parties : \E q \in k[f] : i = <<t.leader[f], q>>

(* Players see such parties as settled groups.                              *)
LEMMA SettledFacts ==
  ASSUME NEW t, NEW u, Agree(t), Agree(u), NEW k, NEW kept,
         Shrunk(t, u, k), Lists(t, k, kept)
  PROVE  Leads(u) = G!Settled(Leads(t), kept) /\ Invitations(u) = kept
<1> USE NullAssumption DEF Shrunk, Lists
<1>1. Invitations(u) = kept
  <2>1. ASSUME NEW f \in Parties
        PROVE  /\ u.invitees[f] = k[f]
               /\ k[f] # {} => u.leader[f] = t.leader[f]
    BY DEF Deleted
  <2>2. \A i : i \in Invitations(u) <=>
          \E f \in Parties : \E q \in u.invitees[f] : i = <<u.leader[f], q>>
    BY InvitationsFacts
  <2>3. \A i : i \in Invitations(u) <=> i \in kept
    BY <2>1, <2>2
  <2> QED BY <2>3
<1>2. ASSUME NEW q \in Players, Leads(t)[q] = NoPlayer  PROVE  Leads(u)[q] = NoPlayer
  <2>1. \A f \in Parties : q \notin InParty(t, f)
    BY <1>2, LeadsFacts
  <2>2. \A f \in Parties : q \notin InParty(u, f)
    <3> SUFFICES ASSUME NEW f \in Parties, q \in InParty(u, f)  PROVE  FALSE
      OBVIOUS
    <3>1. u.leader[f] # NoPlayer
      BY MemberFacts
    <3>2. u.leader[f] = t.leader[f] /\ u.members[f] = t.members[f]
      BY <3>1 DEF Deleted
    <3> QED BY <2>1, <3>2 DEF InParty
  <2> QED BY <2>2, LeadsFacts
<1>3. ASSUME NEW q \in Players, Leads(t)[q] # NoPlayer
      PROVE  Leads(u)[q] = IF \/ \E r \in Players : r # Leads(t)[q] /\ Leads(t)[r] = Leads(t)[q]
                              \/ \E r \in Players : <<Leads(t)[q], r>> \in kept
                           THEN Leads(t)[q] ELSE NoPlayer
  <2>1. PICK f \in Parties : q \in InParty(t, f)
    BY <1>3, FollowerFacts
  <2> DEFINE l == t.leader[f]
  <2>2. Leads(t)[q] = l /\ l \in Players
    BY <2>1, LeadsFacts
  <2>3. (\E r \in Players : r # l /\ Leads(t)[r] = l) <=> t.members[f] # <<>>
    BY <2>2, OthersInParty
  <2>4. (\E r \in Players : <<l, r>> \in kept) <=> k[f] # {}
    <3>1. ASSUME NEW r \in Players, <<l, r>> \in kept  PROVE  r \in k[f]
      <4>1. PICK h \in Parties : \E x \in k[h] : <<l, r>> = <<t.leader[h], x>>
        BY <3>1
      <4>2. t.leader[h] = l /\ r \in k[h]
        BY <4>1
      <4> QED BY <2>2, <4>2, GroupFacts
    <3>2. ASSUME NEW r \in k[f]  PROVE  r \in Players /\ <<l, r>> \in kept
      BY <3>2, InvitationsFacts
    <3> QED BY <3>1, <3>2
  <2>5. CASE t.members[f] # <<>> \/ k[f] # {}
    <3>1. q \in InParty(u, f) /\ u.leader[f] = l
      BY <2>1, <2>5 DEF InParty
    <3>2. Leads(u)[q] = l
      BY <3>1, LeadsFacts
    <3> QED BY <2>2, <2>3, <2>4, <2>5, <3>2
  <2>6. CASE t.members[f] = <<>> /\ k[f] = {}
    <3>1. \A h \in Parties : q \notin InParty(u, h)
      <4> SUFFICES ASSUME NEW h \in Parties, q \in InParty(u, h)  PROVE  FALSE
        OBVIOUS
      <4>1. u.leader[h] # NoPlayer
        BY MemberFacts
      <4>2. u.leader[h] = t.leader[h] /\ u.members[h] = t.members[h]
        BY <4>1 DEF Deleted
      <4>3. q \in InParty(t, h)
        BY <4>2 DEF InParty
      <4>4. h = f
        BY <2>1, <4>3, LeadsFacts
      <4> QED BY <2>6, <4>1, <4>4 DEF Deleted
    <3>2. Leads(u)[q] = NoPlayer
      BY <3>1, LeadsFacts
    <3> QED BY <2>2, <2>3, <2>4, <2>6, <3>2
  <2> QED BY <2>5, <2>6
<1>4. \A q \in Players : Leads(u)[q] = G!Settled(Leads(t), kept)[q]
  BY <1>2, <1>3 DEF G!Settled
<1>5. Leads(u) = G!Settled(Leads(t), kept)
  <2> DEFINE lo == G!Settled(Leads(t), kept)
  <2>1. lo = [q \in Players |-> lo[q]]
    BY DEF G!Settled
  <2> HIDE DEF lo
  <2>2. \A q \in Players : Leads(u)[q] = lo[q]
    BY <1>4 DEF lo
  <2>3. Leads(u) = lo
    BY <2>1, <2>2, SameLeads
  <2> QED BY <2>3 DEF lo
<1> QED BY <1>1, <1>5

(* removeInvite: the parties of gs no longer invite p.                      *)
LEMMA RemovedFacts ==
  ASSUME NEW t, Agree(t), NEW p \in Players, NEW gs \in SUBSET Parties, NEW kept,
         \A i : i \in kept <=> /\ i \in Invitations(t)
                               /\ \A f \in gs : i # <<t.leader[f], p>>
  PROVE  /\ Leads(RemoveInvites(t, gs, p)) = G!Settled(Leads(t), kept)
         /\ Invitations(RemoveInvites(t, gs, p)) = kept
<1> DEFINE u == RemoveInvites(t, gs, p)
           k == [f \in Parties |-> Kept(t, gs, p, f)]
<1>1. Agree(u)
  BY RemoveInvitesFacts
<1>2. ASSUME NEW f \in Parties
      PROVE  /\ k[f] \subseteq t.invitees[f]
             /\ p \in k[f] => f \notin gs
             /\ \A q \in t.invitees[f] : q \in k[f] \/ (q = p /\ f \in gs)
             /\ t.members[f] = <<>> /\ k[f] = {} => Deleted(u, f)
             /\ t.members[f] # <<>> \/ k[f] # {} =>
                  /\ u.leader[f] = t.leader[f]
                  /\ u.members[f] = t.members[f]
                  /\ u.invitees[f] = k[f]
  <2>1. k[f] = Kept(t, gs, p, f)
    OBVIOUS
  <2>2. /\ t.members[f] = <<>> /\ Kept(t, gs, p, f) = {} => Deleted(u, f)
        /\ t.members[f] # <<>> \/ Kept(t, gs, p, f) # {} =>
             /\ u.leader[f] = t.leader[f]
             /\ u.members[f] = t.members[f]
             /\ u.invitees[f] = Kept(t, gs, p, f)
    BY RemoveInvitesEffect
  <2>3. /\ Kept(t, gs, p, f) \subseteq t.invitees[f]
        /\ p \in Kept(t, gs, p, f) => f \notin gs
        /\ \A q \in t.invitees[f] : q \in Kept(t, gs, p, f) \/ (q = p /\ f \in gs)
    BY DEF Kept
  <2> HIDE DEF k, u
  <2> QED BY <2>1, <2>2, <2>3
<1> HIDE DEF k, u
<1>3. ASSUME NEW i, i \in kept
      PROVE  \E f \in Parties : \E q \in k[f] : i = <<t.leader[f], q>>
  <2>1. i \in Invitations(t) /\ \A f \in gs : i # <<t.leader[f], p>>
    BY <1>3
  <2>2. PICK f \in Parties : \E q \in t.invitees[f] : i = <<t.leader[f], q>>
    BY <2>1, InvitationsFacts
  <2>3. PICK q : q \in t.invitees[f] /\ i = <<t.leader[f], q>>
    BY <2>2
  <2>4. q \in k[f]
    BY <1>2, <2>1, <2>3
  <2> QED BY <2>3, <2>4
<1>4. ASSUME NEW f \in Parties, NEW q, q \in k[f]
      PROVE  <<t.leader[f], q>> \in kept
  <2>1. q \in t.invitees[f] /\ t.leader[f] \in Players
    BY <1>2, <1>4, InvitationsFacts
  <2>2. <<t.leader[f], q>> \in Invitations(t)
    BY <2>1, InvitationsFacts
  <2>3. ASSUME NEW h \in gs, <<t.leader[f], q>> = <<t.leader[h], p>>  PROVE  FALSE
    <3>1. q = p /\ t.leader[h] = t.leader[f]
      BY <2>3
    <3>2. h = f
      BY <2>1, <3>1, GroupFacts
    <3> QED BY <1>2, <1>4, <3>1, <3>2
  <2> QED BY <2>2, <2>3
<1>5. Lists(t, k, kept)
  BY <1>3, <1>4 DEF Lists
<1>6. Shrunk(t, u, k)
  BY <1>2 DEF Shrunk
<1>7. Leads(u) = G!Settled(Leads(t), kept) /\ Invitations(u) = kept
  BY <1>1, <1>5, <1>6, SettledFacts
<1> QED BY <1>7 DEF u

-----------------------------------------------------------------------------
(* How many members a list has that repeats none.                           *)
LEMMA MembersCount ==
  ASSUME NEW s \in Seq(Players), IsInjective(s)
  PROVE  /\ Len(s) = 0 <=> Range(s) = {}
         /\ Len(s) = 1 <=> Cardinality(Range(s)) = 1
<1>1. Len(s) \in Nat /\ DOMAIN s = 1..Len(s)
  OBVIOUS
<1>2. Len(s) = 0 <=> Range(s) = {}
  <2>1. ASSUME Len(s) # 0  PROVE  Range(s) # {}
    <3>1. 1 \in DOMAIN s
      BY <1>1, <2>1
    <3> QED BY <3>1 DEF Range
  <2>2. ASSUME Len(s) = 0  PROVE  Range(s) = {}
    BY <1>1, <2>2 DEF Range
  <2> QED BY <2>1, <2>2
<1>3. s \in Surjection(1..Len(s), Range(s)) /\ s \in Injection(1..Len(s), Range(s))
  <2>1. s \in [1..Len(s) -> Range(s)]
    BY <1>1 DEF Range
  <2>2. \A x \in Range(s) : \E i \in 1..Len(s) : s[i] = x
    BY <1>1 DEF Range
  <2>3. \A i, j \in 1..Len(s) : s[i] = s[j] => i = j
    BY <1>1 DEF IsInjective
  <2> QED BY <2>1, <2>2, <2>3 DEF Surjection, Injection, IsInjective
<1>4. IsFiniteSet(1..Len(s)) /\ Cardinality(1..Len(s)) = Len(s)
  BY <1>1, FS_Interval
<1>5. Cardinality(Range(s)) = Len(s)
  BY <1>3, <1>4, FS_Surjection
<1> QED BY <1>2, <1>5

(* PartyGroups counts as this module does.                                  *)
LEMMA SameCardinality ==
  ASSUME NEW S  PROVE  G!Cardinality(S) = Cardinality(S)
  BY DEF G!Cardinality, Cardinality

(* leaveParty: p leaves party g of the ties t.                              *)
LEMMA GoesFacts ==
  ASSUME NEW t, Agree(t), NEW g \in Parties, NEW p \in Players, t.party[p] = g,
         ties' = LeaveParty(t, g, p), Agree(ties')
  PROVE  G!Goes(p, Leads(t), Invitations(t))
<1> USE NullAssumption
<1> DEFINE u == ties'
           lo == Leads(t)
           inv == Invitations(t)
           l == t.leader[g]
           rest == {q \in Players \ {p} : lo[q] = lo[p]}
           left == [lo EXCEPT ![p] = NoPlayer]
           over == \/ rest = {}
                   \/ Cardinality(rest) = 1 /\ \A q \in Players : <<lo[p], q>> \notin inv
<1>1. /\ \A f \in Parties \ {g} : SameParty(t, u, f)
      /\ Ends(t, g, p) => Deleted(u, g)
      /\ ~Ends(t, g, p) =>
           /\ u.leader[g] = IF l = p THEN Head(t.members[g]) ELSE l
           /\ u.leader[g] \in Players \ {p}
           /\ l = p => Head(t.members[g]) \in Range(t.members[g])
           /\ Range(u.members[g]) = InParty(t, g) \ {p, u.leader[g]}
           /\ u.invitees[g] = t.invitees[g]
  BY LeavePartyEffect
<1>2. u.party[p] = NoParty
  BY LeavePartyFacts
<1>3. Agree(u) /\ LeaderOf' = Leads(u) /\ Invites' = Invitations(u)
  BY ViewNext
<1> HIDE DEF u
<1>4. p \in InParty(t, g) /\ l \in Players /\ lo[p] = l
  BY LeadsFacts, MemberFacts
<1>5. /\ lo = [q \in Players |-> lo[q]]
      /\ left = [q \in Players |-> IF q = p THEN NoPlayer ELSE lo[q]]
  BY DEF Leads
<1>6. rest = InParty(t, g) \ {p}
  <2>1. InParty(t, g) \subseteq Players
    BY <1>4, InPartyFacts DEF Agree, NearlyAgree, InParty
  <2>2. \A q \in Players : lo[q] = l <=> q \in InParty(t, g)
    BY <1>4, GroupFacts
  <2> QED BY <1>4, <2>1, <2>2
<1>7. \A q \in Players : <<l, q>> \in inv <=> q \in t.invitees[g]
  BY <1>4, GroupFacts
<1>8. t.invitees[g] \subseteq Players
  BY InvitationsFacts
<1> HIDE DEF lo, inv
<1>a. G!Goes(p, lo, inv) <=>
           \/ /\ lo[p] = NoPlayer
              /\ LeaderOf' = lo
              /\ Invites' = inv
           \/ /\ lo[p] \notin {NoPlayer, p}
              /\ LeaderOf' = G!Settled(left, inv)
              /\ Invites' = inv
           \/ /\ lo[p] = p
              /\ over
              /\ LeaderOf' = G!Follow(lo, p, NoPlayer)
              /\ Invites' = {i \in inv : i[1] # p}
           \/ /\ lo[p] = p
              /\ ~over
              /\ \E heir \in rest : /\ LeaderOf' = G!Follow(left, p, heir)
                                    /\ Invites' = G!Inherit(inv, p, heir)
  BY SameCardinality DEF G!Goes
<1> HIDE DEF left
<1>9. /\ \A f \in Parties \ {g} : InParty(u, f) = InParty(t, f) /\ u.leader[f] = t.leader[f]
      /\ Ends(t, g, p) => InParty(u, g) = {NoPlayer}
      /\ ~Ends(t, g, p) => InParty(u, g) = InParty(t, g) \ {p}
  <2>1. \A f \in Parties \ {g} : InParty(u, f) = InParty(t, f) /\ u.leader[f] = t.leader[f]
    BY <1>1 DEF SameParty, InParty
  <2>2. Ends(t, g, p) => InParty(u, g) = {NoPlayer}
    BY <1>1 DEF Deleted, InParty, Range
  <2>3. ASSUME ~Ends(t, g, p)  PROVE  InParty(u, g) = InParty(t, g) \ {p}
    <3>1. u.leader[g] \in InParty(t, g) \ {p}
      BY <1>1, <2>3 DEF InParty
    <3>2. InParty(u, g) = {u.leader[g]} \cup (InParty(t, g) \ {p, u.leader[g]})
      BY <1>1, <2>3 DEF InParty
    <3> QED BY <3>1, <3>2
  <2> QED BY <2>1, <2>2, <2>3
<1>10. Leads(u)[p] = NoPlayer
  BY <1>2, <1>3, LeadsFacts
<1>11. ASSUME NEW q \in Players, q # p
       PROVE  Leads(u)[q] = IF lo[q] # l THEN lo[q]
                            ELSE IF Ends(t, g, p) THEN NoPlayer ELSE u.leader[g]
  <2>1. CASE lo[q] = NoPlayer
    <3>1. \A f \in Parties : q \notin InParty(t, f)
      BY <2>1, LeadsFacts DEF lo
    <3>2. \A f \in Parties : q \notin InParty(u, f)
      BY <1>9, <3>1
    <3>3. Leads(u)[q] = NoPlayer
      BY <1>3, <3>2, LeadsFacts
    <3> QED BY <1>4, <2>1, <3>3
  <2>2. CASE lo[q] # NoPlayer
    <3>1. PICK f \in Parties : q \in InParty(t, f)
      BY <2>2, FollowerFacts DEF lo
    <3>2. lo[q] = t.leader[f] /\ t.party[q] = f
      BY <3>1, LeadsFacts DEF lo
    <3>3. CASE f # g
      <4>1. t.leader[f] # l
        BY <1>4, <3>3, GroupFacts
      <4>2. q \in InParty(u, f) /\ u.leader[f] = t.leader[f]
        BY <1>9, <3>1, <3>3
      <4>3. Leads(u)[q] = t.leader[f]
        BY <1>3, <4>2, LeadsFacts
      <4> QED BY <3>2, <4>1, <4>3
    <3>4. CASE f = g /\ Ends(t, g, p)
      <4>1. \A h \in Parties : q \notin InParty(u, h)
        BY <1>9, <3>1, <3>2, <3>4, LeadsFacts
      <4>2. Leads(u)[q] = NoPlayer
        BY <1>3, <4>1, LeadsFacts
      <4> QED BY <3>2, <3>4, <4>2
    <3>5. CASE f = g /\ ~Ends(t, g, p)
      <4>1. q \in InParty(u, g)
        BY <1>9, <1>11, <3>1, <3>5
      <4>2. Leads(u)[q] = u.leader[g]
        BY <1>3, <4>1, LeadsFacts
      <4> QED BY <3>2, <3>5, <4>2
    <3> QED BY <3>3, <3>4, <3>5
  <2> QED BY <2>1, <2>2
<1>12. \A f \in Parties \ {g} : u.leader[f] = t.leader[f] /\ u.invitees[f] = t.invitees[f]
  BY <1>1 DEF SameParty
<1>13. /\ \A i : i \in inv <=> \E f \in Parties : \E q \in t.invitees[f] : i = <<t.leader[f], q>>
       /\ \A i : i \in Invitations(u) <=>
            \E f \in Parties : \E q \in u.invitees[f] : i = <<u.leader[f], q>>
  BY <1>3, InvitationsFacts DEF inv
<1>14. CASE l # p
  <2>1. Ends(t, g, p) <=> Range(t.members[g]) = {p} /\ t.invitees[g] = {}
    BY <1>14 DEF Ends, MissingLeader
  <2>2. Invitations(u) = inv
    <3>1. /\ u.invitees[g] = t.invitees[g]
          /\ t.invitees[g] # {} => u.leader[g] = l
      BY <1>1, <1>14, <2>1 DEF Deleted
    <3>2. \A i : i \in Invitations(u) <=> i \in inv
      BY <1>12, <1>13, <3>1
    <3> QED BY <3>2
  <2>3. \A q \in Players : Leads(u)[q] = G!Settled(left, inv)[q]
    <3> SUFFICES ASSUME NEW q \in Players
                 PROVE  Leads(u)[q] =
                          IF \/ \E r \in Players : r # left[q] /\ left[r] = left[q]
                             \/ \E r \in Players : <<left[q], r>> \in inv
                          THEN left[q] ELSE NoPlayer
      BY DEF G!Settled
    <3>1. left[p] = NoPlayer /\ \A r \in Players \ {p} : left[r] = lo[r]
      BY <1>5
    <3>2. CASE q = p
      BY <1>10, <3>1, <3>2
    <3>3. CASE q # p /\ lo[q] = NoPlayer
      BY <1>4, <1>11, <3>1, <3>3
    <3>4. CASE q # p /\ lo[q] \notin {NoPlayer, l}
      <4>1. PICK f \in Parties : q \in InParty(t, f)
        BY <3>4, FollowerFacts DEF lo
      <4>2. lo[q] = t.leader[f] /\ t.leader[f] \in Players
        BY <4>1, LeadsFacts DEF lo
      <4>3. \/ \E r \in Players : r # lo[q] /\ left[r] = lo[q]
            \/ \E r \in Players : <<lo[q], r>> \in inv
        <5>1. CASE t.members[f] # <<>>
          <6>1. PICK r \in Players : r # t.leader[f] /\ lo[r] = t.leader[f]
            BY <4>2, <5>1, OthersInParty DEF lo
          <6>2. r # p
            BY <1>4, <3>4, <4>2, <6>1
          <6> QED BY <3>1, <4>2, <6>1, <6>2
        <5>2. CASE t.invitees[f] # {}
          BY <4>2, <5>2, GroupFacts, InvitationsFacts DEF inv
        <5>3. t.members[f] # <<>> \/ t.invitees[f] # {}
          BY <4>2 DEF Agree, NoneEmpty, Empty
        <5> QED BY <5>1, <5>2, <5>3
      <4>4. Leads(u)[q] = lo[q] /\ left[q] = lo[q]
        BY <1>11, <3>1, <3>4
      <4> QED BY <4>3, <4>4
    <3>5. CASE q # p /\ lo[q] = l
      <4>1. left[q] = l
        BY <3>1, <3>5
      <4>2. (\E r \in Players : <<l, r>> \in inv) <=> t.invitees[g] # {}
        BY <1>7, <1>8
      <4>3. (\E r \in Players : r # l /\ left[r] = l) <=> Range(t.members[g]) # {p}
        <5>1. \A r \in Players : left[r] = l <=> r \in rest
          BY <1>4, <3>1
        <5>2. /\ p \in Range(t.members[g]) /\ l \notin Range(t.members[g])
              /\ InParty(t, g) = {l} \cup Range(t.members[g])
          BY <1>4, <1>14 DEF InParty, Agree, NearlyAgree, ListsOK
        <5>3. rest \subseteq Players
          OBVIOUS
        <5> HIDE DEF rest
        <5>4. rest \ {l} = Range(t.members[g]) \ {p}
          BY <1>6, <5>2
        <5>5. (\E r \in Players : r # l /\ left[r] = l) <=> rest \ {l} # {}
          BY <5>1, <5>3
        <5>6. Range(t.members[g]) # {p} <=> Range(t.members[g]) \ {p} # {}
          BY <5>2
        <5> QED BY <5>4, <5>5, <5>6
      <4>4. Leads(u)[q] = IF Ends(t, g, p) THEN NoPlayer ELSE l
        BY <1>1, <1>11, <1>14, <3>5
      <4> QED BY <2>1, <4>1, <4>2, <4>3, <4>4
    <3> QED BY <3>2, <3>3, <3>4, <3>5
  <2>4. Leads(u) = G!Settled(left, inv)
    <3> DEFINE s == G!Settled(left, inv)
    <3>1. s = [q \in Players |-> s[q]]
      BY DEF G!Settled
    <3> HIDE DEF s
    <3>2. \A q \in Players : Leads(u)[q] = s[q]
      BY <2>3 DEF s
    <3>3. Leads(u) = s
      BY <3>1, <3>2, SameLeads
    <3> QED BY <3>3 DEF s
  <2>5. G!Goes(p, lo, inv)
    BY <1>3, <1>4, <1>a, <1>14, <2>2, <2>4
  <2> QED BY <2>5 DEF lo, inv
<1>15. l = p => (Ends(t, g, p) <=> over)
  <2> SUFFICES ASSUME l = p  PROVE  Ends(t, g, p) <=> over
    OBVIOUS
  <2>1. /\ t.members[g] \in Seq(Players) /\ IsInjective(t.members[g])
        /\ l \notin Range(t.members[g])
    BY DEF Agree, NearlyAgree, Ties, ListsOK
  <2>2. rest = Range(t.members[g])
    BY <1>6, <2>1 DEF InParty
  <2> HIDE DEF rest
  <2>3. /\ Len(t.members[g]) = 0 <=> rest = {}
        /\ Len(t.members[g]) = 1 <=> Cardinality(rest) = 1
    BY <2>1, <2>2, MembersCount
  <2>4. (\A q \in Players : <<l, q>> \notin inv) <=> t.invitees[g] = {}
    BY <1>7, <1>8
  <2>5. Ends(t, g, p) <=> \/ Len(t.members[g]) = 0
                          \/ Len(t.members[g]) = 1 /\ t.invitees[g] = {}
    BY DEF Ends, MissingLeader
  <2> QED BY <1>4, <2>3, <2>4, <2>5
<1>16. CASE l = p /\ Ends(t, g, p)
  <2>1. Invitations(u) = {i \in inv : i[1] # p}
    <3>1. u.invitees[g] = {}
      BY <1>1, <1>16 DEF Deleted
    <3>2. \A f \in Parties \ {g} : t.leader[f] # p
      BY <1>4, <1>16, GroupFacts
    <3>3. ASSUME NEW i, i \in Invitations(u)  PROVE  i \in inv /\ i[1] # p
      <4>1. PICK f \in Parties : \E q \in u.invitees[f] : i = <<u.leader[f], q>>
        BY <1>13, <3>3
      <4>2. PICK q : q \in u.invitees[f] /\ i = <<u.leader[f], q>>
        BY <4>1
      <4> QED BY <1>12, <1>13, <3>1, <3>2, <4>2
    <3>4. ASSUME NEW i, i \in inv, i[1] # p  PROVE  i \in Invitations(u)
      <4>1. PICK f \in Parties : \E q \in t.invitees[f] : i = <<t.leader[f], q>>
        BY <1>13, <3>4
      <4>2. f # g
        BY <1>16, <3>4, <4>1
      <4> QED BY <1>12, <1>13, <4>1, <4>2
    <3> QED BY <3>3, <3>4
  <2>2. Leads(u) = G!Follow(lo, p, NoPlayer)
    <3> DEFINE s == G!Follow(lo, p, NoPlayer)
    <3>1. s = [q \in Players |-> IF lo[q] = p THEN NoPlayer ELSE lo[q]]
      BY DEF G!Follow
    <3> HIDE DEF s
    <3>2. \A q \in Players : Leads(u)[q] = s[q]
      BY <1>4, <1>10, <1>11, <1>16, <3>1
    <3>3. s = [q \in Players |-> s[q]]
      BY <3>1
    <3>4. Leads(u) = s
      BY <3>2, <3>3, SameLeads
    <3> QED BY <3>4 DEF s
  <2>3. over /\ lo[p] = p
    BY <1>4, <1>15, <1>16
  <2> HIDE DEF rest, over
  <2>4. G!Goes(p, lo, inv)
    BY <1>3, <1>a, <2>1, <2>2, <2>3
  <2> QED BY <2>4 DEF lo, inv
<1>17. CASE l = p /\ ~Ends(t, g, p)
  <2> DEFINE heir == u.leader[g]
  <2>1. heir \in rest
    BY <1>1, <1>6, <1>17 DEF InParty
  <2>2. Invitations(u) = G!Inherit(inv, p, heir)
    <3>1. u.invitees[g] = t.invitees[g]
      BY <1>1, <1>17
    <3>2. \A f \in Parties \ {g} : t.leader[f] # p
      BY <1>4, <1>17, GroupFacts
    <3>3. ASSUME NEW f \in Parties
          PROVE  /\ u.leader[f] = IF t.leader[f] = p THEN heir ELSE t.leader[f]
                 /\ u.invitees[f] = t.invitees[f]
      BY <1>12, <1>17, <3>1, <3>2
    <3> HIDE DEF heir
    <3>4. ASSUME NEW i, i \in Invitations(u)
          PROVE  \E j \in inv : i = <<IF j[1] = p THEN heir ELSE j[1], j[2]>>
      <4>1. PICK f \in Parties : \E q \in u.invitees[f] : i = <<u.leader[f], q>>
        BY <1>13, <3>4
      <4>2. PICK q : q \in t.invitees[f] /\ i = <<u.leader[f], q>>
        BY <3>3, <4>1
      <4>3. <<t.leader[f], q>> \in inv
        BY <1>13, <4>2
      <4> QED BY <3>3, <4>2, <4>3
    <3>5. ASSUME NEW j, j \in inv
          PROVE  <<IF j[1] = p THEN heir ELSE j[1], j[2]>> \in Invitations(u)
      <4>1. PICK f \in Parties : \E q \in t.invitees[f] : j = <<t.leader[f], q>>
        BY <1>13, <3>5
      <4>2. PICK q : q \in t.invitees[f] /\ j = <<t.leader[f], q>>
        BY <4>1
      <4>3. <<u.leader[f], q>> \in Invitations(u)
        BY <1>13, <3>3, <4>2
      <4> QED BY <3>3, <4>2, <4>3
    <3> QED BY <3>4, <3>5 DEF G!Inherit
  <2>3. Leads(u) = G!Follow(left, p, heir)
    <3> DEFINE s == G!Follow(left, p, heir)
    <3>1. s = [q \in Players |-> IF left[q] = p THEN heir ELSE left[q]]
      BY DEF G!Follow
    <3> HIDE DEF s
    <3>2. left[p] = NoPlayer /\ \A r \in Players \ {p} : left[r] = lo[r]
      BY <1>5
    <3>3. \A q \in Players : Leads(u)[q] = s[q]
      BY <1>4, <1>10, <1>11, <1>17, <3>1, <3>2
    <3>4. s = [q \in Players |-> s[q]]
      BY <3>1
    <3>5. Leads(u) = s
      BY <3>3, <3>4, SameLeads
    <3> QED BY <3>5 DEF s
  <2>4. ~over /\ lo[p] = p
    BY <1>4, <1>15, <1>17
  <2> HIDE DEF rest, over
  <2>5. G!Goes(p, lo, inv)
    BY <1>3, <1>a, <2>1, <2>2, <2>3, <2>4
  <2> QED BY <2>5 DEF lo, inv
<1> QED BY <1>14, <1>16, <1>17

-----------------------------------------------------------------------------
(* At first nobody is in a party or invited.                                *)
LEMMA GroupsInit == Init => G!Init
<1> SUFFICES ASSUME Init  PROVE  G!Init
  OBVIOUS
<1>1. LeaderOf = [q \in Players |-> NoPlayer]
  BY DEF Init, LeaderOf
<1>2. \A i : i \notin Invites
  BY DEF Init, Invites
<1>3. Invites = {} /\ online = {}
  BY <1>2 DEF Init
<1> QED BY <1>1, <1>3 DEF G!Init

(* playerInviteToParty, with a party of the inviting player or a new one.    *)
LEMMA InviteFacts ==
  ASSUME Inv, Inv', NEW p \in Players, NEW q \in Players, NEW g \in Parties,
         InviteToNewParty(p, q, g) \/ InviteToParty(p, q, g)
  PROVE  G!Invite(p, q)
<1> USE NullAssumption
<1> DEFINE lo == Leads(ties)
           inv == Invitations(ties)
<1>1. /\ Agree(ties) /\ Agree(ties') /\ ties \in Ties
      /\ LeaderOf = lo /\ Invites = inv
      /\ LeaderOf' = Leads(ties') /\ Invites' = Invitations(ties')
  BY ViewNow, ViewNext DEF Inv, Agree, NearlyAgree
<1>2. {p, q} \subseteq online /\ ties.party[q] = NoParty /\ online' = online
  BY DEF InviteToNewParty, InviteToParty, MayInvite
<1>3. /\ ties'.leader = [ties.leader EXCEPT ![g] = p]
      /\ ties'.party = [ties.party EXCEPT ![p] = g]
      /\ ties'.members = ties.members
      /\ ties'.invitees = [ties.invitees EXCEPT ![g] = @ \cup {q}]
      /\ \/ ties.party[p] = NoParty /\ ties.leader[g] = NoPlayer
         \/ ties.party[p] = g /\ ties.leader[g] = p
  <2>1. CASE InviteToNewParty(p, q, g)
    BY <1>1, <2>1 DEF InviteToNewParty, AddInvite, Ties
  <2>2. CASE InviteToParty(p, q, g)
    <3>1. ties.party[p] = g /\ ties.leader[g] = p /\ ties' = AddInvite(ties, g, q)
      BY <2>2 DEF InviteToParty
    <3>2. /\ ties'.leader = ties.leader /\ ties'.party = ties.party
          /\ ties'.members = ties.members
          /\ ties'.invitees = [ties.invitees EXCEPT ![g] = @ \cup {q}]
      BY <1>1, <3>1 DEF AddInvite, Ties
    <3>3. /\ ties.leader = [ties.leader EXCEPT ![g] = p]
          /\ ties.party = [ties.party EXCEPT ![p] = g]
      BY <1>1, <3>1 DEF Ties
    <3> QED BY <3>1, <3>2, <3>3
  <2> QED BY <2>1, <2>2
<1>4. /\ ties'.leader[g] = p /\ ties'.party[p] = g
      /\ ties'.invitees[g] = ties.invitees[g] \cup {q}
      /\ \A f \in Parties \ {g} : /\ ties'.leader[f] = ties.leader[f]
                                  /\ ties'.invitees[f] = ties.invitees[f]
      /\ \A r \in Players \ {p} : ties'.party[r] = ties.party[r]
      /\ \A r \in Players : ties.party[r] \in Parties \cup {NoParty}
  BY <1>1, <1>3 DEF Ties
<1>5. lo[q] = NoPlayer /\ lo[p] \in {NoPlayer, p}
  BY <1>2, <1>3 DEF Leads
<1>6. ties.leader[g] \in {NoPlayer, p}
  BY <1>3
<1>7. ties.leader[g] = NoPlayer => ties.invitees[g] = {} /\ \A r \in Players : ties.party[r] # g
  <2>1. ties.leader[g] = NoPlayer => ties.invitees[g] = {}
    BY <1>1, InvitationsFacts
  <2>2. ties.leader[g] = NoPlayer => \A r \in Players : ties.party[r] # g
    BY <1>1, MemberFacts
  <2> QED BY <2>1, <2>2
<1>8. Leads(ties') = [lo EXCEPT ![p] = p]
  <2> DEFINE new == [lo EXCEPT ![p] = p]
  <2>1. new = [r \in Players |-> IF r = p THEN p ELSE lo[r]]
    BY DEF Leads
  <2>2. ASSUME NEW r \in Players, r # p  PROVE  Leads(ties')[r] = lo[r]
    <3>1. ties'.party[r] = ties.party[r]
      BY <1>4, <2>2
    <3>2. ties.party[r] = g => ties'.leader[g] = ties.leader[g]
      BY <1>4, <1>6, <1>7
    <3> QED BY <1>4, <3>1, <3>2 DEF Leads
  <2>3. Leads(ties')[p] = p
    BY <1>4 DEF Leads
  <2> HIDE DEF new, lo
  <2>4. \A r \in Players : Leads(ties')[r] = new[r]
    BY <2>1, <2>2, <2>3
  <2>5. new = [r \in Players |-> new[r]]
    BY <2>1
  <2>6. Leads(ties') = new
    BY <2>4, <2>5, SameLeads
  <2> QED BY <2>6 DEF new
<1>9. Invitations(ties') = inv \cup {<<p, q>>}
  <2>1. /\ \A i : i \in inv <=>
             \E f \in Parties : \E r \in ties.invitees[f] : i = <<ties.leader[f], r>>
        /\ \A i : i \in Invitations(ties') <=>
             \E f \in Parties : \E r \in ties'.invitees[f] : i = <<ties'.leader[f], r>>
    BY <1>1, InvitationsFacts
  <2> HIDE DEF inv
  <2>2. ASSUME NEW i, i \in Invitations(ties'), i # <<p, q>>  PROVE  i \in inv
    <3>1. PICK f \in Parties : \E r \in ties'.invitees[f] : i = <<ties'.leader[f], r>>
      BY <2>1, <2>2
    <3>2. PICK r : r \in ties'.invitees[f] /\ i = <<ties'.leader[f], r>>
      BY <3>1
    <3>3. CASE f # g
      BY <1>4, <2>1, <3>2, <3>3
    <3>4. CASE f = g
      <4>1. r \in ties.invitees[g] /\ i = <<p, r>>
        BY <1>4, <2>2, <3>2, <3>4
      <4>2. ties.leader[g] = p
        BY <1>6, <1>7, <4>1
      <4> QED BY <2>1, <4>1, <4>2
    <3> QED BY <3>3, <3>4
  <2>3. ASSUME NEW i, i \in inv  PROVE  i \in Invitations(ties')
    <3>1. PICK f \in Parties : \E r \in ties.invitees[f] : i = <<ties.leader[f], r>>
      BY <2>1, <2>3
    <3>2. PICK r : r \in ties.invitees[f] /\ i = <<ties.leader[f], r>>
      BY <3>1
    <3>3. CASE f # g
      BY <1>4, <2>1, <3>2, <3>3
    <3>4. CASE f = g
      BY <1>4, <1>6, <1>7, <2>1, <3>2, <3>4
    <3> QED BY <3>3, <3>4
  <2>4. <<p, q>> \in Invitations(ties')
    BY <1>4, <2>1
  <2> QED BY <2>2, <2>3, <2>4
<1> QED BY <1>1, <1>2, <1>5, <1>8, <1>9 DEF G!Invite

(* playerJoinParty.                                                         *)
LEMMA JoinGroupFacts ==
  ASSUME Inv, Inv', NEW p \in Players, NEW q \in Players, NEW g \in Parties,
         JoinParty(q, p, g)
  PROVE  G!Join(q, p)
<1> USE NullAssumption
<1> DEFINE lo == Leads(ties)
           inv == Invitations(ties)
<1>1. /\ Agree(ties) /\ Agree(ties') /\ ties \in Ties
      /\ LeaderOf = lo /\ Invites = inv
      /\ LeaderOf' = Leads(ties') /\ Invites' = Invitations(ties')
  BY ViewNow, ViewNext DEF Inv, Agree, NearlyAgree
<1>2. /\ ties.party[p] = g /\ ties.leader[g] = p /\ q \in ties.invitees[g]
      /\ ties.party[q] = NoParty /\ online' = online
  BY DEF JoinParty, IsInviting
<1>3. /\ ties'.leader = ties.leader
      /\ ties'.party = [ties.party EXCEPT ![q] = g]
      /\ ties'.invitees = [ties.invitees EXCEPT ![g] = @ \ {q}]
  BY <1>1 DEF JoinParty, Ties
<1>4. /\ ties'.party[q] = g
      /\ \A r \in Players \ {q} : ties'.party[r] = ties.party[r]
      /\ ties'.invitees[g] = ties.invitees[g] \ {q}
      /\ \A f \in Parties \ {g} : ties'.invitees[f] = ties.invitees[f]
  BY <1>1, <1>3 DEF Ties
<1>5. Leads(ties') = [lo EXCEPT ![q] = p]
  <2> DEFINE new == [lo EXCEPT ![q] = p]
  <2>1. new = [r \in Players |-> IF r = q THEN p ELSE lo[r]]
    BY DEF Leads
  <2>2. \A r \in Players \ {q} : Leads(ties')[r] = lo[r]
    BY <1>3, <1>4 DEF Leads
  <2>3. Leads(ties')[q] = p
    BY <1>2, <1>3, <1>4 DEF Leads
  <2> HIDE DEF new, lo
  <2>4. \A r \in Players : Leads(ties')[r] = new[r]
    BY <2>1, <2>2, <2>3
  <2>5. new = [r \in Players |-> new[r]]
    BY <2>1
  <2>6. Leads(ties') = new
    BY <2>4, <2>5, SameLeads
  <2> QED BY <2>6 DEF new
<1>6. Invitations(ties') = inv \ {<<p, q>>}
  <2>1. /\ \A i : i \in inv <=>
             \E f \in Parties : \E r \in ties.invitees[f] : i = <<ties.leader[f], r>>
        /\ \A i : i \in Invitations(ties') <=>
             \E f \in Parties : \E r \in ties'.invitees[f] : i = <<ties.leader[f], r>>
    <3>1. /\ \A i : i \in inv <=>
               \E f \in Parties : \E r \in ties.invitees[f] : i = <<ties.leader[f], r>>
          /\ \A i : i \in Invitations(ties') <=>
               \E f \in Parties : \E r \in ties'.invitees[f] : i = <<ties'.leader[f], r>>
      BY <1>1, InvitationsFacts
    <3> QED BY <1>3, <3>1
  <2>2. \A f \in Parties \ {g} : ties.leader[f] # p
    BY <1>1, <1>2, GroupFacts
  <2> HIDE DEF inv
  <2>3. ASSUME NEW i, i \in Invitations(ties')  PROVE  i \in inv /\ i # <<p, q>>
    <3>1. PICK f \in Parties : \E r \in ties'.invitees[f] : i = <<ties.leader[f], r>>
      BY <2>1, <2>3
    <3>2. PICK r : r \in ties'.invitees[f] /\ i = <<ties.leader[f], r>>
      BY <3>1
    <3> QED BY <1>4, <2>1, <2>2, <3>2
  <2>4. ASSUME NEW i, i \in inv, i # <<p, q>>  PROVE  i \in Invitations(ties')
    <3>1. PICK f \in Parties : \E r \in ties.invitees[f] : i = <<ties.leader[f], r>>
      BY <2>1, <2>4
    <3>2. PICK r : r \in ties.invitees[f] /\ i = <<ties.leader[f], r>>
      BY <3>1
    <3> QED BY <1>2, <1>4, <2>1, <2>4, <3>2
  <2> QED BY <2>3, <2>4
<1>7. <<p, q>> \in inv /\ lo[q] = NoPlayer
  <2>1. <<p, q>> \in inv
    BY <1>1, <1>2, InvitationsFacts
  <2> QED BY <1>2, <2>1 DEF Leads
<1> QED BY <1>1, <1>2, <1>5, <1>6, <1>7 DEF G!Join

(* playerRevokePartyInvitation.                                             *)
LEMMA RevokeFacts ==
  ASSUME Inv, Inv', NEW p \in Players, NEW q \in Players, NEW g \in Parties,
         RevokeInvitation(p, q, g)
  PROVE  G!Revoke(p, q)
<1> USE NullAssumption
<1> DEFINE inv == Invitations(ties)
           kept == inv \ {<<p, q>>}
<1>1. /\ Agree(ties)
      /\ LeaderOf = Leads(ties) /\ Invites = inv
      /\ LeaderOf' = Leads(ties') /\ Invites' = Invitations(ties')
  BY ViewNow, ViewNext DEF Inv
<1>2. /\ ties.leader[g] = p /\ q \in ties.invitees[g]
      /\ ties' = RemoveInvites(ties, {g}, q) /\ online' = online
  BY DEF RevokeInvitation, IsInviting
<1>3. \A i : i \in kept <=> i \in inv /\ \A f \in {g} : i # <<ties.leader[f], q>>
  BY <1>2
<1> HIDE DEF kept
<1>4. Leads(ties') = G!Settled(Leads(ties), kept) /\ Invitations(ties') = kept
  BY <1>1, <1>2, <1>3, RemovedFacts
<1>5. <<p, q>> \in inv
  BY <1>1, <1>2, InvitationsFacts
<1> QED BY <1>1, <1>2, <1>4, <1>5 DEF G!Revoke, kept

(* playerPassPartyLeadership.                                               *)
LEMMA PassFacts ==
  ASSUME Inv, Inv', NEW p \in Players, NEW q \in Players, NEW g \in Parties,
         PassLeadership(p, q, g)
  PROVE  G!PassLeadership(p, q)
<1> USE NullAssumption
<1> DEFINE lo == Leads(ties)
           inv == Invitations(ties)
<1>1. /\ Agree(ties) /\ Agree(ties') /\ ties \in Ties
      /\ LeaderOf = lo /\ Invites = inv
      /\ LeaderOf' = Leads(ties') /\ Invites' = Invitations(ties')
  BY ViewNow, ViewNext DEF Inv, Agree, NearlyAgree
<1>2. /\ ties.party[p] = g /\ ties.leader[g] = p /\ p # q /\ ties.party[q] = g
      /\ ties' = PassPartyLeadership(ties, g, q) /\ online' = online
  BY DEF PassLeadership
<1>3. /\ ties'.party = ties.party /\ ties'.invitees = ties.invitees
      /\ ties'.leader[g] = q
      /\ \A f \in Parties \ {g} : ties'.leader[f] = ties.leader[f] /\ ties.leader[f] # p
  <2>1. ties'.party = ties.party /\ ties'.invitees = ties.invitees /\ ties'.leader[g] = q
    BY <1>1, <1>2 DEF PassPartyLeadership, Ties
  <2>2. \A f \in Parties \ {g} : ties'.leader[f] = ties.leader[f]
    BY <1>1, <1>2 DEF PassPartyLeadership, Ties
  <2>3. \A f \in Parties \ {g} : ties.leader[f] # p
    BY <1>1, <1>2, GroupFacts
  <2> QED BY <2>1, <2>2, <2>3
<1>4. lo[p] = p /\ lo[q] = p
  BY <1>2 DEF Leads
<1>5. Leads(ties') = G!Follow(lo, p, q)
  <2> DEFINE new == G!Follow(lo, p, q)
  <2>1. new = [r \in Players |-> IF lo[r] = p THEN q ELSE lo[r]]
    BY DEF G!Follow
  <2> HIDE DEF new
  <2>2. \A r \in Players : ties.party[r] \in Parties \cup {NoParty}
    BY <1>1 DEF Ties
  <2>3. \A r \in Players : Leads(ties')[r] = IF lo[r] = p THEN q ELSE lo[r]
    BY <1>2, <1>3, <2>2 DEF Leads
  <2> HIDE DEF lo
  <2>4. \A r \in Players : Leads(ties')[r] = new[r]
    BY <2>1, <2>3
  <2>5. new = [r \in Players |-> new[r]]
    BY <2>1
  <2>6. Leads(ties') = new
    BY <2>4, <2>5, SameLeads
  <2> QED BY <2>6 DEF new
<1>6. Invitations(ties') = G!Inherit(inv, p, q)
  <2>1. /\ \A i : i \in inv <=>
             \E f \in Parties : \E r \in ties.invitees[f] : i = <<ties.leader[f], r>>
        /\ \A i : i \in Invitations(ties') <=>
             \E f \in Parties : \E r \in ties.invitees[f] : i = <<ties'.leader[f], r>>
    BY <1>1, <1>3, InvitationsFacts
  <2>2. \A f \in Parties : ties'.leader[f] = IF ties.leader[f] = p THEN q ELSE ties.leader[f]
    BY <1>2, <1>3
  <2> HIDE DEF inv
  <2>3. ASSUME NEW i, i \in Invitations(ties')
        PROVE  \E j \in inv : i = <<IF j[1] = p THEN q ELSE j[1], j[2]>>
    <3>1. PICK f \in Parties : \E r \in ties.invitees[f] : i = <<ties'.leader[f], r>>
      BY <2>1, <2>3
    <3>2. PICK r : r \in ties.invitees[f] /\ i = <<ties'.leader[f], r>>
      BY <3>1
    <3>3. <<ties.leader[f], r>> \in inv
      BY <2>1, <3>2
    <3> QED BY <2>2, <3>2, <3>3
  <2>4. ASSUME NEW j, j \in inv
        PROVE  <<IF j[1] = p THEN q ELSE j[1], j[2]>> \in Invitations(ties')
    <3>1. PICK f \in Parties : \E r \in ties.invitees[f] : j = <<ties.leader[f], r>>
      BY <2>1, <2>4
    <3>2. PICK r : r \in ties.invitees[f] /\ j = <<ties.leader[f], r>>
      BY <3>1
    <3>3. <<ties'.leader[f], r>> \in Invitations(ties')
      BY <2>1, <3>2
    <3> QED BY <2>2, <3>2, <3>3
  <2> QED BY <2>3, <2>4 DEF G!Inherit
<1> QED BY <1>1, <1>2, <1>4, <1>5, <1>6 DEF G!PassLeadership, G!Group

(* playerLeaveParty.                                                        *)
LEMMA LeaveFacts ==
  ASSUME Inv, Inv', NEW p \in Players, NEW g \in Parties, Leave(p, g)
  PROVE  G!Leave(p)
<1>1. /\ Agree(ties) /\ Agree(ties')
      /\ LeaderOf = Leads(ties) /\ Invites = Invitations(ties)
  BY ViewNow DEF Inv
<1>2. ties.party[p] = g /\ ties' = LeaveParty(ties, g, p) /\ online' = online
  BY DEF Leave
<1>3. G!Goes(p, Leads(ties), Invitations(ties))
  BY <1>1, <1>2, GoesFacts
<1>4. Leads(ties)[p] # NoPlayer
  BY <1>1, <1>2, LeadsFacts, NullAssumption
<1> QED BY <1>1, <1>2, <1>3, <1>4 DEF G!Leave

(* clearPartyInvitations: nobody invites p any longer.                      *)
LEMMA ClearedView ==
  ASSUME Inv, NEW p \in Players
  PROVE  LET kept == {i \in Invitations(ties) : i[2] # p}
         IN /\ Leads(Cleared(p)) = G!Settled(Leads(ties), kept)
            /\ Invitations(Cleared(p)) = kept
<1> DEFINE gs == ties.invitations[p]
           kept == {i \in Invitations(ties) : i[2] # p}
<1>1. /\ Agree(ties) /\ gs \in SUBSET Parties
      /\ \A f \in Parties : f \in gs <=> p \in ties.invitees[f]
  BY DEF Inv, Agree, NearlyAgree, Mirrored, Ties
<1>2. Cleared(p) = RemoveInvites(ties, gs, p)
  BY ClearedFacts
<1>3. \A i : i \in kept <=> i \in Invitations(ties) /\ \A f \in gs : i # <<ties.leader[f], p>>
  <2>1. ASSUME NEW i, i \in Invitations(ties), i[2] = p
        PROVE  \E f \in gs : i = <<ties.leader[f], p>>
    <3>1. PICK f \in Parties : \E q \in ties.invitees[f] : i = <<ties.leader[f], q>>
      BY <1>1, <2>1, InvitationsFacts
    <3>2. PICK q : q \in ties.invitees[f] /\ i = <<ties.leader[f], q>>
      BY <3>1
    <3> QED BY <1>1, <2>1, <3>2
  <2>2. ASSUME NEW i, NEW f \in gs, i = <<ties.leader[f], p>>  PROVE  i[2] = p
    BY <2>2
  <2> QED BY <2>1, <2>2
<1> HIDE DEF kept, gs
<1>4. /\ Leads(Cleared(p)) = G!Settled(Leads(ties), kept)
      /\ Invitations(Cleared(p)) = kept
  BY <1>1, <1>2, <1>3, RemovedFacts
<1> QED BY <1>4 DEF kept

(* Player::onCreatureDisappear, for a player in a party and for another.     *)
LEMMA LogoutFacts ==
  ASSUME Inv, Inv', NEW p \in Players,
         LogoutAlone(p) \/ \E g \in Parties : LogoutOfParty(p, g)
  PROVE  G!Logout(p)
<1> DEFINE kept == {i \in Invitations(ties) : i[2] # p}
           lo == Leads(Cleared(p))
<1>1. /\ Agree(ties') /\ Agree(Cleared(p))
      /\ LeaderOf = Leads(ties) /\ Invites = Invitations(ties)
      /\ LeaderOf' = Leads(ties') /\ Invites' = Invitations(ties')
  BY ViewNow, ViewNext, ClearedFacts DEF Inv
<1>2. p \in online /\ online' = online \ {p}
  BY DEF LogoutAlone, LogoutOfParty
<1>3. lo = G!Settled(Leads(ties), kept) /\ Invitations(Cleared(p)) = kept
  BY ClearedView
<1>4. CASE LogoutAlone(p)
  <2>1. Cleared(p).party[p] = NoParty /\ ties' = Cleared(p)
    BY <1>4 DEF LogoutAlone
  <2>2. lo[p] = NoPlayer
    BY <1>1, <2>1, LeadsFacts
  <2>3. LeaderOf' = lo /\ Invites' = kept
    BY <1>1, <1>3, <2>1
  <2> HIDE DEF lo, kept
  <2>4. G!Goes(p, lo, kept)
    BY <2>2, <2>3 DEF G!Goes
  <2> QED BY <1>1, <1>2, <1>3, <2>4 DEF G!Logout, kept
<1>5. ASSUME NEW g \in Parties, LogoutOfParty(p, g)  PROVE  G!Logout(p)
  <2>1. Cleared(p).party[p] = g /\ ties' = LeaveParty(Cleared(p), g, p)
    BY <1>5 DEF LogoutOfParty
  <2>2. G!Goes(p, lo, Invitations(Cleared(p)))
    BY <1>1, <2>1, GoesFacts
  <2> HIDE DEF lo, kept
  <2>3. G!Goes(p, lo, kept)
    BY <1>3, <2>2
  <2> QED BY <1>1, <1>2, <1>3, <2>3 DEF G!Logout, kept
<1> QED BY <1>4, <1>5

(* One case per action.                                                     *)
LEMMA GroupsStep == Inv /\ Inv' /\ [Next]_vars => [G!Next]_(G!vars)
<1> SUFFICES ASSUME Inv, Inv', [Next]_vars  PROVE  [G!Next]_(G!vars)
  OBVIOUS
<1>1. ASSUME UNCHANGED ties  PROVE  UNCHANGED <<LeaderOf, Invites>>
  BY <1>1 DEF LeaderOf, Invites
<1>2. ASSUME NEW p \in Players, Login(p)  PROVE  G!Login(p)
  BY <1>1, <1>2 DEF Login, G!Login
<1>3. CASE UNCHANGED vars
  BY <1>1, <1>3 DEF vars, G!vars
<1>4. CASE Next
  BY <1>2, <1>4, InviteFacts, JoinGroupFacts, RevokeFacts, PassFacts, LeaveFacts, LogoutFacts
     DEF Next, G!Next
<1> QED BY <1>3, <1>4

(* What players see of parties is what PartyGroups says: whoever joins was   *)
(* invited, a leader who goes is succeeded by a member or the party ends,    *)
(* and a party ends exactly when its leader is alone with no invitation.     *)
THEOREM PartyImplementsPartyGroups == Spec => ImplementsPartyGroups
  BY GroupsInit, GroupsStep, InvHolds, PTL DEF Spec, ImplementsPartyGroups, G!Spec

-----------------------------------------------------------------------------
(* Shared experience.                                                       *)

(* The types of what shared experience adds to the state.                  *)
SharingTypes ==
  /\ active \in [Parties -> BOOLEAN]
  /\ enabled \in [Parties -> BOOLEAN]
  /\ pointMap \in [Parties -> [Players -> {"none", "old", "recent"}]]
  /\ level \in [Players -> Levels]
  /\ place \in [Players -> Places]

(* SharingIsCurrent of one party.                                           *)
Current(g) ==
  active[g] => /\ CanEnable(g, {"recent"}) => enabled[g]
               /\ enabled[g] => CanEnable(g, {"recent", "old"})

(* What the proof carries from state to state.                              *)
SharingInv == SharingTypes /\ Inv /\ PointsOfMembers /\ SharingIsCurrent

-----------------------------------------------------------------------------
(* Nothing that CanEnable asks for changes, except that points grow old.     *)
Unconcerned(g) ==
  /\ active[g]
  /\ enabled'[g] = enabled[g]
  /\ ties'.leader[g] = ties.leader[g] /\ ties'.members[g] = ties.members[g]
  /\ \A p \in InParty(ties, g) :
       /\ level'[p] = level[p] /\ place'[p] = place[p]
       /\ \/ pointMap'[g][p] = pointMap[g][p]
          \/ pointMap[g][p] = "recent" /\ pointMap'[g][p] = "old"

Updated(g) == enabled'[g] = CanEnable(g, {"recent"})'

(* Recent points are enough where older ones would be.                      *)
LEMMA CanEnableMonotone ==
  ASSUME NEW g
  PROVE  CanEnable(g, {"recent"}) => CanEnable(g, {"recent", "old"})
  BY DEF CanEnable, CanUse

(* Where nothing but age changes, who may share stays right.                *)
LEMMA UnconcernedFacts ==
  ASSUME NEW g \in Parties, Unconcerned(g)
  PROVE  /\ CanEnable(g, {"recent"})' => CanEnable(g, {"recent"})
         /\ CanEnable(g, {"recent", "old"}) => CanEnable(g, {"recent", "old"})'
<1>1. InParty(ties', g) = InParty(ties, g) /\ ties.leader[g] \in InParty(ties, g)
  BY DEF Unconcerned, InParty
<1>2. HighestLevel(g)' = HighestLevel(g)
  <2>1. {level'[p] : p \in InParty(ties', g)} = {level[p] : p \in InParty(ties, g)}
    BY <1>1 DEF Unconcerned
  <2> QED BY <2>1 DEF HighestLevel
<1>3. MinLevel(g)' = MinLevel(g)
  BY <1>2 DEF MinLevel
<1>4. ASSUME NEW p \in InParty(ties, g)
      PROVE  /\ CanUse(g, p, {"recent"})' => CanUse(g, p, {"recent"})
             /\ CanUse(g, p, {"recent", "old"}) => CanUse(g, p, {"recent", "old"})'
  BY <1>1, <1>3 DEF Unconcerned, CanUse
<1> QED BY <1>1, <1>4 DEF CanEnable

(* A flag stays right if the party is unconcerned or looked at again.       *)
LEMMA CurrentStep ==
  ASSUME NEW g \in Parties, Current(g), active'[g] => Unconcerned(g) \/ Updated(g)
  PROVE  Current(g)'
<1>1. CASE Unconcerned(g)
  BY <1>1, UnconcernedFacts DEF Current, Unconcerned
<1>2. CASE Updated(g)
  <2>1. (CanEnable(g, {"recent"}) => CanEnable(g, {"recent", "old"}))'
    BY CanEnableMonotone, PTL
  <2> QED BY <1>2, <2>1 DEF Current, Updated
<1> QED BY <1>1, <1>2 DEF Current

-----------------------------------------------------------------------------
(* SharingIsCurrent, party by party.                                        *)
LEMMA CleanParties ==
  SharingIsCurrent <=> \A g \in Parties : Current(g)
  BY DEF SharingIsCurrent, Current

(* Each party ends, keeps its leader and members, or, if it is one of gs, at *)
(* most loses p.                                                            *)
PartiesKept(p, gs) ==
  \A f \in Parties :
    \/ ties'.leader[f] = NoPlayer
    \/ f \notin gs /\ ties'.leader[f] = ties.leader[f] /\ ties'.members[f] = ties.members[f]
    \/ f \in gs /\ InParty(ties, f) \ {p} \subseteq InParty(ties', f)

(* leaveParty and clearPartyInvitations: those who leave lose their points,  *)
(* and the parties they leave are looked at again.                          *)
LEMMA AfterLeavingKeeps ==
  ASSUME SharingInv, Inv', Unmoved, NEW p \in Players, NEW gs \in SUBSET Parties,
         AfterLeaving(p, gs), PartiesKept(p, gs)
  PROVE  SharingInv'
<1>1. /\ level' = level /\ place' = place
      /\ active' = [g \in Parties |-> active[g] /\ ~Gone(g)]
      /\ enabled' = [g \in Parties |->
                      /\ ~Gone(g)
                      /\ IF g \in gs /\ active[g] THEN CanEnable(g, {"recent"})' ELSE enabled[g]]
      /\ pointMap' = [g \in Parties |->
                       IF Gone(g) THEN [q \in Players |-> "none"]
                       ELSE IF g \in gs THEN [pointMap[g] EXCEPT ![p] = "none"]
                       ELSE pointMap[g]]
  BY DEF Unmoved, AfterLeaving, UpdateOrDelete
<1>2. Agree(ties) /\ Agree(ties')
  BY DEF SharingInv, Inv
<1>3. SharingTypes'
  <2>1. active' \in [Parties -> BOOLEAN]
    BY <1>1
  <2>2. enabled' \in [Parties -> BOOLEAN]
    <3>1. ASSUME NEW g \in Parties
          PROVE  enabled[g] \in BOOLEAN /\ CanEnable(g, {"recent"})' \in BOOLEAN
      BY DEF SharingInv, SharingTypes, CanEnable
    <3> QED BY <1>1, <3>1
  <2>3. pointMap' \in [Parties -> [Players -> {"none", "old", "recent"}]]
    BY <1>1 DEF SharingInv, SharingTypes
  <2> QED BY <1>1, <2>1, <2>2, <2>3 DEF SharingInv, SharingTypes
<1>4. PointsOfMembers'
  <2>1. ASSUME NEW g \in Parties, NEW q \in Players, pointMap'[g][q] # "none"
        PROVE  ties'.party[q] = g
    <3>1. ~Gone(g) /\ pointMap[g][q] # "none" /\ (g \in gs => q # p)
      BY <1>1, <2>1 DEF SharingInv, SharingTypes
    <3>2. q \in InParty(ties, g) /\ ties.leader[g] # NoPlayer
      BY <1>2, <3>1, MemberFacts DEF SharingInv, PointsOfMembers
    <3>3. ties'.leader[g] # NoPlayer
      BY <3>1, <3>2 DEF Gone
    <3>4. q \in InParty(ties', g)
      BY <3>1, <3>2, <3>3 DEF PartiesKept, InParty
    <3> QED BY <1>2, <3>4, MemberFacts
  <2>2. ASSUME NEW g \in Parties, ties'.leader[g] = NoPlayer  PROVE  ~active'[g]
    BY <1>1, <2>2 DEF SharingInv, PointsOfMembers, Gone
  <2> QED BY <2>1, <2>2 DEF PointsOfMembers
<1>5. ASSUME NEW g \in Parties, active'[g]  PROVE  Unconcerned(g) \/ Updated(g)
  <2>1. active[g] /\ ~Gone(g)
    BY <1>1, <1>5
  <2>2. ties.leader[g] # NoPlayer /\ ties'.leader[g] # NoPlayer
    BY <2>1 DEF SharingInv, PointsOfMembers, Gone
  <2>3. CASE g \in gs
    <3> DEFINE may == CanEnable(g, {"recent"})'
    <3>1. enabled'[g] = (/\ ~Gone(g)
                         /\ IF g \in gs /\ active[g] THEN may ELSE enabled[g])
      BY <1>1
    <3>2. may \in BOOLEAN
      BY DEF CanEnable
    <3> HIDE DEF may
    <3>3. enabled'[g] = may
      BY <2>1, <2>3, <3>1, <3>2
    <3> QED BY <3>3 DEF Updated, may
  <2>4. CASE g \notin gs
    <3>1. enabled'[g] = enabled[g]
      BY <1>1, <2>1, <2>4 DEF SharingInv, SharingTypes
    <3>2. pointMap'[g] = pointMap[g]
      BY <1>1, <2>1, <2>4
    <3> QED BY <1>1, <2>1, <2>2, <2>4, <3>1, <3>2 DEF PartiesKept, Unconcerned
  <2> QED BY <2>3, <2>4
<1>6. \A g \in Parties : Current(g)'
  BY <1>5, CleanParties, CurrentStep DEF SharingInv
<1>7. SharingIsCurrent'
  BY <1>6 DEF SharingIsCurrent, Current
<1> QED BY <1>3, <1>4, <1>7 DEF SharingInv

(* updateSharedExperience of gs, when the other parties have not changed.    *)
LEMMA UpdateKeeps ==
  ASSUME SharingInv, Inv', NEW gs \in SUBSET Parties, Update(gs), active' = active,
         pointMap' \in [Parties -> [Players -> {"none", "old", "recent"}]],
         level' \in [Players -> Levels], place' \in [Players -> Places],
         PointsOfMembers',
         \A f \in Parties \ gs :
           /\ ties'.leader[f] = ties.leader[f] /\ ties'.members[f] = ties.members[f]
           /\ \A q \in InParty(ties, f) : /\ level'[q] = level[q] /\ place'[q] = place[q]
                                          /\ pointMap'[f][q] = pointMap[f][q]
  PROVE  SharingInv'
<1>1. enabled' = [g \in Parties |-> IF g \in gs /\ active[g] THEN CanEnable(g, {"recent"})'
                                                            ELSE enabled[g]]
  BY DEF Update
<1>2. enabled' \in [Parties -> BOOLEAN]
  <2>1. ASSUME NEW g \in Parties
        PROVE  enabled[g] \in BOOLEAN /\ CanEnable(g, {"recent"})' \in BOOLEAN
    BY DEF SharingInv, SharingTypes, CanEnable
  <2> QED BY <1>1, <2>1
<1>3. SharingTypes'
  BY <1>2 DEF SharingInv, SharingTypes
<1>4. ASSUME NEW g \in Parties, active'[g]  PROVE  Unconcerned(g) \/ Updated(g)
  <2>1. CASE g \in gs
    BY <1>1, <1>4, <2>1 DEF Updated
  <2>2. CASE g \notin gs
    <3>1. enabled'[g] = enabled[g]
      BY <1>1, <2>2 DEF SharingInv, SharingTypes
    <3> QED BY <1>4, <2>2, <3>1 DEF Unconcerned
  <2> QED BY <2>1, <2>2
<1>5. \A g \in Parties : Current(g)'
  BY <1>4, CleanParties, CurrentStep DEF SharingInv
<1>6. SharingIsCurrent'
  BY <1>5 DEF SharingIsCurrent, Current
<1> QED BY <1>3, <1>6 DEF SharingInv

(* joinParty and passPartyLeadership.                                       *)
LEMMA AfterChangeKeeps ==
  ASSUME SharingInv, Inv', NEW g \in Parties, AfterChange(g),
         \A f \in Parties \ {g} :
           ties'.leader[f] = ties.leader[f] /\ ties'.members[f] = ties.members[f],
         InParty(ties, g) \subseteq InParty(ties', g),
         ties'.leader[g] # NoPlayer
  PROVE  SharingInv'
<1>1. UNCHANGED <<active, pointMap, level, place>> /\ Update({g})
  BY DEF AfterChange
<1>2. ASSUME NEW f \in Parties, NEW q \in Players, pointMap'[f][q] # "none"
      PROVE  ties'.party[q] = f
  <2>1. q \in InParty(ties, f)
    BY <1>1, <1>2, MemberFacts DEF SharingInv, PointsOfMembers, Inv
  <2>2. q \in InParty(ties', f)
    BY <2>1 DEF InParty
  <2> QED BY <2>2, MemberFacts DEF Inv
<1>3. PointsOfMembers'
  BY <1>1, <1>2 DEF SharingInv, PointsOfMembers
<1> QED BY <1>1, <1>3, UpdateKeeps DEF SharingInv, SharingTypes

(* Nobody comes or goes.                                                    *)
LEMMA SameTiesFacts ==
  ASSUME SharingInv, UNCHANGED vars  PROVE  Inv' /\ ties' = ties
  BY InvStep DEF vars, SharingInv

(* An invitation changes neither leaders nor members of a party that exists. *)
LEMMA InviteKeeps ==
  ASSUME SharingInv, Inv', UNCHANGED sharing,
         \A f \in Parties :
           \/ ties.leader[f] = NoPlayer
           \/ ties'.leader[f] = ties.leader[f] /\ ties'.members[f] = ties.members[f]
  PROVE  SharingInv'
<1>1. UNCHANGED <<active, enabled, pointMap, level, place>>
  BY DEF sharing
<1>2. ASSUME NEW f \in Parties, active'[f]  PROVE  Unconcerned(f)
  BY <1>1, <1>2 DEF SharingInv, PointsOfMembers, Unconcerned
<1>3. \A g \in Parties : Current(g)'
  BY <1>2, CleanParties, CurrentStep DEF SharingInv
<1>4. SharingIsCurrent'
  BY <1>3 DEF SharingIsCurrent, Current
<1>5. ASSUME NEW f \in Parties, NEW q \in Players, pointMap'[f][q] # "none"
      PROVE  ties'.party[q] = f
  <2>1. q \in InParty(ties, f) /\ ties.leader[f] # NoPlayer
    BY <1>1, <1>5, MemberFacts DEF SharingInv, PointsOfMembers, Inv
  <2>2. q \in InParty(ties', f)
    BY <2>1 DEF InParty
  <2> QED BY <2>2, MemberFacts DEF Inv
<1>6. PointsOfMembers'
  BY <1>1, <1>5 DEF SharingInv, PointsOfMembers
<1> QED BY <1>1, <1>4, <1>6 DEF SharingInv, SharingTypes

(* A party that loses an invitation keeps leader and members, or ends.       *)
LEMMA RemoveInvitesKeeps ==
  ASSUME NEW t, Agree(t), NEW p \in Players, NEW gs \in SUBSET Parties, NEW f \in Parties
  PROVE  LET u == RemoveInvites(t, gs, p)
         IN \/ u.leader[f] = NoPlayer
            \/ u.leader[f] = t.leader[f] /\ u.members[f] = t.members[f]
<1> DEFINE u == RemoveInvites(t, gs, p)
<1>1. /\ t.members[f] = <<>> /\ Kept(t, gs, p, f) = {} => Deleted(u, f)
      /\ t.members[f] # <<>> \/ Kept(t, gs, p, f) # {} =>
           u.leader[f] = t.leader[f] /\ u.members[f] = t.members[f]
  BY RemoveInvitesEffect
<1> HIDE DEF u
<1>2. u.leader[f] = NoPlayer \/ (u.leader[f] = t.leader[f] /\ u.members[f] = t.members[f])
  BY <1>1 DEF Deleted
<1> QED BY <1>2 DEF u

(* One case per step: first those of Party, whose effect on the parties is   *)
(* known, then those that change what sharing depends on.                   *)
LEMMA PartyStepsKeep ==
  ASSUME SharingInv, PartySteps
  PROVE  SharingInv'
<1>1. Next
  BY DEF PartySteps, Next
<1>2. Inv'
  BY <1>1, InvStep DEF SharingInv
<1>3. Agree(ties) /\ Agree(ties') /\ ties \in Ties
  BY <1>2 DEF SharingInv, Inv, Agree, NearlyAgree
<1>4. ASSUME NEW p \in Players, Login(p), UNCHANGED sharing  PROVE  SharingInv'
  BY <1>2, <1>4, InviteKeeps DEF Login
<1>5. ASSUME NEW p \in Players
      PROVE  /\ Agree(Cleared(p))
             /\ \A f \in Parties : \/ Cleared(p).leader[f] = NoPlayer
                                   \/ /\ Cleared(p).leader[f] = ties.leader[f]
                                      /\ Cleared(p).members[f] = ties.members[f]
  <2>1. ties.invitations[p] \in SUBSET Parties
    BY <1>3 DEF Ties
  <2>2. Agree(Cleared(p)) /\ Cleared(p) = RemoveInvites(ties, ties.invitations[p], p)
    BY ClearedFacts DEF SharingInv
  <2> QED BY <1>3, <2>1, <2>2, RemoveInvitesKeeps
<1>6. ASSUME NEW p \in Players, LogoutAlone(p), Unmoved, AfterLeaving(p, {})
      PROVE  SharingInv'
  <2>1. PartiesKept(p, {})
    BY <1>5, <1>6 DEF LogoutAlone, PartiesKept
  <2> QED BY <1>2, <1>6, <2>1, AfterLeavingKeeps
<1>7. ASSUME NEW t, Agree(t), NEW p \in Players, NEW g \in Parties, t.party[p] = g,
             ties' = LeaveParty(t, g, p),
             \A f \in Parties : \/ t.leader[f] = NoPlayer
                                \/ t.leader[f] = ties.leader[f] /\ t.members[f] = ties.members[f]
      PROVE  PartiesKept(p, {g})
  <2>1. /\ \A f \in Parties \ {g} : SameParty(t, ties', f)
        /\ Ends(t, g, p) => Deleted(ties', g)
        /\ ~Ends(t, g, p) => Range(ties'.members[g]) = InParty(t, g) \ {p, ties'.leader[g]}
    BY <1>7, LeavePartyEffect
  <2>2. t.leader[g] # NoPlayer
    BY <1>7, MemberFacts
  <2>3. InParty(ties, g) = InParty(t, g)
    BY <1>7, <2>2 DEF InParty
  <2>4. ties'.leader[g] = NoPlayer \/ InParty(ties, g) \ {p} \subseteq InParty(ties', g)
    BY <2>1, <2>3 DEF InParty, Deleted
  <2> QED BY <1>7, <2>1, <2>4 DEF PartiesKept, SameParty
<1>8. ASSUME NEW p \in Players, NEW g \in Parties, Leave(p, g), Unmoved, AfterLeaving(p, {g})
      PROVE  SharingInv'
  <2>1. PartiesKept(p, {g})
    BY <1>3, <1>7, <1>8 DEF Leave
  <2> QED BY <1>2, <1>8, <2>1, AfterLeavingKeeps
<1>9. ASSUME NEW p \in Players, NEW g \in Parties, LogoutOfParty(p, g), Unmoved,
             AfterLeaving(p, {g})
      PROVE  SharingInv'
  <2>1. PartiesKept(p, {g})
    BY <1>5, <1>7, <1>9 DEF LogoutOfParty
  <2> QED BY <1>2, <1>9, <2>1, AfterLeavingKeeps
<1>10. ASSUME NEW p \in Players, NEW q \in Players, NEW g \in Parties,
              InviteToNewParty(p, q, g) \/ InviteToParty(p, q, g), UNCHANGED sharing
       PROVE  SharingInv'
  <2>1. \A f \in Parties : \/ ties.leader[f] = NoPlayer
                           \/ /\ ties'.leader[f] = ties.leader[f]
                              /\ ties'.members[f] = ties.members[f]
    <3>1. CASE InviteToNewParty(p, q, g)
      <4>1. ties.leader[g] = NoPlayer
        BY <3>1 DEF InviteToNewParty
      <4>2. ties'.leader = [ties.leader EXCEPT ![g] = p] /\ ties'.members = ties.members
        BY <1>3, <3>1 DEF InviteToNewParty, AddInvite, Ties
      <4> QED BY <1>3, <4>1, <4>2 DEF Ties
    <3>2. CASE InviteToParty(p, q, g)
      BY <1>3, <3>2 DEF InviteToParty, AddInvite, Ties
    <3> QED BY <1>10, <3>1, <3>2
  <2> QED BY <1>2, <1>10, <2>1, InviteKeeps
<1>11. ASSUME NEW p \in Players, NEW q \in Players, NEW g \in Parties,
              JoinParty(q, p, g), AfterChange(g)
       PROVE  SharingInv'
  <2>1. /\ ties'.leader = ties.leader
        /\ ties'.members = [ties.members EXCEPT ![g] = Append(@, q)]
        /\ ties.leader[g] = p
    BY <1>3, <1>11 DEF JoinParty, IsInviting, Ties
  <2>2. Range(ties'.members[g]) = Range(ties.members[g]) \cup {q}
    BY <1>3, <2>1, AppendFacts DEF Ties
  <2>3. InParty(ties, g) \subseteq InParty(ties', g)
    BY <2>1, <2>2 DEF InParty
  <2>4. \A f \in Parties \ {g} : ties'.members[f] = ties.members[f]
    BY <1>3, <2>1 DEF Ties
  <2> QED BY <1>2, <1>11, <2>1, <2>3, <2>4, NullAssumption, AfterChangeKeeps
<1>12. ASSUME NEW p \in Players, NEW q \in Players, NEW g \in Parties,
              PassLeadership(p, q, g), AfterChange(g)
       PROVE  SharingInv'
  <2>1. /\ ties.leader[g] = p /\ p # q /\ ties.party[q] = g
        /\ ties' = PassPartyLeadership(ties, g, q)
    BY <1>12 DEF PassLeadership
  <2>2. q \in Range(ties.members[g])
    BY <1>3, <2>1, MemberFacts DEF InParty
  <2>3. /\ ties'.leader[g] = q
        /\ Range(ties'.members[g]) = {ties.leader[g]} \cup (Range(ties.members[g]) \ {q})
    BY <1>3, <2>1, <2>2, PassPartyLeadershipFacts
  <2>4. InParty(ties, g) \subseteq InParty(ties', g)
    BY <2>3 DEF InParty
  <2>5. \A f \in Parties \ {g} : /\ ties'.leader[f] = ties.leader[f]
                                 /\ ties'.members[f] = ties.members[f]
    BY <1>3, <2>1 DEF PassPartyLeadership, Ties
  <2> QED BY <1>2, <1>12, <2>3, <2>4, <2>5, NullAssumption, AfterChangeKeeps
<1>13. ASSUME NEW p \in Players, NEW q \in Players, NEW g \in Parties,
              RevokeInvitation(p, q, g), Unmoved, AfterLeaving(q, {})
       PROVE  SharingInv'
  <2>1. ties' = RemoveInvites(ties, {g}, q)
    BY <1>13 DEF RevokeInvitation
  <2>2. PartiesKept(q, {})
    BY <1>3, <2>1, RemoveInvitesKeeps DEF PartiesKept
  <2> QED BY <1>2, <1>13, <2>2, AfterLeavingKeeps
<1> QED
  BY <1>4, <1>6, <1>8, <1>9, <1>10, <1>11, <1>12, <1>13 DEF PartySteps

-----------------------------------------------------------------------------
(* What the other parties depend on stays when one player changes.          *)
LEMMA OtherParties ==
  ASSUME SharingInv, NEW p \in Players, NEW f \in Parties \ PartyOf(p)
  PROVE  p \notin InParty(ties, f)
  BY MemberFacts, NullAssumption DEF SharingInv, Inv, PartyOf

(* One case per step that changes levels, places, points or the flag.       *)
LEMMA SharingStepsKeep ==
  ASSUME SharingInv, SharingSteps
  PROVE  SharingInv'
<1>1. UNCHANGED vars
  BY DEF SharingSteps, ChangeLevel, Move, AddPoints, PointsAge, Idle, SetSharedExperience
<1>2. Inv' /\ ties' = ties
  BY <1>1, SameTiesFacts
<1>3. SharingTypes /\ PointsOfMembers
  BY DEF SharingInv
<1>4. ASSUME NEW p \in Players, NEW l \in Levels, ChangeLevel(p, l)  PROVE  SharingInv'
  <2>1. level' = [level EXCEPT ![p] = l] /\ UNCHANGED <<active, pointMap, place>> /\ Update(PartyOf(p))
    BY <1>4 DEF ChangeLevel
  <2>2. PartyOf(p) \in SUBSET Parties /\ level' \in [Players -> Levels]
    BY <1>2, <1>3, <2>1 DEF PartyOf, SharingTypes, SharingInv, Inv, Agree, NearlyAgree, Ties
  <2>3. PointsOfMembers'
    BY <1>2, <1>3, <2>1 DEF PointsOfMembers
  <2>4. \A f \in Parties \ PartyOf(p) : \A q \in InParty(ties, f) : level'[q] = level[q]
    BY <1>3, <2>1, OtherParties DEF SharingTypes
  <2> QED BY <1>2, <1>3, <2>1, <2>2, <2>3, <2>4, UpdateKeeps DEF SharingTypes
<1>5. ASSUME NEW p \in Players, NEW x \in Places, Move(p, x)  PROVE  SharingInv'
  <2>1. place' = [place EXCEPT ![p] = x] /\ UNCHANGED <<active, pointMap, level>> /\ Update(PartyOf(p))
    BY <1>5 DEF Move
  <2>2. PartyOf(p) \in SUBSET Parties /\ place' \in [Players -> Places]
    BY <1>2, <1>3, <2>1 DEF PartyOf, SharingTypes, SharingInv, Inv, Agree, NearlyAgree, Ties
  <2>3. PointsOfMembers'
    BY <1>2, <1>3, <2>1 DEF PointsOfMembers
  <2>4. \A f \in Parties \ PartyOf(p) : \A q \in InParty(ties, f) : place'[q] = place[q]
    BY <1>3, <2>1, OtherParties DEF SharingTypes
  <2> QED BY <1>2, <1>3, <2>1, <2>2, <2>3, <2>4, UpdateKeeps DEF SharingTypes
<1>6. ASSUME NEW p \in Players, NEW g \in Parties, NEW v \in {"none", "old", "recent"},
             pointMap' = [pointMap EXCEPT ![g][p] = v],
             v = "none" \/ ties.party[p] = g
      PROVE  /\ pointMap' \in [Parties -> [Players -> {"none", "old", "recent"}]]
             /\ pointMap'[g][p] = v
             /\ \A q \in Players \ {p} : pointMap'[g][q] = pointMap[g][q]
             /\ \A f \in Parties \ {g} : pointMap'[f] = pointMap[f]
             /\ active' = active => PointsOfMembers'
  <2>1. /\ pointMap' \in [Parties -> [Players -> {"none", "old", "recent"}]]
        /\ pointMap'[g][p] = v
        /\ \A q \in Players \ {p} : pointMap'[g][q] = pointMap[g][q]
        /\ \A f \in Parties \ {g} : pointMap'[f] = pointMap[f]
    BY <1>3, <1>6 DEF SharingTypes
  <2>2. ASSUME NEW f \in Parties, NEW q \in Players, pointMap'[f][q] # "none"
        PROVE  ties'.party[q] = f
    BY <1>2, <1>3, <1>6, <2>1, <2>2 DEF PointsOfMembers
  <2>3. active' = active => PointsOfMembers'
    BY <1>2, <1>3, <2>2 DEF PointsOfMembers
  <2> QED BY <2>1, <2>3
<1>7. ASSUME NEW p \in Players, NEW g \in Parties, AddPoints(p, g)  PROVE  SharingInv'
  <2>1. /\ pointMap' = [pointMap EXCEPT ![g][p] = "recent"]
        /\ UNCHANGED <<active, level, place>> /\ Update({g}) /\ ties.party[p] = g
    BY <1>7 DEF AddPoints
  <2>2. /\ pointMap' \in [Parties -> [Players -> {"none", "old", "recent"}]]
        /\ PointsOfMembers'
        /\ \A f \in Parties \ {g} : pointMap'[f] = pointMap[f]
    BY <1>6, <2>1
  <2> QED BY <1>2, <1>3, <2>1, <2>2, UpdateKeeps DEF SharingTypes
<1>8. ASSUME NEW p \in Players, NEW g \in Parties, Idle(p, g)  PROVE  SharingInv'
  <2>1. /\ pointMap' = [pointMap EXCEPT ![g][p] = "none"]
        /\ UNCHANGED <<active, level, place>> /\ Update({g})
    BY <1>8 DEF Idle
  <2>2. /\ pointMap' \in [Parties -> [Players -> {"none", "old", "recent"}]]
        /\ PointsOfMembers'
        /\ \A f \in Parties \ {g} : pointMap'[f] = pointMap[f]
    BY <1>6, <2>1
  <2> QED BY <1>2, <1>3, <2>1, <2>2, UpdateKeeps DEF SharingTypes
<1>9. ASSUME NEW p \in Players, NEW g \in Parties, PointsAge(p, g)  PROVE  SharingInv'
  <2>1. /\ pointMap[g][p] = "recent" /\ pointMap' = [pointMap EXCEPT ![g][p] = "old"]
        /\ UNCHANGED <<active, enabled, level, place>>
    BY <1>9 DEF PointsAge
  <2>2. ties.party[p] = g
    BY <1>3, <2>1 DEF PointsOfMembers
  <2>3. /\ pointMap' \in [Parties -> [Players -> {"none", "old", "recent"}]]
        /\ active' = active => PointsOfMembers'
        /\ pointMap'[g][p] = "old"
        /\ \A q \in Players \ {p} : pointMap'[g][q] = pointMap[g][q]
        /\ \A f \in Parties \ {g} : pointMap'[f] = pointMap[f]
    <3>1. pointMap' = [pointMap EXCEPT ![g][p] = "old"] /\ "old" \in {"none", "old", "recent"}
      BY <2>1
    <3>2. /\ pointMap' \in [Parties -> [Players -> {"none", "old", "recent"}]]
          /\ pointMap'[g][p] = "old"
          /\ \A q \in Players \ {p} : pointMap'[g][q] = pointMap[g][q]
          /\ \A f \in Parties \ {g} : pointMap'[f] = pointMap[f]
      BY <1>3, <3>1 DEF SharingTypes
    <3>3. active' = active => PointsOfMembers'
      BY <1>6, <2>2, <3>1
    <3> QED BY <3>2, <3>3
  <2>4. \A f \in Parties, q \in Players :
          \/ pointMap'[f][q] = pointMap[f][q]
          \/ pointMap[f][q] = "recent" /\ pointMap'[f][q] = "old"
    BY <2>1, <2>3
  <2>5. \A f \in Parties : active[f] => InParty(ties, f) \subseteq Players
    BY <1>3 DEF SharingInv, Inv, Agree, NearlyAgree, Ties, InParty, Range, PointsOfMembers
  <2>6. \A f \in Parties : active'[f] => Unconcerned(f)
    BY <1>2, <2>1, <2>4, <2>5 DEF Unconcerned
  <2>7. \A f \in Parties : Current(f)'
    BY <2>6, CleanParties, CurrentStep DEF SharingInv
  <2>8. SharingIsCurrent'
    BY <2>7 DEF SharingIsCurrent, Current
  <2>9. PointsOfMembers'
    BY <2>1, <2>3
  <2> QED BY <1>2, <1>3, <2>1, <2>3, <2>8, <2>9 DEF SharingInv, SharingTypes
<1>10. ASSUME NEW p \in Players, NEW g \in Parties, NEW on \in BOOLEAN,
              SetSharedExperience(p, g, on)
       PROVE  SharingInv'
  <2> DEFINE may == CanEnable(g, {"recent"})
  <2>1. /\ active' = [active EXCEPT ![g] = on]
        /\ enabled' = IF on THEN [enabled EXCEPT ![g] = may] ELSE enabled
        /\ UNCHANGED <<pointMap, level, place>> /\ ties.leader[g] = p
    BY <1>10 DEF SetSharedExperience
  <2>2. may \in BOOLEAN
    BY DEF CanEnable
  <2>3. CanEnable(g, {"recent"})' = may
    BY <1>2, <2>1 DEF CanEnable, CanUse, MinLevel, HighestLevel, InParty
  <2> HIDE DEF may
  <2>4. active' \in [Parties -> BOOLEAN] /\ enabled' \in [Parties -> BOOLEAN]
    BY <1>3, <2>1, <2>2 DEF SharingTypes
  <2>5. PointsOfMembers'
    <3>1. ASSUME NEW f \in Parties, ties'.leader[f] = NoPlayer  PROVE  ~active'[f]
      BY <1>2, <1>3, <2>1, <3>1, NullAssumption DEF PointsOfMembers, SharingTypes
    <3> QED BY <1>2, <1>3, <2>1, <3>1 DEF PointsOfMembers
  <2>6. ASSUME NEW f \in Parties, active'[f]  PROVE  Unconcerned(f) \/ Updated(f)
    <3>1. CASE f # g
      <4>1. active[f] /\ enabled'[f] = enabled[f]
        BY <1>3, <2>1, <2>6, <3>1 DEF SharingTypes
      <4> QED BY <1>2, <2>1, <4>1 DEF Unconcerned
    <3>2. CASE f = g
      <4>1. on = TRUE
        BY <1>3, <2>1, <2>6, <3>2 DEF SharingTypes
      <4>2. enabled'[g] = may
        BY <1>3, <2>1, <4>1 DEF SharingTypes
      <4> QED BY <2>3, <3>2, <4>2 DEF Updated
    <3> QED BY <3>1, <3>2
  <2>7. \A f \in Parties : Current(f)'
    BY <2>6, CleanParties, CurrentStep DEF SharingInv
  <2>8. SharingIsCurrent'
    BY <2>7 DEF SharingIsCurrent, Current
  <2> QED BY <1>2, <1>3, <2>1, <2>4, <2>5, <2>8 DEF SharingInv, SharingTypes
<1> QED BY <1>4, <1>5, <1>7, <1>8, <1>9, <1>10 DEF SharingSteps

(* The invariant holds initially.                                           *)
LEMMA InitSharingInv == SharingInit => SharingInv
<1> SUFFICES ASSUME SharingInit  PROVE  SharingInv
  OBVIOUS
<1>1. Inv
  BY InitInv DEF SharingInit
<1>2. SharingTypes /\ PointsOfMembers /\ SharingIsCurrent
  BY DEF SharingInit, SharingTypes, PointsOfMembers, SharingIsCurrent
<1> QED BY <1>1, <1>2 DEF SharingInv

(* Every step keeps the invariant.                                          *)
LEMMA SharingInvStep == SharingInv /\ [SharingNext]_SharingVars => SharingInv'
<1> SUFFICES ASSUME SharingInv, [SharingNext]_SharingVars  PROVE  SharingInv'
  OBVIOUS
<1>1. CASE UNCHANGED SharingVars
  <2>1. UNCHANGED vars /\ UNCHANGED <<active, enabled, pointMap, level, place>>
    BY <1>1 DEF SharingVars, sharing
  <2>2. Inv' /\ ties' = ties
    BY <2>1, SameTiesFacts
  <2>3. \A f \in Parties : active'[f] => Unconcerned(f)
    BY <2>1, <2>2 DEF Unconcerned
  <2>4. \A f \in Parties : Current(f)'
    BY <2>3, CleanParties, CurrentStep DEF SharingInv
  <2>5. SharingIsCurrent'
    BY <2>4 DEF SharingIsCurrent, Current
  <2> QED BY <2>1, <2>2, <2>5 DEF SharingInv, SharingTypes, PointsOfMembers
<1> QED BY <1>1, PartyStepsKeep, SharingStepsKeep DEF SharingNext

(* The invariant holds in every behaviour.                                  *)
LEMMA SharingInvHolds == SharingSpec => []SharingInv
  BY InitSharingInv, SharingInvStep, PTL DEF SharingSpec

(* Whoever comes back to a party starts without points, and a party that     *)
(* ended shares nothing: leaveParty and disband clear them.                  *)
THEOREM PointsOfMembersHolds == SharingSpec => []PointsOfMembers
<1>1. SharingInv => PointsOfMembers
  BY DEF SharingInv
<1> QED BY <1>1, SharingInvHolds, PTL

(* Whether a party shares is never out of date, except for points that have  *)
(* grown old: every step that changes what CanEnable asks for looks again.   *)
THEOREM SharingIsCurrentHolds == SharingSpec => []SharingIsCurrent
<1>1. SharingInv => SharingIsCurrent
  BY DEF SharingInv
<1> QED BY <1>1, SharingInvHolds, PTL
=============================================================================
