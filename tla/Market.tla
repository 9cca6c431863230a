------------------------------- MODULE Market -------------------------------
(***************************************************************************)
(* The market (playerCreateMarketOffer to checkExpiredMarketOffers in        *)
(* src/src/game.cpp, src/src/iomarket.cpp): players offer to buy or to sell     *)
(* one kind of item at one price, cancel and accept offers, and the server    *)
(* ends those that expired.                                                  *)
(*                                                                          *)
(* Offers live in the database only, at once; what a player has lives in      *)
(* memory while the player is online and reaches the database when the        *)
(* player is saved.  A handler runs alone on the thread of the dispatcher:    *)
(* it changes memory and then executes statements one after the other, each   *)
(* of which may fail (most results are not checked) or be executed twice, and  *)
(* between which the server may crash.  To save a player is one statement here; *)
(* Database has the single ones.                                            *)
(*                                                                          *)
(* An item is a unit of "goods", wherever in the depot and the inbox it is.    *)
(* Requests of players who are not in the market, of more than the bounds of  *)
(* amount and price, or without a depot do nothing; the history of offers is  *)
(* left out.                                                                *)
(***************************************************************************)
EXTENDS Integers, Sequences, FiniteSetsExt, SequencesExt

CONSTANTS Players, NoOffer,
          Ids,         \* of the rows of market_offers; a new offer gets the first free one
          Price,       \* of one item, in every offer
          MaxAmount,   \* bound: items in one offer
          MaxOffers,   \* maxMarketOffersAtATimePerPlayer
          Start,       \* what each player has at first
          MaxFaults    \* bound: crashes, failed and repeated statements

ASSUME MarketAssumption ==
  /\ {Price, MaxAmount, MaxOffers} \subseteq Nat \ {0}
  /\ MaxFaults \in Nat
  /\ Ids \subseteq Nat
  /\ Start \in [Players -> [money : Nat, goods : Nat]]
  /\ IsFiniteSet(Players) /\ IsFiniteSet(Ids)
  /\ NoOffer \notin [owner : Players, buys : BOOLEAN, amount : Nat, expired : BOOLEAN]

VARIABLES
  online,
  memory,  \* what the players who are online have
  saved,   \* the rows of players
  offers,  \* market_offers
  writes,  \* the statements that the handler that runs still has to execute
  timer,   \* the next check for expired offers is scheduled
  faults

tables == <<saved, offers>>
vars == <<online, memory, tables, writes, timer, faults>>

Nothing == [money |-> 0, goods |-> 0]

Init ==
  /\ online = {}
  /\ memory = [p \in Players |-> Nothing]
  /\ saved = Start
  /\ offers = [o \in Ids |-> NoOffer]
  /\ writes = << >>
  /\ timer = TRUE
  /\ faults = 0

-----------------------------------------------------------------------------
(* Statements.                                                              *)

Insert(o, offer) == [kind |-> "insert", id |-> o, offer |-> offer]
Delete(o) == [kind |-> "delete", id |-> o]
Decrease(o, n) == [kind |-> "decrease", id |-> o, amount |-> n]
SaveOf(p, has) == [kind |-> "save", player |-> p, has |-> has]

(* increaseBankBalance; an offline player who is loaded, given items and saved. *)
Pay(p, amount) == [kind |-> "pay", player |-> p, amount |-> amount]
Store(p, amount) == [kind |-> "store", player |-> p, amount |-> amount]

(* The tables after a statement.                                            *)
Executed(db, w) ==
  CASE w.kind = "insert"   -> [db EXCEPT !.offers[w.id] = w.offer]
    [] w.kind = "delete"   -> [db EXCEPT !.offers[w.id] = NoOffer]
    [] w.kind = "decrease" -> [db EXCEPT !.offers[w.id].amount = @ - w.amount]
    [] w.kind = "save"     -> [db EXCEPT !.saved[w.player] = w.has]
    [] w.kind = "pay"      -> [db EXCEPT !.saved[w.player].money = @ + w.amount]
    [] w.kind = "store"    -> [db EXCEPT !.saved[w.player].goods = @ + w.amount]

Database == [saved |-> saved, offers |-> offers]

Succeeds ==
  /\ writes # << >>
  /\ LET after == Executed(Database, Head(writes))
     IN saved' = after.saved /\ offers' = after.offers
  /\ writes' = Tail(writes)
  /\ UNCHANGED <<online, memory, timer, faults>>

(* A second row is a new offer too.                                          *)
Unlisted(db) == {o \in Ids : db.offers[o] = NoOffer}

(* The tables when the server executed a statement, the connection was lost     *)
(* before the answer came, and executeQuery executed it again.  What is         *)
(* computed from the row counts twice, if the row has enough (an amount is      *)
(* unsigned).  To save is a transaction of many statements: those before the    *)
(* repeated one are rolled back, here the first, which writes the money.        *)
Repeated(db, w) ==
  LET once == Executed(db, w)
  IN CASE w.kind = "insert"   -> Executed(once, Insert(Min(Unlisted(once)), w.offer))
       [] w.kind = "decrease" -> IF w.amount <= once.offers[w.id].amount
                                 THEN Executed(once, w) ELSE once
       [] w.kind = "save"     -> [once EXCEPT !.saved[w.player].money = db.saved[w.player].money]
       [] w.kind = "pay"      -> Executed(once, w)
       [] w.kind \in {"delete", "store"} -> once

(* Bound: there is an id left for a second row.                              *)
Repeats ==
  /\ writes # << >>
  /\ faults < MaxFaults
  /\ Head(writes).kind = "insert" => Unlisted(Executed(Database, Head(writes))) # {}
  /\ LET after == Repeated(Database, Head(writes))
     IN saved' = after.saved /\ offers' = after.offers
  /\ faults' = faults + 1
  /\ writes' = Tail(writes)
  /\ UNCHANGED <<online, memory, timer>>

(* The handler goes on after a statement that failed; for savePlayer at logout *)
(* this is the third failure.                                               *)
Fails ==
  /\ writes # << >>
  /\ faults < MaxFaults
  /\ faults' = faults + 1
  /\ writes' = Tail(writes)
  /\ UNCHANGED <<online, memory, tables, timer>>

-----------------------------------------------------------------------------
(* Handlers.                                                                *)

Idle == writes = << >>

Listed(o) == offers[o] # NoOffer

(* (price / 100.) * amount, at least 20 and at most 1000                      *)
Fee(n) == Max({20, Min({1000, (Price * n) \div 100})})

(* What the owner of an offer, or of n items of it, gets back.               *)
Worth(offer, n) == IF offer.buys THEN [money |-> Price * n, goods |-> 0]
                   ELSE [money |-> 0, goods |-> n]

Plus(a, b) == [money |-> a.money + b.money, goods |-> a.goods + b.goods]
Minus(a, b) == [money |-> a.money - b.money, goods |-> a.goods - b.goods]
Covers(a, b) == a.money >= b.money /\ a.goods >= b.goods

Create(p, o, offer) ==
  LET cost == Plus(Worth(offer, offer.amount), [money |-> Fee(offer.amount), goods |-> 0])
  IN /\ Idle /\ p \in online
     /\ ~Listed(o) /\ \A i \in Ids : i < o => Listed(i)
     /\ Cardinality({i \in Ids : Listed(i) /\ offers[i].owner = p}) < MaxOffers
     /\ Covers(memory[p], cost)
     /\ memory' = [memory EXCEPT ![p] = Minus(@, cost)]
     /\ writes' = <<Insert(o, offer)>>
     /\ UNCHANGED <<online, tables, timer, faults>>

CreateSome(p, o) ==
  \E n \in 1..MaxAmount, buys \in BOOLEAN :
    Create(p, o, [owner |-> p, buys |-> buys, amount |-> n, expired |-> FALSE])

(* playerCancelMarketOffer: the refund comes before the offer is deleted.     *)
Cancel(p, o) ==
  /\ Idle /\ p \in online
  /\ Listed(o) /\ offers[o].owner = p
  /\ memory' = [memory EXCEPT ![p] = Plus(@, Worth(offers[o], offers[o].amount))]
  /\ writes' = <<Delete(o)>>
  /\ UNCHANGED <<online, tables, timer, faults>>

(* A plausible mistake: an accepted offer is done with.                      *)
TakeAll(o, n) == <<Delete(o)>>

Take(o, n) == IF n = offers[o].amount THEN <<Delete(o)>> ELSE <<Decrease(o, n)>>

(* What an offline owner gets is written to the database.                    *)
Written(p, gain) == IF gain.goods > 0 THEN <<Store(p, gain.goods)>> ELSE <<Pay(p, gain.money)>>

(* playerAcceptMarketOffer: p gives what the owner asks for and gets what the   *)
(* owner put up.  p may be the owner.  An offline buyer who cannot be loaded   *)
(* ends the request before anything changed.                                *)
Accept(p, o, n) ==
  LET offer == offers[o]
      owner == offer.owner
      put   == Worth(offer, n)
      asked == Worth([offer EXCEPT !.buys = ~@], n)
      paid  == [memory EXCEPT ![p] = Plus(Minus(@, asked), put)]
  IN /\ Idle /\ p \in online
     /\ Listed(o) /\ n <= offer.amount
     /\ Covers(memory[p], asked)
     /\ memory' = IF owner \in online THEN [paid EXCEPT ![owner] = Plus(@, asked)] ELSE paid
     /\ writes' = (IF owner \in online THEN << >> ELSE Written(owner, asked)) \o Take(o, n)
     /\ UNCHANGED <<online, tables, timer, faults>>

(* Time passes.                                                             *)
Expire(o) ==
  /\ Listed(o) /\ ~offers[o].expired
  /\ offers' = [offers EXCEPT ![o].expired = TRUE]
  /\ UNCHANGED <<online, memory, saved, writes, timer, faults>>

Expired == {o \in Ids : Listed(o) /\ offers[o].expired}
Buying == {o \in Expired : offers[o].buys}
Selling == Expired \ Buying

(* What a check passes over: a list that cannot be read, and sell offers of    *)
(* players who cannot be loaded.                                            *)
Passed(skipped) ==
  /\ skipped \cap Buying \in {{}, Buying}
  /\ skipped \cap Selling = Selling
       \/ \A o \in skipped \cap Selling : offers[o].owner \notin online

(* A refund to an owner who is offline is written before the offer is deleted. *)
Ended(o) == LET offer == offers[o]
            IN (IF offer.owner \in online THEN << >>
                ELSE Written(offer.owner, Worth(offer, offer.amount))) \o <<Delete(o)>>

Refunds(p, ended) ==
  LET own == {o \in ended : offers[o].owner = p}
  IN FoldSet(LAMBDA o, sum : Plus(sum, Worth(offers[o], offers[o].amount)), Nothing, own)

(* checkExpiredMarketOffers: the expired offers that are not passed over end.  *)
EndExpired(skipped) ==
  LET ended == SetToSeq(Expired \ skipped)
  IN /\ Idle /\ timer
     /\ Passed(skipped)
     /\ IF skipped = {} THEN UNCHANGED faults
        ELSE faults < MaxFaults /\ faults' = faults + 1
     /\ memory' = [p \in Players |->
                     IF p \in online THEN Plus(memory[p], Refunds(p, Expired \ skipped))
                     ELSE memory[p]]
     /\ writes' = FlattenSeq([i \in DOMAIN ended |-> Ended(ended[i])])
     /\ UNCHANGED <<online, tables>>

(* A plausible mistake: an offer that cannot be ended ends the check, with a   *)
(* return in place of the continue.                                         *)
ReturnsEarly(skipped) == EndExpired(skipped) /\ timer' = (skipped = {})

(* The check schedules itself again.                                         *)
CheckExpired(skipped) == EndExpired(skipped) /\ timer' = TRUE

Check == \E skipped \in SUBSET Expired : CheckExpired(skipped)

-----------------------------------------------------------------------------
(* Players come and go; the server saves everybody, crashes and starts again.  *)

Login(p) ==
  /\ Idle /\ p \notin online
  /\ online' = online \cup {p}
  /\ memory' = [memory EXCEPT ![p] = saved[p]]
  /\ UNCHANGED <<tables, writes, timer, faults>>

Logout(p) ==
  /\ Idle /\ p \in online
  /\ online' = online \ {p}
  /\ memory' = [memory EXCEPT ![p] = Nothing]
  /\ writes' = <<SaveOf(p, memory[p])>>
  /\ UNCHANGED <<tables, timer, faults>>

(* saveGameState                                                            *)
SaveGame ==
  /\ Idle /\ online # {}
  /\ LET all == SetToSeq(online)
     IN writes' = [i \in DOMAIN all |-> SaveOf(all[i], memory[all[i]])]
  /\ UNCHANGED <<online, memory, tables, timer, faults>>

(* mainLoader begins with a check.                                          *)
Crash ==
  /\ faults < MaxFaults
  /\ faults' = faults + 1
  /\ online' = {}
  /\ memory' = [p \in Players |-> Nothing]
  /\ writes' = << >>
  /\ timer' = TRUE
  /\ UNCHANGED tables

Next ==
  \/ \E p \in Players : Login(p) \/ Logout(p)
  \/ \E p \in Players, o \in Ids : CreateSome(p, o) \/ Cancel(p, o)
  \/ \E p \in Players, o \in Ids, n \in 1..MaxAmount : Accept(p, o, n)
  \/ \E o \in Ids : Expire(o)
  \/ Check \/ SaveGame
  \/ Succeeds \/ Fails \/ Repeats \/ Crash

(* The dispatcher runs a handler to its end, and the scheduler hands it the    *)
(* check whatever else it has to do.                                        *)
Spec == Init /\ [][Next]_vars /\ WF_vars(Succeeds) /\ SF_vars(Check)

-----------------------------------------------------------------------------
(* The tables once the handler that runs has done what it has to.            *)
After == FoldLeft(Executed, Database, writes)

Has(p) == IF p \in online THEN memory[p] ELSE After.saved[p]

Held(db, o) == IF db.offers[o] = NoOffer THEN Nothing
               ELSE Worth(db.offers[o], db.offers[o].amount)

Stake(o) == Held(After, o)

(* All that there is then.                                                  *)
Total == Plus(FoldSet(LAMBDA p, sum : Plus(sum, Has(p)), Nothing, Players),
              FoldSet(LAMBDA o, sum : Plus(sum, Stake(o)), Nothing, Ids))

(* What a statement adds to that.  The row of a player who is online does not   *)
(* count.                                                                   *)
Moves(db, w) ==
  CASE w.kind = "insert"   -> Worth(w.offer, w.offer.amount)
    [] w.kind = "delete"   -> Minus(Nothing, Held(db, w.id))
    [] w.kind = "decrease" -> Minus(Nothing, Worth(db.offers[w.id], w.amount))
    [] OTHER -> IF w.player \in online THEN Nothing
                ELSE CASE w.kind = "save"  -> Minus(w.has, db.saved[w.player])
                       [] w.kind = "pay"   -> [money |-> w.amount, goods |-> 0]
                       [] w.kind = "store" -> [money |-> 0, goods |-> w.amount]

(* What the second execution of a statement adds.                            *)
Doubles(db, w) ==
  CASE w.kind \in {"insert", "pay"} -> Moves(db, w)
    [] w.kind = "decrease" -> IF 2 * w.amount <= db.offers[w.id].amount THEN Moves(db, w)
                              ELSE Nothing
    [] w.kind = "save" -> [money |-> -Moves(db, w).money, goods |-> 0]
    [] w.kind \in {"delete", "store"} -> Nothing

Unsaved == ~Idle \/ \E p \in online : memory[p] # saved[p]

(* Money and items are neither made nor lost: an offer moves them between its   *)
(* owner, the table and who accepts it, whoever is online and however much of   *)
(* it is accepted, and only the fee of a new offer disappears.  A statement     *)
(* that fails or is repeated makes or loses what that statement alone moves,    *)
(* whatever the rest of the handler does.  The exception is a crash while       *)
(* somebody is not saved.                                                   *)
NothingIsMadeOrLost ==
  [][\/ Total' = Total
     \/ \E n \in 1..MaxAmount :
          /\ \E p \in Players, o \in Ids : CreateSome(p, o)
          /\ Total' = Minus(Total, [money |-> Fee(n), goods |-> 0])
     \/ Fails /\ Total' = Minus(Total, Moves(Database, Head(writes)))
     \/ Repeats /\ Total' = Plus(Total, Doubles(Database, Head(writes)))
     \/ Crash /\ Unsaved]_vars

(* An offer that expired does not stay in the table, whether its owner is      *)
(* online or not, whatever statements failed, offers were passed over or       *)
(* crashes happened before.                                                 *)
ExpiredOffersEnd == \A o \in Ids : o \in Expired ~> ~Listed(o)
=============================================================================
