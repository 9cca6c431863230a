---------------------------- MODULE MarketProofs ----------------------------
(* Proofs about Market: no money and no item is made or lost.                *)
EXTENDS Market, TLAPS, FiniteSetTheorems, NaturalsInduction

-----------------------------------------------------------------------------
(* Induction, with a set in the place of a predicate.                       *)

(* A set that has 0 and the successor of each of its numbers has them all.   *)
LEMMA Climb ==
  ASSUME NEW T, 0 \in T, \A n \in Nat : n \in T => n + 1 \in T
  PROVE  Nat \subseteq T
<1> DEFINE U == Nat \ T
<1> SUFFICES ASSUME U # {}  PROVE  FALSE
  OBVIOUS
<1>1. IsWellFoundedOn(OpToRel(<, Nat), Nat)
  BY NatLessThanWellFounded
<1>2. PICK x \in U : \A y \in U : ~(<<y, x>> \in OpToRel(<, Nat))
  BY <1>1, WFMin
<1>3. x \in Nat /\ x \notin T
  OBVIOUS
<1>4. x # 0
  BY <1>3
<1>5. x - 1 \in Nat /\ x - 1 < x /\ (x - 1) + 1 = x
  BY <1>3, <1>4
<1>6. x - 1 \in U
  BY <1>3, <1>5
<1>7. <<x - 1, x>> \in OpToRel(<, Nat)
  BY <1>3, <1>5 DEF OpToRel
<1> QED BY <1>2, <1>6, <1>7

(* The same up to a number.                                                 *)
LEMMA Upward ==
  ASSUME NEW N \in Nat, NEW T, 0 \in T, \A n \in 1..N : n - 1 \in T => n \in T
  PROVE  0..N \subseteq T
<1> DEFINE U == {k \in Nat : k <= N => k \in T}
<1>1. 0 \in U
  OBVIOUS
<1>2. ASSUME NEW k \in Nat, k \in U  PROVE  k + 1 \in U
  <2>1. SUFFICES ASSUME k + 1 <= N  PROVE  k + 1 \in T
    OBVIOUS
  <2>2. k \in T
    BY <1>2, <2>1
  <2>3. k + 1 \in 1..N /\ (k + 1) - 1 = k
    BY <2>1
  <2> QED BY <2>2, <2>3
<1> HIDE DEF U
<1>3. Nat \subseteq U
  BY <1>1, <1>2, Climb
<1> QED BY <1>3 DEF U

(* A set that is not empty loses an element.                                *)
LEMMA LessFacts ==
  ASSUME NEW D, IsFiniteSet(D), NEW s \in SUBSET D, NEW x \in s
  PROVE  /\ s \ {x} \in SUBSET D
         /\ Cardinality(s) \in Nat /\ Cardinality(s \ {x}) = Cardinality(s) - 1
         /\ Cardinality(s) > 0
<1>1. IsFiniteSet(s)
  BY FS_Subset
<1>2. IsFiniteSet(s \ {x}) /\ Cardinality(s \ {x}) = Cardinality(s) - 1
  BY <1>1, FS_RemoveElement
<1>3. Cardinality(s) \in Nat /\ Cardinality(s \ {x}) \in Nat
  BY <1>1, <1>2, FS_CardinalityType
<1> QED BY <1>2, <1>3

(* What holds of a set if of all smaller ones, holds.                        *)
LEMMA BySize ==
  ASSUME NEW D, IsFiniteSet(D), NEW T,
         \A s \in SUBSET D : (\A x \in s : s \ {x} \in T) => s \in T
  PROVE  SUBSET D \subseteq T
<1> DEFINE U == {n \in Nat : \A s \in SUBSET D : Cardinality(s) = n => s \in T}
<1>1. 0 \in U
  <2>1. ASSUME NEW s \in SUBSET D, Cardinality(s) = 0  PROVE  s \in T
    <3>1. s = {}
      BY <2>1, FS_Subset, FS_EmptySet
    <3> QED BY <3>1
  <2> QED BY <2>1
<1>2. ASSUME NEW n \in Nat, n \in U  PROVE  n + 1 \in U
  <2>1. ASSUME NEW s \in SUBSET D, Cardinality(s) = n + 1  PROVE  s \in T
    <3>1. ASSUME NEW x \in s  PROVE  s \ {x} \in T
      <4>1. s \ {x} \in SUBSET D /\ Cardinality(s \ {x}) = n
        BY <2>1, LessFacts
      <4> QED BY <1>2, <4>1
    <3> QED BY <3>1
  <2> QED BY <2>1
<1> HIDE DEF U
<1>3. Nat \subseteq U
  BY <1>1, <1>2, Climb
<1>4. ASSUME NEW s \in SUBSET D  PROVE  s \in T
  <2>1. Cardinality(s) \in Nat
    BY FS_Subset, FS_CardinalityType
  <2>2. Cardinality(s) \in U
    BY <1>3, <2>1
  <2> QED BY <2>2 DEF U
<1> QED BY <1>4

-----------------------------------------------------------------------------
(* Amounts of money and goods, and their sums.                              *)
Amounts == [money : Int, goods : Int]

Lacking(a) == Minus(Nothing, a)

(* Nothing is neutral.                                                      *)
LEMMA NothingFacts ==
  /\ Nothing \in Amounts
  /\ \A a \in Amounts : Plus(a, Nothing) = a /\ Lacking(a) \in Amounts
BY DEF Amounts, Plus, Minus, Nothing, Lacking

(* Amounts are added like numbers.                                          *)
LEMMA PlusFacts ==
  ASSUME NEW a \in Amounts, NEW b \in Amounts
  PROVE  Plus(a, b) \in Amounts /\ Minus(a, b) \in Amounts /\ Plus(a, b) = Plus(b, a)
BY DEF Amounts, Plus, Minus

(* What is added last does not matter.                                      *)
LEMMA PlusOrder ==
  ASSUME NEW a \in Amounts, NEW b \in Amounts, NEW c \in Amounts
  PROVE  Plus(Plus(a, b), c) = Plus(Plus(a, c), b)
BY DEF Amounts, Plus

Some(s) == CHOOSE x \in s : TRUE

(* h has the sum of f for every set of D.                                    *)
Adds(f, D, h) ==
  h = [s \in D |-> IF s = {} THEN Nothing ELSE Plus(h[s \ {Some(s)}], f[Some(s)])]

Summed(f, S, h) == Adds(f, SUBSET S, h)

Sum(f, S) == (CHOOSE h : Summed(f, S, h))[S]

(* There are such sums: from those of the sets of at most n elements come      *)
(* those of the sets that have one more.                                     *)
LEMMA AddsExists ==
  ASSUME NEW S, IsFiniteSet(S), NEW f
  PROVE  \E h : Summed(f, S, h)
<1> DEFINE N == Cardinality(S)
           Small(n) == {s \in SUBSET S : Cardinality(s) <= n}
           T == {n \in Nat : \E h : Adds(f, Small(n), h)}
<1>1. ASSUME NEW n \in Nat, NEW s \in Small(n), s # {}
      PROVE  s \ {Some(s)} \in Small(n) /\ (n > 0 => s \ {Some(s)} \in Small(n - 1))
  <2>1. Some(s) \in s
    BY <1>1 DEF Some
  <2>2. /\ s \ {Some(s)} \in SUBSET S
        /\ Cardinality(s) \in Nat /\ Cardinality(s \ {Some(s)}) = Cardinality(s) - 1
    BY <2>1, LessFacts
  <2> QED BY <2>2
<1>2. 0 \in T
  <2>1. ASSUME NEW s \in Small(0)  PROVE  s = {}
    BY FS_Subset, FS_EmptySet, FS_CardinalityType
  <2>2. Adds(f, Small(0), [s \in Small(0) |-> Nothing])
    <3> HIDE DEF Small
    <3> QED BY <2>1 DEF Adds
  <2> HIDE DEF Small
  <2> QED BY <2>2
<1>3. ASSUME NEW n \in Nat, n \in T  PROVE  n + 1 \in T
  <2>1. PICK h : Adds(f, Small(n), h)
    BY <1>3
  <2> DEFINE k == [s \in Small(n + 1) |->
                     IF s = {} THEN Nothing ELSE Plus(h[s \ {Some(s)}], f[Some(s)])]
  <2>2. Small(n) \subseteq Small(n + 1)
    <3>1. \A s \in SUBSET S : Cardinality(s) \in Nat
      BY FS_Subset, FS_CardinalityType
    <3> QED BY <3>1
  <2> HIDE DEF Small
  <2>3. ASSUME NEW s \in Small(n)  PROVE  h[s] = k[s]
    BY <2>1, <2>2, <2>3 DEF Adds
  <2>4. ASSUME NEW s \in Small(n + 1), s # {}  PROVE  s \ {Some(s)} \in Small(n)
    <3>1. n + 1 \in Nat /\ n + 1 > 0 /\ (n + 1) - 1 = n
      OBVIOUS
    <3> QED BY <1>1, <2>4, <3>1
  <2>5. Adds(f, Small(n + 1), k)
    BY <2>3, <2>4 DEF Adds
  <2> QED BY <2>5
<1> HIDE DEF T
<1>4. Nat \subseteq T
  BY <1>2, <1>3, Climb
<1>5. N \in Nat /\ Small(N) = SUBSET S
  <2>1. N \in Nat /\ \A s \in SUBSET S : Cardinality(s) <= N
    BY FS_Subset, FS_CardinalityType
  <2> QED BY <2>1
<1> HIDE DEF N, Small
<1> QED BY <1>4, <1>5 DEF T, Summed

(* Only the values on the set matter.                                       *)
LEMMA AddsSame ==
  ASSUME NEW S, IsFiniteSet(S), NEW f, NEW h, Summed(f, S, h),
         NEW R \in SUBSET S, NEW g, NEW k, Summed(g, R, k), \A x \in R : f[x] = g[x]
  PROVE  \A s \in SUBSET R : h[s] = k[s]
<1> DEFINE T == {s \in SUBSET R : h[s] = k[s]}
<1>1. IsFiniteSet(R)
  BY FS_Subset
<1>2. ASSUME NEW s \in SUBSET R, \A x \in s : s \ {x} \in T  PROVE  s \in T
  <2>1. s # {} => Some(s) \in s
    BY DEF Some
  <2>2. h[s] = IF s = {} THEN Nothing ELSE Plus(h[s \ {Some(s)}], f[Some(s)])
    BY DEF Summed, Adds
  <2>3. k[s] = IF s = {} THEN Nothing ELSE Plus(k[s \ {Some(s)}], g[Some(s)])
    BY DEF Summed, Adds
  <2> QED BY <1>2, <2>1, <2>2, <2>3
<1> HIDE DEF T
<1>3. SUBSET R \subseteq T
  BY <1>1, <1>2, BySize
<1> QED BY <1>3 DEF T

(* The order of the elements does not matter.                               *)
LEMMA AddsTakes ==
  ASSUME NEW S, IsFiniteSet(S), NEW f, \A x \in S : f[x] \in Amounts,
         NEW h, Summed(f, S, h)
  PROVE  /\ \A s \in SUBSET S : h[s] \in Amounts
         /\ \A s \in SUBSET S : \A x \in s : h[s] = Plus(h[s \ {x}], f[x])
<1>1. ASSUME NEW s \in SUBSET S
      PROVE  /\ s = {} => h[s] = Nothing
             /\ s # {} => Some(s) \in s /\ h[s] = Plus(h[s \ {Some(s)}], f[Some(s)])
  BY DEF Summed, Adds, Some
<1>2. \A s \in SUBSET S : h[s] \in Amounts
  <2> DEFINE T == {s \in SUBSET S : h[s] \in Amounts}
  <2>1. ASSUME NEW s \in SUBSET S, \A x \in s : s \ {x} \in T  PROVE  s \in T
    <3>1. CASE s = {}
      BY <1>1, <3>1, NothingFacts
    <3>2. CASE s # {}
      <4>1. /\ Some(s) \in s /\ h[s] = Plus(h[s \ {Some(s)}], f[Some(s)])
            /\ s \ {Some(s)} \in T
        BY <1>1, <2>1, <3>2
      <4>2. f[Some(s)] \in Amounts /\ h[s \ {Some(s)}] \in Amounts
        BY <4>1
      <4> QED BY <4>1, <4>2, PlusFacts
    <3> QED BY <3>1, <3>2
  <2> HIDE DEF T
  <2>2. SUBSET S \subseteq T
    BY <2>1, BySize
  <2> QED BY <2>2 DEF T
<1>3. \A s \in SUBSET S : \A x \in s : h[s] = Plus(h[s \ {x}], f[x])
  <2> DEFINE T == {s \in SUBSET S : \A x \in s : h[s] = Plus(h[s \ {x}], f[x])}
  <2>1. ASSUME NEW s \in SUBSET S, \A x \in s : s \ {x} \in T  PROVE  s \in T
    <3>1. ASSUME NEW x \in s  PROVE  h[s] = Plus(h[s \ {x}], f[x])
      <4> DEFINE c == Some(s)
      <4>1. c \in s /\ h[s] = Plus(h[s \ {c}], f[c])
        BY <1>1
      <4> HIDE DEF c
      <4>2. CASE x # c
        <5>1. x \in s \ {c} /\ c \in s \ {x} /\ s \ {c} \in T /\ s \ {x} \in T
          BY <2>1, <4>1, <4>2
        <5> DEFINE r == (s \ {c}) \ {x}
        <5>2. h[s \ {c}] = Plus(h[r], f[x])
          BY <5>1
        <5>3. (s \ {x}) \ {c} = r /\ r \in SUBSET S
          OBVIOUS
        <5>4. h[s \ {x}] = Plus(h[(s \ {x}) \ {c}], f[c])
          BY <5>1
        <5>5. f[x] \in Amounts /\ f[c] \in Amounts /\ h[r] \in Amounts
          BY <1>2, <4>1, <5>3
        <5> HIDE DEF r
        <5>6. h[s \ {x}] = Plus(h[r], f[c])
          BY <5>3, <5>4, Zenon
        <5>7. h[s] = Plus(Plus(h[r], f[x]), f[c])
          BY <4>1, <5>2, Zenon
        <5>8. h[s] = Plus(Plus(h[r], f[c]), f[x])
          BY <5>5, <5>7, PlusOrder
        <5> QED BY <5>6, <5>8, Zenon
      <4>3. CASE x = c
        BY <4>1, <4>3, Zenon
      <4> QED BY <4>2, <4>3
    <3> QED BY <3>1
  <2> HIDE DEF T
  <2>2. SUBSET S \subseteq T
    BY <2>1, BySize
  <2> QED BY <2>2 DEF T
<1> QED BY <1>2, <1>3

(* The sum that there is.                                                   *)
LEMMA SumIs ==
  ASSUME NEW S, IsFiniteSet(S), NEW f, NEW h, Summed(f, S, h)
  PROVE  Sum(f, S) = h[S]
<1> DEFINE k == CHOOSE e : Summed(f, S, e)
<1>1. Summed(f, S, k)
  OBVIOUS
<1>2. Sum(f, S) = k[S]
  BY DEF Sum
<1> HIDE DEF k
<1>3. S \in SUBSET S /\ \A x \in S : f[x] = f[x]
  OBVIOUS
<1>4. \A s \in SUBSET S : h[s] = k[s]
  BY <1>1, <1>3, AddsSame
<1> QED BY <1>2, <1>3, <1>4

(* Only the values on the set matter.                                       *)
LEMMA SumSame ==
  ASSUME NEW S, IsFiniteSet(S), NEW f, NEW g, \A x \in S : f[x] = g[x]
  PROVE  Sum(f, S) = Sum(g, S)
<1>1. PICK h : Summed(f, S, h)
  BY AddsExists
<1>2. PICK k : Summed(g, S, k)
  BY AddsExists
<1>3. S \in SUBSET S
  OBVIOUS
<1>4. \A s \in SUBSET S : h[s] = k[s]
  BY <1>1, <1>2, <1>3, AddsSame
<1> QED BY <1>1, <1>2, <1>3, <1>4, SumIs

(* The sum, one element at a time, in any order.                            *)
LEMMA SumFacts ==
  ASSUME NEW S, IsFiniteSet(S), NEW f, \A x \in S : f[x] \in Amounts
  PROVE  /\ Sum(f, S) \in Amounts
         /\ S = {} => Sum(f, S) = Nothing
         /\ \A x \in S : Sum(f, S) = Plus(Sum(f, S \ {x}), f[x])
<1>1. PICK h : Summed(f, S, h)
  BY AddsExists
<1>2. Sum(f, S) = h[S] /\ S \in SUBSET S
  BY <1>1, SumIs
<1>3. h[S] \in Amounts /\ \A x \in S : h[S] = Plus(h[S \ {x}], f[x])
  BY <1>1, <1>2, AddsTakes
<1>4. S = {} => h[S] = Nothing
  BY <1>1, <1>2 DEF Summed, Adds
<1>5. ASSUME NEW x \in S  PROVE  Sum(f, S \ {x}) = h[S \ {x}]
  <2> DEFINE R == S \ {x}
             e == [s \in SUBSET R |-> h[s]]
  <2>1. Summed(f, R, e)
    BY <1>1 DEF Summed, Adds
  <2>2. IsFiniteSet(R) /\ R \in SUBSET R
    BY FS_Subset
  <2>3. e[R] = h[R]
    BY <2>2
  <2> HIDE DEF e, R
  <2>4. Sum(f, R) = e[R]
    BY <2>1, <2>2, SumIs
  <2> QED BY <2>3, <2>4 DEF R
<1> QED BY <1>2, <1>3, <1>4, <1>5

(* g is f, but for a more at x.                                             *)
Puts(g, f, S, x, a) == \A y \in S : g[y] = IF y = x THEN Plus(f[y], a) ELSE f[y]

(* What changes at one element changes in the sum.                          *)
LEMMA SumPut ==
  ASSUME NEW S, IsFiniteSet(S), NEW f, \A x \in S : f[x] \in Amounts, NEW g,
         NEW x \in S, NEW a \in Amounts, Puts(g, f, S, x, a)
  PROVE  Sum(g, S) = Plus(Sum(f, S), a)
<1> DEFINE R == S \ {x}
           u == Sum(f, R)
           v == f[x]
<1> USE DEF Puts
<1>1. IsFiniteSet(R) /\ \A y \in R : f[y] \in Amounts /\ f[y] = g[y]
  BY FS_Subset
<1>2. \A y \in S : g[y] \in Amounts
  BY PlusFacts
<1>3. Sum(f, S) = Plus(u, v)
  BY SumFacts
<1>4. Sum(g, S) = Plus(Sum(g, R), g[x])
  BY <1>2, SumFacts
<1> HIDE DEF R
<1>5. Sum(f, R) = Sum(g, R)
  BY <1>1, SumSame
<1>6. u \in Amounts /\ v \in Amounts /\ g[x] = Plus(v, a)
  BY <1>1, SumFacts
<1> HIDE DEF u, v
<1>7. Plus(u, Plus(v, a)) = Plus(Plus(u, v), a)
  BY <1>6 DEF Amounts, Plus
<1> QED BY <1>3, <1>4, <1>5, <1>6, <1>7 DEF u

-----------------------------------------------------------------------------
(* All that there is, as sums.                                              *)
Having(on, mem, db) == [p \in Players |-> IF p \in on THEN mem[p] ELSE db.saved[p]]

Staked(db) == [o \in Ids |-> IF db.offers[o] = NoOffer THEN Nothing
                             ELSE Worth(db.offers[o], db.offers[o].amount)]

Wealth(on, mem, db) == Plus(Sum(Having(on, mem, db), Players), Sum(Staked(db), Ids))

TotalIsWealth == Total = Wealth(online, memory, After)

(* What players have, as a sum over all of them.                            *)
LEMMA HasSum ==
  FoldSet(LAMBDA p, sum : Plus(sum, Has(p)), Nothing, Players)
    = Sum(Having(online, memory, After), Players)
<1> DEFINE f == Having(online, memory, After)
           Eq(h) == h = [s \in SUBSET Players |->
             IF s = {} THEN Nothing
             ELSE Plus(h[s \ {CHOOSE x \in s : TRUE}], Has(CHOOSE x \in s : TRUE))]
<1>0. IsFiniteSet(Players)
  BY MarketAssumption
<1>1. FoldSet(LAMBDA p, sum : Plus(sum, Has(p)), Nothing, Players)
        = (CHOOSE h : Eq(h))[Players]
  BY DEF FoldSet, MapThenFoldSet
<1>2. \A s \in SUBSET Players : s # {} => f[Some(s)] = Has(CHOOSE x \in s : TRUE)
  <2> SUFFICES ASSUME NEW s \in SUBSET Players, s # {}
               PROVE  f[Some(s)] = Has(CHOOSE x \in s : TRUE)
    OBVIOUS
  <2>1. Some(s) = CHOOSE x \in s : TRUE
    BY DEF Some
  <2>2. Some(s) \in Players
    BY <2>1
  <2>3. \A p \in Players : f[p] = Has(p)
    BY DEF Has, Having
  <2> HIDE DEF f
  <2> QED BY <2>1, <2>2, <2>3
<1> HIDE DEF f
<1>3. \A h : Eq(h) <=> Summed(f, Players, h)
  BY <1>2 DEF Summed, Adds, Some
<1>4. \E h : Summed(f, Players, h)
  BY <1>0, AddsExists
<1> DEFINE h == CHOOSE e : Eq(e)
<1>5. Summed(f, Players, h)
  <2> HIDE DEF Eq
  <2> QED BY <1>3, <1>4
<1> HIDE DEF h, Eq
<1> QED BY <1>0, <1>1, <1>5, SumIs DEF h, f

(* What is in offers, as a sum over all of them.                            *)
LEMMA StakeSum ==
  FoldSet(LAMBDA o, sum : Plus(sum, Stake(o)), Nothing, Ids) = Sum(Staked(After), Ids)
<1> DEFINE f == Staked(After)
           Eq(h) == h = [s \in SUBSET Ids |->
             IF s = {} THEN Nothing
             ELSE Plus(h[s \ {CHOOSE x \in s : TRUE}], Stake(CHOOSE x \in s : TRUE))]
<1>0. IsFiniteSet(Ids)
  BY MarketAssumption
<1>1. FoldSet(LAMBDA o, sum : Plus(sum, Stake(o)), Nothing, Ids)
        = (CHOOSE h : Eq(h))[Ids]
  BY DEF FoldSet, MapThenFoldSet
<1>2. \A s \in SUBSET Ids : s # {} => f[Some(s)] = Stake(CHOOSE x \in s : TRUE)
  <2> SUFFICES ASSUME NEW s \in SUBSET Ids, s # {}
               PROVE  f[Some(s)] = Stake(CHOOSE x \in s : TRUE)
    OBVIOUS
  <2>1. Some(s) = CHOOSE x \in s : TRUE
    BY DEF Some
  <2>2. Some(s) \in Ids
    BY <2>1
  <2>3. \A o \in Ids : f[o] = Stake(o)
    BY DEF Stake, Held, Staked
  <2> HIDE DEF f
  <2> QED BY <2>1, <2>2, <2>3
<1> HIDE DEF f
<1>3. \A h : Eq(h) <=> Summed(f, Ids, h)
  BY <1>2 DEF Summed, Adds, Some
<1>4. \E h : Summed(f, Ids, h)
  BY <1>0, AddsExists
<1> DEFINE h == CHOOSE e : Eq(e)
<1>5. Summed(f, Ids, h)
  <2> HIDE DEF Eq
  <2> QED BY <1>3, <1>4
<1> HIDE DEF h, Eq
<1> QED BY <1>0, <1>1, <1>5, SumIs DEF h, f

(* Total is the wealth, in a state, in all states and in the next one.      *)
LEMMA TotalAgrees == TotalIsWealth
BY HasSum, StakeSum DEF TotalIsWealth, Total, Wealth

LEMMA TotalAgreesAlways == []TotalIsWealth
BY TotalAgrees, PTL

LEMMA TotalAgreesNext == TotalIsWealth'
BY TotalAgreesAlways, PTL

-----------------------------------------------------------------------------
(* What the statements of a handler leave: FoldLeft executes one after the     *)
(* other.                                                                   *)
Final(db, ws) == FoldLeft(Executed, db, ws)

(* g has the tables after each number of statements.                         *)
Runs(g, db, ws) ==
  g = [n \in 0..Len(ws) |-> IF n = 0 THEN db ELSE Executed(g[n - 1], ws[n])]

(* h has them for every set of statements in D, the last one last.           *)
Executes(h, db, ws, D) ==
  h = [s \in D |-> IF s = {} THEN db ELSE Executed(h[s \ {Max(s)}], ws[Max(s)])]

(* A set of numbers that is not empty has its largest one.                  *)
LEMMA MaxIn ==
  ASSUME NEW N \in Nat, NEW s \in SUBSET (1..N), s # {}
  PROVE  Max(s) \in s /\ \A y \in s : Max(s) >= y
<1> DEFINE T == {n \in 0..N : (\E x \in s : x <= n) => \E x \in s : \A y \in s : y <= n => x >= y}
<1>1. 0 \in T
  OBVIOUS
<1>2. ASSUME NEW n \in 1..N, n - 1 \in T  PROVE  n \in T
  <2>1. CASE n \in s
    <3>1. \A y \in s : y <= n => n >= y
      OBVIOUS
    <3> QED BY <2>1, <3>1
  <2>2. CASE n \notin s
    <3>1. \A y \in s : y <= n => y <= n - 1
      BY <2>2
    <3>2. (\E x \in s : x <= n) => \E x \in s : \A y \in s : y <= n - 1 => x >= y
      BY <1>2, <3>1
    <3> QED BY <3>1, <3>2
  <2> QED BY <2>1, <2>2
<1> HIDE DEF T
<1>3. N \in T
  BY <1>1, <1>2, Upward
<1>4. (\E x \in s : x <= N) => \E x \in s : \A y \in s : y <= N => x >= y
  BY <1>3 DEF T
<1>5. \A y \in s : y \in Nat /\ y <= N
  OBVIOUS
<1>6. \E x \in s : \A y \in s : x >= y
  BY <1>4, <1>5
<1> QED BY <1>6 DEF Max

(* There are such tables.                                                   *)
LEMMA ExecutesExists ==
  ASSUME NEW N \in Nat, NEW ws, NEW db
  PROVE  \E h : Executes(h, db, ws, SUBSET (1..N))
<1> DEFINE D == 1..N
           Small(n) == {s \in SUBSET D : Cardinality(s) <= n}
           T == {n \in Nat : \E h : Executes(h, db, ws, Small(n))}
<1>0. IsFiniteSet(D) /\ Cardinality(D) = N
  BY FS_Interval
<1>7. ASSUME NEW s \in SUBSET D, s # {}  PROVE  Max(s) \in s
  BY <1>7, MaxIn
<1> HIDE DEF D
<1>1. ASSUME NEW n \in Nat, NEW s \in Small(n + 1), s # {}  PROVE  s \ {Max(s)} \in Small(n)
  <2>1. Max(s) \in s
    BY <1>1, <1>7
  <2>2. /\ s \ {Max(s)} \in SUBSET D
        /\ Cardinality(s) \in Nat /\ Cardinality(s \ {Max(s)}) = Cardinality(s) - 1
    BY <1>0, <2>1, LessFacts
  <2> QED BY <2>2
<1>2. 0 \in T
  <2>1. ASSUME NEW s \in Small(0)  PROVE  s = {}
    BY <1>0, FS_Subset, FS_EmptySet, FS_CardinalityType
  <2>2. Executes([s \in Small(0) |-> db], db, ws, Small(0))
    <3> HIDE DEF Small
    <3> QED BY <2>1 DEF Executes
  <2> HIDE DEF Small
  <2> QED BY <2>2
<1>3. ASSUME NEW n \in Nat, n \in T  PROVE  n + 1 \in T
  <2>1. PICK h : Executes(h, db, ws, Small(n))
    BY <1>3
  <2> DEFINE k == [s \in Small(n + 1) |->
                     IF s = {} THEN db ELSE Executed(h[s \ {Max(s)}], ws[Max(s)])]
  <2>2. Small(n) \subseteq Small(n + 1)
    <3>1. \A s \in SUBSET D : Cardinality(s) \in Nat
      BY <1>0, FS_Subset, FS_CardinalityType
    <3> QED BY <3>1
  <2> HIDE DEF Small
  <2>3. ASSUME NEW s \in Small(n)  PROVE  h[s] = k[s]
    BY <2>1, <2>2, <2>3 DEF Executes
  <2>4. Executes(k, db, ws, Small(n + 1))
    BY <1>1, <2>3 DEF Executes
  <2> QED BY <2>4
<1> HIDE DEF T
<1>4. N \in T
  BY <1>2, <1>3, Climb
<1>5. Small(N) = SUBSET D
  <2>1. \A s \in SUBSET D : Cardinality(s) <= N
    BY <1>0, FS_Subset
  <2> QED BY <2>1
<1> HIDE DEF Small
<1> QED BY <1>4, <1>5 DEF T, D

(* The tables after all statements are those that a fold gives.             *)
LEMMA FinalRuns ==
  ASSUME NEW V, NEW ws \in Seq(V), NEW db
  PROVE  \E g : Runs(g, db, ws) /\ Final(db, ws) = g[Len(ws)]
<1> DEFINE N == Len(ws)
           h == CHOOSE e : Executes(e, db, ws, SUBSET (1..N))
           g == [n \in 0..N |-> h[1..n]]
<1>1. N \in Nat /\ DOMAIN ws = 1..N
  OBVIOUS
<1>2. Final(db, ws) = h[1..N]
  <2>1. Final(db, ws) = (CHOOSE e : Executes(e, db, ws, SUBSET DOMAIN ws))[DOMAIN ws]
    BY DEF Final, FoldLeft, MapThenFoldSet, Executes
  <2> QED BY <1>1, <2>1
<1>3. Executes(h, db, ws, SUBSET (1..N))
  <2>1. \E e : Executes(e, db, ws, SUBSET (1..N))
    BY <1>1, ExecutesExists
  <2> QED BY <2>1
<1> HIDE DEF h, N
<1>4. ASSUME NEW n \in 0..N
      PROVE  g[n] = IF n = 0 THEN db ELSE Executed(g[n - 1], ws[n])
  <2>1. 1..n \in SUBSET (1..N)
    BY <1>1
  <2>2. CASE n = 0
    <3>1. 1..n = {}
      BY <2>2
    <3> QED BY <1>3, <2>1, <2>2, <3>1 DEF Executes
  <2>3. CASE n # 0
    <3>1. n - 1 \in 0..N /\ n \in 1..n /\ (1..n) \ {n} = 1..(n - 1)
      BY <1>1, <2>3
    <3>2. Max(1..n) \in 1..n /\ Max(1..n) >= n
      BY <1>1, <2>1, <3>1, MaxIn
    <3>3. Max(1..n) = n
      BY <1>1, <3>2
    <3>4. h[1..n] = Executed(h[(1..n) \ {Max(1..n)}], ws[Max(1..n)])
      BY <1>3, <2>1, <3>1 DEF Executes
    <3>5. h[1..n] = Executed(h[1..(n - 1)], ws[n])
      BY <3>1, <3>3, <3>4
    <3> QED BY <2>3, <3>1, <3>5
  <2> QED BY <2>2, <2>3
<1>5. g[N] = h[1..N]
  BY <1>1
<1>6. Runs(g, db, ws)
  <2>1. g = [n \in 0..N |-> g[n]]
    OBVIOUS
  <2> HIDE DEF g
  <2> QED BY <1>4, <2>1 DEF Runs, N
<1> HIDE DEF g
<1> QED BY <1>2, <1>5, <1>6 DEF N

(* The tables after the first statements do not depend on the others.        *)
LEMMA RunsAgree ==
  ASSUME NEW g, NEW h, NEW db, NEW us, NEW ws, Len(us) \in Nat, Len(ws) \in Nat,
         Runs(g, db, us), Runs(h, db, ws),
         Len(us) <= Len(ws), \A n \in 1..Len(us) : us[n] = ws[n]
  PROVE  \A n \in 0..Len(us) : g[n] = h[n]
<1> DEFINE T == {n \in 0..Len(us) : g[n] = h[n]}
<1>1. 0 \in T
  BY DEF Runs
<1>2. ASSUME NEW n \in 1..Len(us), n - 1 \in T  PROVE  n \in T
  <2>1. n \in 0..Len(us) /\ n \in 0..Len(ws) /\ n # 0
    OBVIOUS
  <2>2. g[n] = Executed(g[n - 1], us[n])
    BY <2>1 DEF Runs
  <2>3. h[n] = Executed(h[n - 1], ws[n])
    BY <2>1 DEF Runs
  <2> QED BY <1>2, <2>1, <2>2, <2>3
<1> HIDE DEF T
<1>3. 0..Len(us) \subseteq T
  BY <1>1, <1>2, Upward
<1> QED BY <1>3 DEF T

(* First the ones, then the others.                                         *)
LEMMA FinalJoin ==
  ASSUME NEW V, NEW us \in Seq(V), NEW ws \in Seq(V), NEW db
  PROVE  Final(db, us \o ws) = Final(Final(db, us), ws)
<1> DEFINE L == Len(us)
           M == Len(ws)
           all == us \o ws
           mid == Final(db, us)
<1>1. /\ L \in Nat /\ M \in Nat /\ all \in Seq(V) /\ Len(all) = L + M
      /\ \A n \in 1..L : all[n] = us[n]
      /\ \A n \in 1..M : all[L + n] = ws[n]
  OBVIOUS
<1>2. PICK g : Runs(g, db, us) /\ mid = g[L]
  BY FinalRuns
<1>3. PICK h : Runs(h, mid, ws) /\ Final(mid, ws) = h[M]
  BY FinalRuns
<1>4. PICK k : Runs(k, db, all) /\ Final(db, all) = k[L + M]
  <2> HIDE DEF all, L, M
  <2>1. \E k : Runs(k, db, all) /\ Final(db, all) = k[Len(all)]
    BY <1>1, FinalRuns
  <2> QED BY <1>1, <2>1
<1> HIDE DEF all, mid
<1>5. k[L] = mid
  <2>1. L <= Len(all) /\ \A n \in 1..L : us[n] = all[n]
    BY <1>1
  <2>2. \A n \in 0..L : g[n] = k[n]
    BY <1>1, <1>2, <1>4, <2>1, RunsAgree
  <2>3. L \in 0..L
    BY <1>1
  <2> QED BY <1>2, <2>2, <2>3
<1> DEFINE T == {n \in 0..M : k[L + n] = h[n]}
<1>6. 0 \in T
  BY <1>1, <1>3, <1>5 DEF Runs
<1>7. ASSUME NEW n \in 1..M, n - 1 \in T  PROVE  n \in T
  <2>1. /\ L + n \in 0..Len(all) /\ L + n # 0 /\ (L + n) - 1 = L + (n - 1)
        /\ n \in 0..Len(ws) /\ n # 0
    BY <1>1
  <2>2. k[L + n] = Executed(k[L + (n - 1)], all[L + n])
    BY <1>4, <2>1 DEF Runs
  <2>3. h[n] = Executed(h[n - 1], ws[n])
    BY <1>3, <2>1 DEF Runs
  <2> HIDE DEF L
  <2>4. all[L + n] = ws[n]
    BY <1>1
  <2> QED BY <1>7, <2>1, <2>2, <2>3, <2>4
<1> HIDE DEF T
<1>8. M \in T
  <2>1. M \in Nat /\ M \in 0..M
    BY <1>1
  <2> HIDE DEF M
  <2> QED BY <1>6, <1>7, <2>1, Upward
<1> QED BY <1>3, <1>4, <1>8 DEF T, all, mid

(* No statement, and one.                                                   *)
LEMMA FinalShort ==
  ASSUME NEW db
  PROVE  /\ Final(db, << >>) = db
         /\ \A x : Final(db, <<x>>) = Executed(db, x)
<1>1. Final(db, << >>) = db
  <2>1. << >> \in Seq({}) /\ Len(<< >>) = 0
    OBVIOUS
  <2>2. PICK g : Runs(g, db, << >>) /\ Final(db, << >>) = g[0]
    BY <2>1, FinalRuns
  <2> QED BY <2>1, <2>2 DEF Runs
<1>2. ASSUME NEW x  PROVE  Final(db, <<x>>) = Executed(db, x)
  <2>1. <<x>> \in Seq({x}) /\ Len(<<x>>) = 1 /\ <<x>>[1] = x
    OBVIOUS
  <2>2. PICK g : Runs(g, db, <<x>>) /\ Final(db, <<x>>) = g[1]
    BY <2>1, FinalRuns
  <2>3. g[0] = db /\ g[1] = Executed(g[0], x)
    BY <2>1, <2>2 DEF Runs
  <2> QED BY <2>2, <2>3
<1> QED BY <1>1, <1>2

(* Two statements.                                                          *)
LEMMA FinalTwo ==
  ASSUME NEW db, NEW x, NEW y
  PROVE  Final(db, <<x>> \o <<y>>) = Executed(Executed(db, x), y)
<1> DEFINE V == {x, y}
<1>1. <<x>> \in Seq(V) /\ <<y>> \in Seq(V)
  <2>1. x \in V /\ y \in V
    OBVIOUS
  <2> HIDE DEF V
  <2> QED BY <2>1
<1> HIDE DEF V
<1>2. Final(db, <<x>> \o <<y>>) = Final(Final(db, <<x>>), <<y>>)
  BY <1>1, FinalJoin
<1>3. Final(db, <<x>>) = Executed(db, x)
  BY FinalShort
<1>4. Final(Executed(db, x), <<y>>) = Executed(Executed(db, x), y)
  BY FinalShort
<1> QED BY <1>2, <1>3, <1>4

-----------------------------------------------------------------------------
(* Lists of lists, and sets in some order.                                  *)

(* A list of lists, joined one after the other.                             *)
Joins(f, V, s) ==
  /\ f \in [0..Len(s) -> Seq(V)]
  /\ f[0] = << >>
  /\ \A n \in 1..Len(s) : f[n] = f[n - 1] \o s[n]

(* The statements of one more part come last.                               *)
LEMMA FlattenFacts ==
  ASSUME NEW V, NEW s \in Seq(Seq(V))
  PROVE  \E f : Joins(f, V, s) /\ FlattenSeq(s) = f[Len(s)]
<1> DEFINE N == Len(s)
           Eq(f, n) == f = [i \in 1..n |-> IF i = 1 THEN s[i] ELSE f[i - 1] \o s[i]]
           T == {n \in 0..N : \E f : Eq(f, n)}
<1>1. N \in Nat /\ \A n \in 1..N : s[n] \in Seq(V)
  OBVIOUS
<1> HIDE DEF N
<1>2. 0 \in T
  <2>1. Eq([i \in 1..0 |-> s[i]], 0)
    OBVIOUS
  <2> HIDE DEF Eq
  <2> QED BY <1>1, <2>1
<1>3. ASSUME NEW n \in 1..N, n - 1 \in T  PROVE  n \in T
  <2>1. PICK f : Eq(f, n - 1)
    BY <1>3
  <2> DEFINE g == [i \in 1..n |-> IF i = 1 THEN s[i] ELSE f[i - 1] \o s[i]]
  <2>2. ASSUME NEW i \in 1..n - 1  PROVE  f[i] = g[i]
    <3>1. i \in 1..n
      BY <1>1
    <3>2. f[i] = IF i = 1 THEN s[i] ELSE f[i - 1] \o s[i]
      BY <2>1, Zenon
    <3> QED BY <3>1, <3>2, Zenon
  <2>3. ASSUME NEW i \in 1..n, i # 1  PROVE  f[i - 1] = g[i - 1]
    <3>1. i - 1 \in 1..n - 1
      BY <1>1, <2>3
    <3> QED BY <2>2, <3>1
  <2>4. Eq(g, n)
    BY <2>3
  <2> HIDE DEF g, Eq
  <2> QED BY <1>1, <2>4
<1> HIDE DEF T
<1>4. N \in T
  <2>1. 0..N \subseteq T
    BY <1>1, <1>2, <1>3, Upward
  <2> QED BY <1>1, <2>1
<1> DEFINE h == CHOOSE f : Eq(f, N)
<1>5. Eq(h, N)
  <2>1. \E f : Eq(f, N)
    BY <1>4 DEF T
  <2> HIDE DEF Eq
  <2> QED BY <2>1
<1>6. FlattenSeq(s) = IF N = 0 THEN s ELSE h[N]
  BY DEF FlattenSeq, N
<1> HIDE DEF h
<1> DEFINE f == [n \in 0..N |-> IF n = 0 THEN << >> ELSE h[n]]
<1>7. ASSUME NEW n \in 1..N  PROVE  f[n] = f[n - 1] \o s[n]
  <2>1. n \in 0..N /\ n - 1 \in 0..N /\ s[n] \in Seq(V)
    BY <1>1
  <2>2. CASE n = 1
    <3>1. h[n] = s[n]
      BY <1>5, <2>2
    <3>2. << >> \o s[n] = s[n]
      BY <2>1
    <3> QED BY <2>1, <2>2, <3>1, <3>2
  <2>3. CASE n # 1
    <3>1. h[n] = h[n - 1] \o s[n]
      BY <1>5, <2>3
    <3>2. n # 0 /\ n - 1 # 0
      BY <1>1, <2>3
    <3> QED BY <2>1, <3>1, <3>2, Zenon
  <2> QED BY <2>2, <2>3
<1>8. f[0] = << >> /\ DOMAIN f = 0..N
  BY <1>1
<1>9. FlattenSeq(s) = f[N]
  <2>1. N = 0 => s = << >>
    BY DEF N
  <2> QED BY <1>1, <1>6, <2>1
<1>10. f = [n \in 0..N |-> f[n]]
  OBVIOUS
<1> HIDE DEF f, Eq
<1> DEFINE U == {n \in 0..N : f[n] \in Seq(V)}
<1>11. 0 \in U
  <2>1. << >> \in Seq(V)
    OBVIOUS
  <2>2. f[0] \in Seq(V)
    BY <1>8, <2>1, Zenon
  <2>3. 0 \in 0..N
    BY <1>1
  <2> QED BY <2>2, <2>3
<1>12. ASSUME NEW n \in 1..N, n - 1 \in U  PROVE  n \in U
  <2>1. f[n - 1] \in Seq(V) /\ s[n] \in Seq(V) /\ n \in 0..N
    BY <1>1, <1>12
  <2>2. f[n - 1] \o s[n] \in Seq(V)
    BY <2>1
  <2> QED BY <1>7, <2>1, <2>2
<1> HIDE DEF U
<1>13. 0..N \subseteq U
  BY <1>1, <1>11, <1>12, Upward
<1>14. f \in [0..N -> Seq(V)]
  BY <1>10, <1>13 DEF U
<1>15. Joins(f, V, s)
  BY <1>7, <1>8, <1>14 DEF Joins, N
<1> QED BY <1>9, <1>15 DEF N

(* A set in some order has each of its elements once.                       *)
LEMMA SetToSeqFacts ==
  ASSUME NEW S, IsFiniteSet(S)
  PROVE  /\ SetToSeq(S) \in Seq(S)
         /\ \A x \in S : \E k \in 1..Len(SetToSeq(S)) : SetToSeq(S)[k] = x
         /\ \A k, l \in 1..Len(SetToSeq(S)) : SetToSeq(S)[k] = SetToSeq(S)[l] => k = l
<1> DEFINE n == Cardinality(S)
           s == SetToSeq(S)
<1>1. n \in Nat /\ ExistsBijection(1..n, S)
  BY FS_CardinalityType
<1>2. \E f \in [1..n -> S] : IsInjective(f)
  BY <1>1 DEF ExistsBijection, Bijection, Injection, IsInjective
<1>3. s \in [1..n -> S] /\ IsInjective(s)
  BY <1>2 DEF SetToSeq
<1>4. s \in Seq(S) /\ Len(s) = n
  BY <1>1, <1>3
<1>5. s \in Injection(1..n, S)
  BY <1>3 DEF Injection, IsInjective
<1>6. Cardinality(1..n) = n
  <2>1. 1 \in Int /\ n \in Int
    BY <1>1
  <2>2. Cardinality(1..n) = IF 1 > n THEN 0 ELSE n - 1 + 1
    BY <2>1, FS_Interval
  <2> HIDE DEF n
  <2> QED BY <1>1, <2>2
<1>7. s \in Surjection(1..n, S)
  <2> DEFINE D == 1..n
  <2>1. s \in Injection(D, S) /\ Cardinality(D) = Cardinality(S)
    BY <1>5, <1>6
  <2> HIDE DEF D
  <2>2. s \in Surjection(D, S)
    BY <2>1, FS_Injection
  <2> QED BY <2>2 DEF D
<1> HIDE DEF n, s
<1>8. \A x \in S : \E k \in 1..n : s[k] = x
  BY <1>7 DEF Surjection
<1>9. \A k, l \in 1..n : s[k] = s[l] => k = l
  BY <1>3 DEF IsInjective
<1> QED BY <1>4, <1>8, <1>9 DEF s

-----------------------------------------------------------------------------
(* The types of tables and statements.                                      *)
Offer == [owner : Players, buys : BOOLEAN, amount : Nat, expired : BOOLEAN]

Tables == [saved : [Players -> Amounts], offers : [Ids -> Offer \cup {NoOffer}]]

Payments == [kind : {"pay", "store"}, player : Players, amount : Int]

Statements ==
  [kind : {"insert"}, id : Ids, offer : Offer] \cup [kind : {"delete"}, id : Ids]
    \cup [kind : {"decrease"}, id : Ids, amount : Nat]
    \cup [kind : {"save"}, player : Players, has : Amounts] \cup Payments

(* An offer is only decreased by what it has.                               *)
Affords(db, w) ==
  w.kind = "decrease" => db.offers[w.id] # NoOffer /\ w.amount <= db.offers[w.id].amount

(* Before an offer is decreased, at most its owner is paid.                  *)
Fits(db, ws) ==
  \A k \in 1..Len(ws) :
    ws[k].kind = "decrease" =>
      Affords(db, ws[k]) /\ \A j \in 1..k - 1 : ws[j] \in Payments

(* The same tables, but for the time.                                       *)
AlikeOffers(d, e, o) ==
  \/ d.offers[o] = NoOffer /\ e.offers[o] = NoOffer
  \/ /\ d.offers[o] # NoOffer /\ e.offers[o] # NoOffer
     /\ d.offers[o].buys = e.offers[o].buys /\ d.offers[o].amount = e.offers[o].amount

Alike(d, e) == d.saved = e.saved /\ \A o \in Ids : AlikeOffers(d, e, o)

(* What a statement changes.                                                *)
LEMMA ExecutedFacts ==
  ASSUME NEW db \in Tables, NEW w \in Statements
  PROVE  LET after == Executed(db, w)
         IN /\ after = [saved |-> after.saved, offers |-> after.offers]
            /\ w.kind \in {"insert", "delete", "decrease"} =>
                 /\ w.id \in Ids
                 /\ after.saved = db.saved
                 /\ after.offers = [db.offers EXCEPT ![w.id] = after.offers[w.id]]
            /\ w.kind = "insert" => w.offer \in Offer /\ after.offers[w.id] = w.offer
            /\ w.kind = "delete" => after.offers[w.id] = NoOffer
            /\ w.kind = "decrease" =>
                 /\ w.amount \in Nat
                 /\ after.offers[w.id] =
                      [db.offers[w.id] EXCEPT !.amount = db.offers[w.id].amount - w.amount]
            /\ w.kind \in {"save", "pay", "store"} =>
                 /\ w.player \in Players
                 /\ after.offers = db.offers
                 /\ after.saved = [db.saved EXCEPT ![w.player] = after.saved[w.player]]
            /\ w.kind = "save" => w.has \in Amounts /\ after.saved[w.player] = w.has
            /\ w.kind = "pay" =>
                 /\ w.amount \in Int
                 /\ after.saved[w.player] =
                      Plus(db.saved[w.player], [money |-> w.amount, goods |-> 0])
            /\ w.kind = "store" =>
                 /\ w.amount \in Int
                 /\ after.saved[w.player] =
                      Plus(db.saved[w.player], [money |-> 0, goods |-> w.amount])
            /\ w.kind \in {"insert", "delete", "decrease", "save", "pay", "store"}
            /\ w \in Payments <=> w.kind \in {"pay", "store"}
<1> DEFINE after == Executed(db, w)
<1>0. /\ db = [saved |-> db.saved, offers |-> db.offers]
      /\ db.saved \in [Players -> Amounts] /\ db.offers \in [Ids -> Offer \cup {NoOffer}]
      /\ \A p \in Players : db.saved[p] \in Amounts
  BY DEF Tables
<1>1. CASE w \in [kind : {"insert"}, id : Ids, offer : Offer]
  <2>1. w.kind = "insert" /\ w.id \in Ids /\ w.offer \in Offer
    BY <1>1
  <2>2. after = [saved |-> db.saved, offers |-> [db.offers EXCEPT ![w.id] = w.offer]]
    BY <1>0, <2>1 DEF Executed
  <2> QED BY <1>0, <2>1, <2>2 DEF Payments
<1>2. CASE w \in [kind : {"delete"}, id : Ids]
  <2>1. w.kind = "delete" /\ w.id \in Ids
    BY <1>2
  <2>2. after = [saved |-> db.saved, offers |-> [db.offers EXCEPT ![w.id] = NoOffer]]
    BY <1>0, <2>1 DEF Executed
  <2> QED BY <1>0, <2>1, <2>2 DEF Payments
<1>3. CASE w \in [kind : {"decrease"}, id : Ids, amount : Nat]
  <2>1. w.kind = "decrease" /\ w.id \in Ids /\ w.amount \in Nat
    BY <1>3
  <2>2. after = [saved |-> db.saved,
                 offers |-> [db.offers EXCEPT ![w.id] =
                   [db.offers[w.id] EXCEPT !.amount = db.offers[w.id].amount - w.amount]]]
    BY <1>0, <2>1 DEF Executed
  <2> QED BY <1>0, <2>1, <2>2 DEF Payments
<1>4. CASE w \in [kind : {"save"}, player : Players, has : Amounts]
  <2>1. w.kind = "save" /\ w.player \in Players /\ w.has \in Amounts
    BY <1>4
  <2>2. after = [saved |-> [db.saved EXCEPT ![w.player] = w.has], offers |-> db.offers]
    BY <1>0, <2>1 DEF Executed
  <2> QED BY <1>0, <2>1, <2>2 DEF Payments
<1>5. CASE w \in Payments
  <2>1. w.kind \in {"pay", "store"} /\ w.player \in Players /\ w.amount \in Int
    BY <1>5 DEF Payments
  <2> DEFINE has == db.saved[w.player]
  <2>2. has \in Amounts
    BY <1>0, <2>1
  <2>3. CASE w.kind = "pay"
    <3>1. after = [saved |-> [db.saved EXCEPT ![w.player] =
                     [has EXCEPT !.money = has.money + w.amount]], offers |-> db.offers]
      BY <1>0, <2>1, <2>3 DEF Executed
    <3> HIDE DEF has
    <3>2. [has EXCEPT !.money = has.money + w.amount]
            = Plus(has, [money |-> w.amount, goods |-> 0])
      BY <2>1, <2>2 DEF Amounts, Plus
    <3> QED BY <1>0, <1>5, <2>1, <2>3, <3>1, <3>2 DEF has
  <2>4. CASE w.kind = "store"
    <3>1. after = [saved |-> [db.saved EXCEPT ![w.player] =
                     [has EXCEPT !.goods = has.goods + w.amount]], offers |-> db.offers]
      BY <1>0, <2>1, <2>4 DEF Executed
    <3> HIDE DEF has
    <3>2. [has EXCEPT !.goods = has.goods + w.amount]
            = Plus(has, [money |-> 0, goods |-> w.amount])
      BY <2>1, <2>2 DEF Amounts, Plus
    <3> QED BY <1>0, <1>5, <2>1, <2>4, <3>1, <3>2 DEF has
  <2> QED BY <2>1, <2>3, <2>4
<1> QED BY <1>1, <1>2, <1>3, <1>4, <1>5 DEF Statements

LEMMA ExecutedTables ==
  ASSUME NEW db \in Tables, NEW w \in Statements, Affords(db, w)
  PROVE  Executed(db, w) \in Tables
<1> DEFINE after == Executed(db, w)
<1>1. /\ db.saved \in [Players -> Amounts] /\ db.offers \in [Ids -> Offer \cup {NoOffer}]
  BY DEF Tables
<1>2. after = [saved |-> after.saved, offers |-> after.offers]
  BY ExecutedFacts
<1>3. CASE w.kind \in {"insert", "delete", "decrease"}
  <2>1. /\ w.id \in Ids /\ after.saved = db.saved
        /\ after.offers = [db.offers EXCEPT ![w.id] = after.offers[w.id]]
    BY <1>3, ExecutedFacts
  <2>2. after.offers[w.id] \in Offer \cup {NoOffer}
    <3>1. CASE w.kind = "insert"
      BY <3>1, ExecutedFacts
    <3>2. CASE w.kind = "delete"
      BY <3>2, ExecutedFacts
    <3>3. CASE w.kind = "decrease"
      <4> DEFINE offer == db.offers[w.id]
      <4>1. /\ w.amount \in Nat
            /\ after.offers[w.id] = [offer EXCEPT !.amount = offer.amount - w.amount]
        BY <3>3, ExecutedFacts
      <4>2. offer \in Offer /\ w.amount <= offer.amount
        BY <1>1, <2>1, <3>3 DEF Affords
      <4> HIDE DEF offer, after
      <4>3. offer.amount - w.amount \in Nat
        BY <4>1, <4>2 DEF Offer
      <4> QED BY <4>1, <4>2, <4>3 DEF Offer
    <3> QED BY <1>3, <3>1, <3>2, <3>3
  <2> HIDE DEF after
  <2>3. after.offers \in [Ids -> Offer \cup {NoOffer}]
    BY <1>1, <2>1, <2>2
  <2> QED BY <1>1, <1>2, <2>1, <2>3 DEF Tables, after
<1>4. CASE w.kind \in {"save", "pay", "store"}
  <2>1. /\ w.player \in Players /\ after.offers = db.offers
        /\ after.saved = [db.saved EXCEPT ![w.player] = after.saved[w.player]]
    BY <1>4, ExecutedFacts
  <2>2. after.saved[w.player] \in Amounts
    <3> DEFINE has == db.saved[w.player]
    <3>1. has \in Amounts
      BY <1>1, <2>1
    <3>2. CASE w.kind = "save"
      BY <3>2, ExecutedFacts
    <3>3. CASE w.kind = "pay"
      <4>1. w.amount \in Int /\ after.saved[w.player] = Plus(has, [money |-> w.amount, goods |-> 0])
        BY <3>3, ExecutedFacts
      <4>2. [money |-> w.amount, goods |-> 0] \in Amounts
        BY <4>1 DEF Amounts
      <4> HIDE DEF has, after
      <4> QED BY <3>1, <4>1, <4>2, PlusFacts
    <3>4. CASE w.kind = "store"
      <4>1. w.amount \in Int /\ after.saved[w.player] = Plus(has, [money |-> 0, goods |-> w.amount])
        BY <3>4, ExecutedFacts
      <4>2. [money |-> 0, goods |-> w.amount] \in Amounts
        BY <4>1 DEF Amounts
      <4> HIDE DEF has, after
      <4> QED BY <3>1, <4>1, <4>2, PlusFacts
    <3> QED BY <1>4, <3>2, <3>3, <3>4
  <2> HIDE DEF after
  <2>3. after.saved \in [Players -> Amounts]
    BY <1>1, <2>1, <2>2
  <2> QED BY <1>1, <1>2, <2>1, <2>3 DEF Tables, after
<1> QED BY <1>3, <1>4, ExecutedFacts

(* A statement does the same to tables that are alike.                      *)
LEMMA ExecutedAlike ==
  ASSUME NEW d \in Tables, NEW e \in Tables, Alike(d, e),
         NEW w \in Statements, Affords(d, w)
  PROVE  Alike(Executed(d, w), Executed(e, w)) /\ Affords(e, w)
<1> DEFINE u == Executed(d, w)
           v == Executed(e, w)
<1>1. /\ d.offers \in [Ids -> Offer \cup {NoOffer}] /\ e.offers \in [Ids -> Offer \cup {NoOffer}]
      /\ d.saved = e.saved /\ d.saved \in [Players -> Amounts]
      /\ \A o \in Ids : AlikeOffers(d, e, o)
  BY DEF Tables, Alike
<1>2. CASE w.kind \in {"insert", "delete", "decrease"}
  <2>1. /\ w.id \in Ids /\ u.saved = d.saved
        /\ u.offers = [d.offers EXCEPT ![w.id] = u.offers[w.id]]
    BY <1>2, ExecutedFacts
  <2>2. /\ v.saved = e.saved
        /\ v.offers = [e.offers EXCEPT ![w.id] = v.offers[w.id]]
    BY <1>2, ExecutedFacts
  <2>3. AlikeOffers(u, v, w.id) /\ Affords(e, w)
    <3>1. CASE w.kind = "insert"
      <4>1. w.offer \in Offer /\ u.offers[w.id] = w.offer /\ v.offers[w.id] = w.offer
        BY <3>1, ExecutedFacts
      <4>2. w.offer # NoOffer
        BY <4>1, MarketAssumption DEF Offer
      <4> QED BY <3>1, <4>1, <4>2 DEF AlikeOffers, Affords
    <3>2. CASE w.kind = "delete"
      <4>1. u.offers[w.id] = NoOffer /\ v.offers[w.id] = NoOffer
        BY <3>2, ExecutedFacts
      <4> QED BY <3>2, <4>1 DEF AlikeOffers, Affords
    <3>3. CASE w.kind = "decrease"
      <4> DEFINE a == d.offers[w.id]
                 b == e.offers[w.id]
                 x == u.offers[w.id]
                 y == v.offers[w.id]
      <4>1. /\ w.amount \in Nat
            /\ x = [a EXCEPT !.amount = a.amount - w.amount]
            /\ y = [b EXCEPT !.amount = b.amount - w.amount]
        BY <3>3, ExecutedFacts
      <4>2. /\ a # NoOffer /\ w.amount <= a.amount
            /\ b # NoOffer /\ a.buys = b.buys /\ a.amount = b.amount
        BY <1>1, <2>1, <3>3 DEF Affords, AlikeOffers
      <4>3. a \in Offer /\ b \in Offer
        BY <1>1, <2>1, <4>2
      <4>4. Affords(e, w)
        BY <4>2 DEF Affords
      <4>5. AlikeOffers(u, v, w.id) <=>
              \/ x = NoOffer /\ y = NoOffer
              \/ x # NoOffer /\ y # NoOffer /\ x.buys = y.buys /\ x.amount = y.amount
        BY DEF AlikeOffers
      <4> HIDE DEF a, b, x, y
      <4>6. a.amount - w.amount \in Nat /\ b.amount - w.amount \in Nat
        BY <4>1, <4>2, <4>3 DEF Offer
      <4>7. x \in Offer /\ y \in Offer /\ x.buys = y.buys /\ x.amount = y.amount
        BY <4>1, <4>2, <4>3, <4>6 DEF Offer
      <4>8. x # NoOffer /\ y # NoOffer
        BY <4>7, MarketAssumption DEF Offer
      <4> QED BY <4>4, <4>5, <4>7, <4>8
    <3> QED BY <1>2, <3>1, <3>2, <3>3
  <2> HIDE DEF u, v
  <2>4. ASSUME NEW o \in Ids, o # w.id  PROVE  AlikeOffers(u, v, o)
    BY <1>1, <2>1, <2>2, <2>4 DEF AlikeOffers
  <2>5. Alike(u, v)
    BY <1>1, <2>1, <2>2, <2>3, <2>4 DEF Alike
  <2> QED BY <2>3, <2>5 DEF u, v
<1>3. CASE w.kind \in {"save", "pay", "store"}
  <2>1. /\ w.player \in Players /\ u.offers = d.offers
        /\ u.saved = [d.saved EXCEPT ![w.player] = u.saved[w.player]]
    BY <1>3, ExecutedFacts
  <2>2. /\ v.offers = e.offers
        /\ v.saved = [e.saved EXCEPT ![w.player] = v.saved[w.player]]
    BY <1>3, ExecutedFacts
  <2>3. u.saved[w.player] = v.saved[w.player]
    <3>1. CASE w.kind = "save"
      BY <3>1, ExecutedFacts
    <3>2. CASE w.kind = "pay"
      <4>1. u.saved[w.player] = Plus(d.saved[w.player], [money |-> w.amount, goods |-> 0])
        BY <3>2, ExecutedFacts
      <4>2. v.saved[w.player] = Plus(e.saved[w.player], [money |-> w.amount, goods |-> 0])
        BY <3>2, ExecutedFacts
      <4> HIDE DEF u, v
      <4> QED BY <1>1, <4>1, <4>2
    <3>3. CASE w.kind = "store"
      <4>1. u.saved[w.player] = Plus(d.saved[w.player], [money |-> 0, goods |-> w.amount])
        BY <3>3, ExecutedFacts
      <4>2. v.saved[w.player] = Plus(e.saved[w.player], [money |-> 0, goods |-> w.amount])
        BY <3>3, ExecutedFacts
      <4> HIDE DEF u, v
      <4> QED BY <1>1, <4>1, <4>2
    <3> QED BY <1>3, <3>1, <3>2, <3>3
  <2>4. Affords(e, w)
    BY <1>3 DEF Affords
  <2> HIDE DEF u, v
  <2>5. Alike(u, v)
    BY <1>1, <2>1, <2>2, <2>3 DEF Alike, AlikeOffers
  <2> QED BY <2>4, <2>5 DEF u, v
<1> QED BY <1>2, <1>3, ExecutedFacts

LEMMA AlikeItself ==
  ASSUME NEW d  PROVE  Alike(d, d)
BY DEF Alike, AlikeOffers

(* Many statements do.                                                      *)
LEMMA FinalAlike ==
  ASSUME NEW d \in Tables, NEW e \in Tables, Alike(d, e),
         NEW ws \in Seq(Statements), Fits(d, ws)
  PROVE  Final(d, ws) \in Tables /\ Final(e, ws) \in Tables
         /\ Alike(Final(d, ws), Final(e, ws))
<1> DEFINE N == Len(ws)
<1>1. N \in Nat /\ \A n \in 1..N : ws[n] \in Statements
  OBVIOUS
<1>2. PICK g : Runs(g, d, ws) /\ Final(d, ws) = g[N]
  BY FinalRuns
<1>3. PICK h : Runs(h, e, ws) /\ Final(e, ws) = h[N]
  BY FinalRuns
<1>4. /\ g[0] = d /\ h[0] = e
      /\ \A n \in 1..N : g[n] = Executed(g[n - 1], ws[n]) /\ h[n] = Executed(h[n - 1], ws[n])
  BY <1>1, <1>2, <1>3 DEF Runs
<1>5. \A n \in 1..N : ws[n].kind = "decrease" =>
        Affords(d, ws[n]) /\ \A j \in 1..n - 1 : ws[j] \in Payments
  BY DEF Fits
<1> DEFINE Good(n) == /\ g[n] \in Tables /\ h[n] \in Tables /\ Alike(g[n], h[n])
                      /\ (\A j \in 1..n : ws[j] \in Payments) => g[n].offers = d.offers
           T == {n \in 0..N : Good(n)}
<1> HIDE DEF N
<1>6. 0 \in T
  BY <1>1, <1>4
<1>7. ASSUME NEW n \in 1..N, n - 1 \in T  PROVE  n \in T
  <2> DEFINE a == g[n - 1]
             b == h[n - 1]
             w == ws[n]
  <2>1. /\ w \in Statements /\ a \in Tables /\ b \in Tables /\ Alike(a, b)
        /\ g[n] = Executed(a, w) /\ h[n] = Executed(b, w)
        /\ (\A j \in 1..n - 1 : ws[j] \in Payments) => a.offers = d.offers
    BY <1>1, <1>4, <1>7
  <2>2. Affords(a, w)
    <3>1. CASE w.kind = "decrease"
      BY <1>5, <2>1, <3>1 DEF Affords
    <3>2. CASE w.kind # "decrease"
      BY <3>2 DEF Affords
    <3> QED BY <3>1, <3>2
  <2>3. n \in 0..N /\ n \in 1..n /\ \A j \in 1..n - 1 : j \in 1..n
    BY <1>1
  <2> HIDE DEF a, b
  <2>4. Executed(a, w) \in Tables /\ Alike(Executed(a, w), Executed(b, w)) /\ Affords(b, w)
    <3> HIDE DEF w
    <3> QED BY <2>1, <2>2, ExecutedTables, ExecutedAlike
  <2>5. Executed(b, w) \in Tables
    <3> HIDE DEF w
    <3> QED BY <2>1, <2>4, ExecutedTables
  <2>6. ASSUME \A j \in 1..n : ws[j] \in Payments  PROVE  g[n].offers = d.offers
    <3>1. w \in Payments /\ a.offers = d.offers
      BY <2>1, <2>3, <2>6
    <3> HIDE DEF w
    <3>2. w.kind \in {"save", "pay", "store"}
      BY <3>1 DEF Payments
    <3>3. Executed(a, w).offers = a.offers
      BY <2>1, <3>2, ExecutedFacts
    <3> QED BY <2>1, <3>1, <3>3
  <2> QED BY <2>1, <2>3, <2>4, <2>5, <2>6
<1> HIDE DEF T
<1>8. N \in T
  <2>1. 0..N \subseteq T
    BY <1>1, <1>6, <1>7, Upward
  <2> QED BY <1>1, <2>1
<1> QED BY <1>2, <1>3, <1>8 DEF T

(* To save players changes neither offers nor others.                       *)
LEMMA FinalSaves ==
  ASSUME NEW db \in Tables, NEW Q \in SUBSET Players,
         NEW ws \in Seq([kind : {"save"}, player : Q, has : Amounts])
  PROVE  /\ Final(db, ws).offers = db.offers
         /\ \A p \in Players \ Q : Final(db, ws).saved[p] = db.saved[p]
<1> DEFINE V == [kind : {"save"}, player : Q, has : Amounts]
           N == Len(ws)
<1>1. N \in Nat /\ \A n \in 1..N : ws[n] \in V
  <2>1. ws \in Seq(V)
    OBVIOUS
  <2> HIDE DEF V
  <2> QED BY <2>1
<1>2. PICK g : Runs(g, db, ws) /\ Final(db, ws) = g[N]
  <2>1. ws \in Seq(V)
    OBVIOUS
  <2> HIDE DEF V
  <2> QED BY <2>1, FinalRuns
<1>3. g[0] = db /\ \A n \in 1..N : g[n] = Executed(g[n - 1], ws[n])
  BY <1>1, <1>2 DEF Runs
<1> HIDE DEF N
<1> DEFINE T == {n \in 0..N : /\ g[n] \in Tables /\ g[n].offers = db.offers
                              /\ \A p \in Players \ Q : g[n].saved[p] = db.saved[p]}
<1>4. 0 \in T
  BY <1>1, <1>3
<1>5. ASSUME NEW n \in 1..N, n - 1 \in T  PROVE  n \in T
  <2> DEFINE a == g[n - 1]
             b == g[n]
             w == ws[n]
  <2>1. /\ n \in 0..N /\ w \in V /\ a \in Tables /\ b = Executed(a, w) /\ a.offers = db.offers
        /\ \A p \in Players \ Q : a.saved[p] = db.saved[p]
    BY <1>1, <1>3, <1>5
  <2> HIDE DEF a, b, w
  <2>2. w \in Statements /\ w.kind = "save" /\ w.player \in Q /\ Affords(a, w)
    BY <2>1 DEF Statements, Affords
  <2>3. /\ b.offers = a.offers
        /\ b.saved = [a.saved EXCEPT ![w.player] = b.saved[w.player]]
    BY <2>1, <2>2, ExecutedFacts
  <2>4. b \in Tables
    BY <2>1, <2>2, ExecutedTables
  <2>5. \A p \in Players \ Q : b.saved[p] = a.saved[p]
    <3>1. a.saved \in [Players -> Amounts]
      BY <2>1 DEF Tables
    <3> QED BY <2>2, <2>3, <3>1
  <2> QED BY <2>1, <2>3, <2>4, <2>5 DEF b
<1> HIDE DEF T
<1>6. N \in T
  <2>1. 0..N \subseteq T
    BY <1>1, <1>4, <1>5, Upward
  <2> QED BY <1>1, <2>1
<1> QED BY <1>2, <1>6 DEF T

-----------------------------------------------------------------------------
(* What handlers move, as amounts.                                          *)

(* What everybody has, and what is on offer.                                *)
LEMMA WealthTypes ==
  ASSUME NEW on, NEW mem \in [Players -> Amounts], NEW db \in Tables
  PROVE  /\ \A p \in Players : Having(on, mem, db)[p] \in Amounts
         /\ \A o \in Ids : Staked(db)[o] \in Amounts
         /\ Sum(Having(on, mem, db), Players) \in Amounts
         /\ Sum(Staked(db), Ids) \in Amounts
         /\ Wealth(on, mem, db) \in Amounts
<1>1. db.saved \in [Players -> Amounts] /\ db.offers \in [Ids -> Offer \cup {NoOffer}]
  BY DEF Tables
<1>2. \A p \in Players : Having(on, mem, db)[p] \in Amounts
  BY <1>1 DEF Having
<1>3. ASSUME NEW o \in Ids  PROVE  Staked(db)[o] \in Amounts
  <2> DEFINE offer == db.offers[o]
  <2>1. Staked(db)[o] = IF offer = NoOffer THEN Nothing ELSE Worth(offer, offer.amount)
    BY DEF Staked
  <2>2. offer # NoOffer => offer \in Offer
    BY <1>1
  <2> HIDE DEF offer
  <2>3. Price \in Nat
    BY MarketAssumption
  <2>4. offer # NoOffer => offer.amount \in Nat
    BY <2>2 DEF Offer
  <2>5. offer # NoOffer => Price * offer.amount \in Nat
    BY <2>3, <2>4
  <2> QED BY <2>1, <2>4, <2>5 DEF Worth, Amounts, Nothing
<1>4. IsFiniteSet(Players) /\ IsFiniteSet(Ids)
  BY MarketAssumption
<1>5. Sum(Having(on, mem, db), Players) \in Amounts /\ Sum(Staked(db), Ids) \in Amounts
  BY <1>2, <1>3, <1>4, SumFacts
<1> QED BY <1>2, <1>3, <1>5, PlusFacts DEF Wealth

(* The worth of parts of an offer.                                          *)
LEMMA WorthFacts ==
  ASSUME NEW offer, offer.buys \in BOOLEAN, NEW n \in Nat
  PROVE  /\ Worth(offer, n) \in Amounts
         /\ \A m \in Nat : Plus(Worth(offer, n), Worth(offer, m)) = Worth(offer, n + m)
         /\ Worth(offer, n) = (IF offer.buys THEN [money |-> Price * n, goods |-> 0]
                               ELSE [money |-> 0, goods |-> n])
         /\ Price * n \in Nat
<1>1. Price \in Nat
  BY MarketAssumption
<1>2. Price * n \in Nat
  BY <1>1
<1>3. ASSUME NEW m \in Nat
      PROVE  Plus(Worth(offer, n), Worth(offer, m)) = Worth(offer, n + m)
  <2>1. Price * m \in Nat /\ Price * (n + m) = Price * n + Price * m
    BY <1>1
  <2> DEFINE x == Price * n
             y == Price * m
             z == Price * (n + m)
  <2>2. x \in Nat /\ y \in Nat /\ z = x + y
    BY <1>2, <2>1
  <2>3. /\ Worth(offer, n) = IF offer.buys THEN [money |-> x, goods |-> 0]
                             ELSE [money |-> 0, goods |-> n]
        /\ Worth(offer, m) = IF offer.buys THEN [money |-> y, goods |-> 0]
                             ELSE [money |-> 0, goods |-> m]
        /\ Worth(offer, n + m) = IF offer.buys THEN [money |-> z, goods |-> 0]
                                 ELSE [money |-> 0, goods |-> n + m]
    BY DEF Worth
  <2> HIDE DEF x, y, z
  <2> QED BY <2>2, <2>3 DEF Plus
<1> QED BY <1>2, <1>3 DEF Worth, Amounts

(* Somebody gets a, and what an offer holds changes by b.                    *)
LEMMA WealthMoves ==
  ASSUME NEW on, NEW mem \in [Players -> Amounts], NEW db \in Tables, NEW u, NEW v, NEW e,
         NEW p \in Players, NEW a \in Amounts, NEW o \in Ids, NEW b \in Amounts,
         Puts(Having(u, v, e), Having(on, mem, db), Players, p, a),
         Puts(Staked(e), Staked(db), Ids, o, b)
  PROVE  Wealth(u, v, e) = Plus(Wealth(on, mem, db), Plus(a, b))
<1> DEFINE h == Having(on, mem, db)
           k == Staked(db)
           x == Sum(h, Players)
           y == Sum(k, Ids)
<1>1. IsFiniteSet(Players) /\ IsFiniteSet(Ids)
  BY MarketAssumption
<1>2. (\A q \in Players : h[q] \in Amounts) /\ (\A i \in Ids : k[i] \in Amounts)
      /\ x \in Amounts /\ y \in Amounts
  BY WealthTypes
<1> HIDE DEF h, k
<1>3. Sum(Having(u, v, e), Players) = Plus(x, a)
  BY <1>1, <1>2, SumPut DEF h
<1>4. Sum(Staked(e), Ids) = Plus(y, b)
  BY <1>1, <1>2, SumPut DEF k
<1> HIDE DEF x, y
<1>5. Plus(Plus(x, a), Plus(y, b)) = Plus(Plus(x, y), Plus(a, b))
  BY <1>2 DEF Plus, Amounts
<1>6. Wealth(u, v, e) = Plus(Plus(x, a), Plus(y, b)) /\ Wealth(on, mem, db) = Plus(x, y)
  BY <1>3, <1>4 DEF Wealth, x, y, h, k
<1> QED BY <1>5, <1>6

LEMMA WealthSame ==
  ASSUME NEW on, NEW mem, NEW db, NEW u, NEW v, NEW e,
         \A q \in Players : Having(u, v, e)[q] = Having(on, mem, db)[q],
         \A i \in Ids : Staked(e)[i] = Staked(db)[i]
  PROVE  Wealth(u, v, e) = Wealth(on, mem, db)
<1>1. IsFiniteSet(Players) /\ IsFiniteSet(Ids)
  BY MarketAssumption
<1>2. Sum(Having(u, v, e), Players) = Sum(Having(on, mem, db), Players)
  BY <1>1, SumSame
<1>3. Sum(Staked(e), Ids) = Sum(Staked(db), Ids)
  BY <1>1, SumSame
<1> QED BY <1>2, <1>3 DEF Wealth

-----------------------------------------------------------------------------
(* The types hold, and every statement finds what it needs.                  *)
Kept ==
  /\ online \subseteq Players
  /\ memory \in [Players -> Amounts]
  /\ Database \in Tables
  /\ writes \in Seq(Statements)
  /\ Fits(Database, writes)

LEMMA FitsFacts ==
  ASSUME NEW db
  PROVE  /\ << >> \in Seq(Statements) /\ Fits(db, << >>)
         /\ \A w \in Statements :
              Affords(db, w) => <<w>> \in Seq(Statements) /\ Fits(db, <<w>>)
         /\ \A w \in Payments, x \in Statements :
              Affords(db, x) => <<w>> \o <<x>> \in Seq(Statements) /\ Fits(db, <<w>> \o <<x>>)
         /\ \A ws \in Seq(Statements) :
              (\A k \in 1..Len(ws) : ws[k].kind # "decrease") => Fits(db, ws)
<1>1. << >> \in Seq(Statements) /\ Fits(db, << >>)
  BY DEF Fits
<1>2. ASSUME NEW w \in Statements, Affords(db, w)
      PROVE  <<w>> \in Seq(Statements) /\ Fits(db, <<w>>)
  <2>1. <<w>> \in Seq(Statements) /\ Len(<<w>>) = 1 /\ <<w>>[1] = w
    OBVIOUS
  <2> DEFINE ws == <<w>>
  <2>2. Len(ws) = 1 /\ ws[1] = w
    BY <2>1
  <2> HIDE DEF ws
  <2>3. Fits(db, ws)
    BY <1>2, <2>2 DEF Fits
  <2> QED BY <2>1, <2>3 DEF ws
<1>3. ASSUME NEW w \in Payments, NEW x \in Statements, Affords(db, x)
      PROVE  <<w>> \o <<x>> \in Seq(Statements) /\ Fits(db, <<w>> \o <<x>>)
  <2>1. w \in Statements /\ w.kind # "decrease"
    BY DEF Statements, Payments
  <2> DEFINE ws == <<w>> \o <<x>>
  <2>2. ws \in Seq(Statements) /\ Len(ws) = 2 /\ ws[1] = w /\ ws[2] = x
    BY <2>1
  <2> HIDE DEF ws
  <2>3. Fits(db, ws)
    BY <1>3, <2>1, <2>2 DEF Fits
  <2> QED BY <2>2, <2>3 DEF ws
<1>4. ASSUME NEW ws \in Seq(Statements), \A k \in 1..Len(ws) : ws[k].kind # "decrease"
      PROVE  Fits(db, ws)
  BY <1>4 DEF Fits
<1> QED BY <1>1, <1>2, <1>3, <1>4

LEMMA InitKept == Init => Kept
<1> SUFFICES ASSUME Init  PROVE  Kept
  OBVIOUS
<1>1. memory \in [Players -> Amounts]
  BY NothingFacts DEF Init
<1>2. Database \in Tables
  <2>1. saved \in [Players -> Amounts]
    BY MarketAssumption DEF Init, Amounts
  <2>2. offers \in [Ids -> Offer \cup {NoOffer}]
    BY DEF Init
  <2> QED BY <2>1, <2>2 DEF Database, Tables
<1> QED BY <1>1, <1>2, FitsFacts DEF Init, Kept

(* An idle handler leaves nothing to execute.                               *)
LEMMA IdleFacts ==
  ASSUME Kept, Idle
  PROVE  /\ After = Database
         /\ \A o \in Ids : Listed(o) => offers[o] \in Offer
         /\ saved \in [Players -> Amounts] /\ offers \in [Ids -> Offer \cup {NoOffer}]
<1>1. After = Database
  BY FinalShort DEF After, Final, Idle
<1>2. saved \in [Players -> Amounts] /\ offers \in [Ids -> Offer \cup {NoOffer}]
  BY DEF Kept, Tables, Database
<1> QED BY <1>1, <1>2 DEF Listed

-----------------------------------------------------------------------------
(* Handlers.                                                                *)

LEMMA AfterIs == After = Final(Database, writes) /\ After' = Final(Database', writes')
BY DEF After, Final

LEMMA TotalIs ==
  /\ Total = Wealth(online, memory, After)
  /\ Total' = Wealth(online', memory', After')
BY TotalAgrees, TotalAgreesNext DEF TotalIsWealth

LEMMA FeeFacts ==
  ASSUME NEW n \in Nat  PROVE  [money |-> Fee(n), goods |-> 0] \in Amounts
<1> DEFINE x == (Price * n) \div 100
           y == Min({1000, x})
<1>1. x \in Int
  <2>1. Price * n \in Nat
    BY MarketAssumption
  <2> QED BY <2>1
<1> HIDE DEF x
<1>2. y \in Int
  <2>1. \E a \in {1000, x} : \A b \in {1000, x} : a <= b
    BY <1>1
  <2>2. y \in {1000, x}
    BY <2>1 DEF Min
  <2> QED BY <1>1, <2>2
<1> HIDE DEF y
<1>3. Max({20, y}) \in Int
  <2>1. \E a \in {20, y} : \A b \in {20, y} : a >= b
    BY <1>2
  <2>2. Max({20, y}) \in {20, y}
    BY <2>1 DEF Max
  <2> QED BY <1>2, <2>2
<1> QED BY <1>3 DEF Fee, Amounts, x, y

LEMMA CreateKeeps ==
  ASSUME Kept, NEW p \in Players, NEW o \in Ids, NEW n \in 1..MaxAmount, NEW buys \in BOOLEAN,
         Create(p, o, [owner |-> p, buys |-> buys, amount |-> n, expired |-> FALSE])
  PROVE  Kept' /\ Total' = Minus(Total, [money |-> Fee(n), goods |-> 0])
<1> DEFINE offer == [owner |-> p, buys |-> buys, amount |-> n, expired |-> FALSE]
           worth == Worth(offer, n)
           fee == [money |-> Fee(n), goods |-> 0]
           cost == Plus(worth, fee)
           w == Insert(o, offer)
           e == Executed(Database, w)
<1>1. n \in Nat /\ offer \in Offer /\ offer.amount = n /\ offer.buys \in BOOLEAN
  BY MarketAssumption DEF Offer
<1>2. /\ Idle /\ p \in online /\ ~Listed(o)
      /\ memory' = [memory EXCEPT ![p] = Minus(memory[p], cost)]
      /\ writes' = <<w>>
      /\ UNCHANGED <<online, tables, timer, faults>>
  BY <1>1 DEF Create
<1>3. /\ Database' = Database /\ online' = online
  BY <1>2 DEF Database, tables
<1>4. w \in Statements /\ w.kind = "insert" /\ w.id = o /\ w.offer = offer
  BY <1>1 DEF Statements, Insert
<1>5. After = Database /\ After' = e /\ Database \in Tables /\ memory \in [Players -> Amounts]
  BY <1>2, <1>3, IdleFacts, AfterIs, FinalShort DEF Kept
<1>6. worth \in Amounts /\ fee \in Amounts
  <2> HIDE DEF offer
  <2> QED BY <1>1, WorthFacts, FeeFacts
<1>7. cost \in Amounts
  BY <1>6, PlusFacts
<1>8. /\ e.saved = Database.saved /\ e.offers = [Database.offers EXCEPT ![o] = e.offers[o]]
      /\ e.offers[o] = offer
  <2> HIDE DEF w, offer
  <2>1. /\ e.saved = Database.saved
        /\ e.offers = [Database.offers EXCEPT ![w.id] = e.offers[w.id]]
        /\ e.offers[w.id] = w.offer
    BY <1>4, <1>5, ExecutedFacts
  <2> QED BY <1>4, <2>1
<1>9. Database.offers[o] = NoOffer
  BY <1>2 DEF Listed, Database
<1>10. /\ offer # NoOffer /\ Database.offers \in [Ids -> Offer \cup {NoOffer}]
       /\ online \subseteq Players
  BY <1>1, <1>5, MarketAssumption DEF Offer, Tables, Kept
<1> HIDE DEF e, offer, worth, fee, w
<1>11. Puts(Having(online, memory', e), Having(online, memory, Database), Players, p, Lacking(cost))
  <2>1. Minus(memory[p], cost) = Plus(memory[p], Lacking(cost))
    <3>1. memory[p] \in Amounts
      BY <1>5
    <3> HIDE DEF cost
    <3> QED BY <1>7, <3>1 DEF Amounts, Minus, Plus, Lacking, Nothing
  <2> HIDE DEF cost
  <2> QED BY <1>2, <1>5, <1>8, <2>1 DEF Having, Puts
<1>12. Puts(Staked(e), Staked(Database), Ids, o, worth)
  <2>1. Staked(e)[o] = worth
    BY <1>1, <1>8, <1>10 DEF Staked, worth
  <2>2. Staked(Database)[o] = Nothing
    BY <1>9 DEF Staked
  <2>3. Plus(Nothing, worth) = worth
    BY <1>6, NothingFacts, PlusFacts
  <2>4. \A i \in Ids : i # o => Staked(e)[i] = Staked(Database)[i]
    BY <1>8, <1>10 DEF Staked
  <2> QED BY <2>1, <2>2, <2>3, <2>4 DEF Puts
<1>13. Wealth(online, memory', e) = Plus(Wealth(online, memory, Database), Plus(Lacking(cost), worth))
  <2>1. Lacking(cost) \in Amounts
    BY <1>7, NothingFacts
  <2> HIDE DEF cost
  <2> QED BY <1>5, <1>6, <1>11, <1>12, <2>1, WealthMoves
<1>14. Total' = Minus(Total, fee)
  <2> DEFINE t == Wealth(online, memory, Database)
  <2>1. t \in Amounts
    BY <1>5, WealthTypes
  <2> HIDE DEF t
  <2>2. Plus(t, Plus(Lacking(cost), worth)) = Minus(t, fee)
    BY <1>6, <2>1 DEF Amounts, Plus, Minus, Lacking, Nothing
  <2> QED BY <1>3, <1>5, <1>13, <2>2, TotalIs DEF t
<1>15. Kept'
  <2>1. memory' \in [Players -> Amounts]
    <3>1. Minus(memory[p], cost) \in Amounts
      BY <1>5, <1>7, PlusFacts
    <3> HIDE DEF cost
    <3> QED BY <1>2, <1>5, <3>1
  <2>2. <<w>> \in Seq(Statements) /\ Fits(Database, <<w>>)
    BY <1>4, FitsFacts DEF Affords
  <2> QED BY <1>2, <1>3, <1>5, <1>10, <2>1, <2>2 DEF Kept
<1> QED BY <1>14, <1>15 DEF fee

LEMMA CancelKeeps ==
  ASSUME Kept, NEW p \in Players, NEW o \in Ids, Cancel(p, o)
  PROVE  Kept' /\ Total' = Total
<1> DEFINE offer == offers[o]
           worth == Worth(offer, offer.amount)
           w == Delete(o)
           e == Executed(Database, w)
<1>1. /\ Idle /\ p \in online /\ Listed(o)
      /\ memory' = [memory EXCEPT ![p] = Plus(memory[p], worth)]
      /\ writes' = <<w>>
      /\ UNCHANGED <<online, tables, timer, faults>>
  BY DEF Cancel
<1>2. /\ Database' = Database /\ online' = online
  BY <1>1 DEF Database, tables
<1>3. w \in Statements /\ w.kind = "delete" /\ w.id = o
  BY DEF Statements, Delete
<1>4. After = Database /\ After' = e /\ Database \in Tables /\ memory \in [Players -> Amounts]
  BY <1>1, <1>2, IdleFacts, AfterIs, FinalShort DEF Kept
<1>5. offer \in Offer
  BY <1>1, IdleFacts
<1>6. offer # NoOffer /\ Database.offers[o] = offer /\ Database.offers \in [Ids -> Offer \cup {NoOffer}]
      /\ online \subseteq Players
  BY <1>1, <1>4 DEF Listed, Database, Tables, Kept
<1> HIDE DEF offer
<1>7. worth \in Amounts
  <2>1. offer.amount \in Nat /\ offer.buys \in BOOLEAN
    BY <1>5 DEF Offer
  <2> QED BY <2>1, WorthFacts
<1>8. /\ e.saved = Database.saved /\ e.offers = [Database.offers EXCEPT ![o] = NoOffer]
  <2> HIDE DEF w
  <2>1. /\ e.saved = Database.saved
        /\ e.offers = [Database.offers EXCEPT ![w.id] = e.offers[w.id]]
        /\ e.offers[w.id] = NoOffer
    BY <1>3, <1>4, ExecutedFacts
  <2> QED BY <1>3, <2>1
<1> HIDE DEF e, w
<1>9. Puts(Having(online, memory', e), Having(online, memory, Database), Players, p, worth)
  <2> HIDE DEF worth
  <2> QED BY <1>1, <1>4, <1>8 DEF Having, Puts
<1>10. Puts(Staked(e), Staked(Database), Ids, o, Lacking(worth))
  <2>1. Staked(Database)[o] = worth
    BY <1>6 DEF Staked
  <2>2. \A i \in Ids : Staked(e)[i] = IF i = o THEN Nothing ELSE Staked(Database)[i]
    BY <1>6, <1>8 DEF Staked
  <2> HIDE DEF worth
  <2>3. Plus(worth, Lacking(worth)) = Nothing
    BY <1>7 DEF Amounts, Plus, Minus, Lacking, Nothing
  <2> QED BY <2>1, <2>2, <2>3 DEF Puts
<1> HIDE DEF worth
<1>11. Lacking(worth) \in Amounts
  BY <1>7, NothingFacts
<1>12. Wealth(online, memory', e)
         = Plus(Wealth(online, memory, Database), Plus(worth, Lacking(worth)))
  BY <1>4, <1>7, <1>9, <1>10, <1>11, WealthMoves
<1>13. Total' = Total
  <2> DEFINE t == Wealth(online, memory, Database)
  <2>1. t \in Amounts
    BY <1>4, WealthTypes
  <2> HIDE DEF t
  <2>2. Plus(t, Plus(worth, Lacking(worth))) = t
    BY <1>7, <2>1 DEF Amounts, Plus, Minus, Lacking, Nothing
  <2> QED BY <1>2, <1>4, <1>12, <2>2, TotalIs DEF t
<1>14. Kept'
  <2>1. memory' \in [Players -> Amounts]
    <3>1. Plus(memory[p], worth) \in Amounts
      BY <1>4, <1>7, PlusFacts
    <3> QED BY <1>1, <1>4, <3>1 DEF worth
  <2>2. <<w>> \in Seq(Statements) /\ Fits(Database, <<w>>)
    BY <1>3, FitsFacts DEF Affords
  <2> QED BY <1>1, <1>2, <1>4, <1>6, <2>1, <2>2 DEF Kept
<1> QED BY <1>13, <1>14

(* A part of an offer, or all of it, is taken from the table.                 *)
Taken(d, e, o, part) ==
  e.saved = d.saved /\ Puts(Staked(e), Staked(d), Ids, o, Lacking(part))

LEMMA TakeFacts ==
  ASSUME NEW o \in Ids, offers[o] \in Offer, NEW n \in Nat, n <= offers[o].amount
  PROVE  \E x \in Statements :
           /\ Take(o, n) = <<x>>
           /\ \A d \in Tables : d.offers = offers =>
                Affords(d, x) /\ Taken(d, Executed(d, x), o, Worth(offers[o], n))
<1> DEFINE offer == offers[o]
           all == offer.amount
           x == IF n = all THEN Delete(o) ELSE Decrease(o, n)
<1>1. all \in Nat /\ offer.buys \in BOOLEAN /\ offer # NoOffer
  BY MarketAssumption DEF Offer
<1>2. /\ x \in Statements /\ Take(o, n) = <<x>> /\ x.id = o
      /\ n = all => x.kind = "delete"
      /\ n # all => x.kind = "decrease" /\ x.amount = n
  BY DEF Statements, Delete, Decrease, Take
<1> HIDE DEF x
<1>3. ASSUME NEW d \in Tables, d.offers = offers
      PROVE  Affords(d, x) /\ Taken(d, Executed(d, x), o, Worth(offer, n))
  <2> DEFINE e == Executed(d, x)
             left == e.offers[o]
  <2>1. Affords(d, x)
    BY <1>1, <1>2, <1>3 DEF Affords
  <2>2. /\ e.saved = d.saved /\ e.offers = [offers EXCEPT ![o] = left]
        /\ n = all => left = NoOffer
        /\ n # all => left = [offer EXCEPT !.amount = all - n]
    BY <1>2, <1>3, ExecutedFacts
  <2>3. /\ offers \in [Ids -> Offer \cup {NoOffer}]
        /\ Staked(d)[o] = Worth(offer, all)
    BY <1>1, <1>3 DEF Tables, Staked
  <2>4. \A i \in Ids : i # o => Staked(e)[i] = Staked(d)[i]
    BY <1>3, <2>2, <2>3 DEF Staked
  <2>5. Staked(e)[o] = IF left = NoOffer THEN Nothing ELSE Worth(left, left.amount)
    BY DEF Staked
  <2> HIDE DEF e
  <2>6. Staked(e)[o] = Plus(Staked(d)[o], Lacking(Worth(offer, n)))
    <3>1. Worth(offer, n) \in Amounts
      BY <1>1, WorthFacts
    <3>2. CASE n = all
      <4>1. Plus(Worth(offer, n), Lacking(Worth(offer, n))) = Nothing
        BY <3>1 DEF Amounts, Plus, Minus, Lacking, Nothing
      <4> QED BY <2>2, <2>3, <2>5, <3>2, <4>1
    <3>3. CASE n # all
      <4> DEFINE rest == all - n
      <4>1. rest \in Nat /\ n + rest = all
        BY <1>1
      <4>2. left \in Offer /\ left.amount = rest /\ left.buys = offer.buys
        BY <2>2, <3>3, <4>1 DEF Offer
      <4>3. left # NoOffer
        BY <4>2, MarketAssumption DEF Offer
      <4> HIDE DEF left, rest, offer, all
      <4>4. Worth(left, left.amount) = Worth(offer, rest)
        BY <4>2 DEF Worth
      <4>5. Worth(offer, rest) \in Amounts /\ Plus(Worth(offer, n), Worth(offer, rest)) = Worth(offer, all)
        <5>1. \A m \in Nat : Plus(Worth(offer, n), Worth(offer, m)) = Worth(offer, n + m)
          BY <1>1, WorthFacts
        <5>2. Worth(offer, rest) \in Amounts
          BY <1>1, <4>1, WorthFacts
        <5> QED BY <4>1, <5>1, <5>2
      <4> DEFINE a == Worth(offer, n)
                 b == Worth(offer, rest)
      <4>6. a \in Amounts /\ b \in Amounts
        BY <3>1, <4>5
      <4> HIDE DEF a, b
      <4>7. b = Plus(Plus(a, b), Lacking(a))
        BY <4>6 DEF Amounts, Plus, Minus, Lacking, Nothing
      <4> QED BY <2>3, <2>5, <4>3, <4>4, <4>5, <4>7 DEF a, b
    <3> QED BY <3>2, <3>3
  <2>7. Taken(d, e, o, Worth(offer, n))
    BY <2>2, <2>4, <2>6 DEF Taken, Puts
  <2> QED BY <2>1, <2>7 DEF e
<1> QED BY <1>2, <1>3

(* An offline owner is paid.                                                *)
Paid(d, e, p, gain) ==
  e \in Tables /\ e.offers = d.offers
    /\ e.saved = [d.saved EXCEPT ![p] = Plus(d.saved[p], gain)]

LEMMA WrittenFacts ==
  ASSUME NEW p \in Players, NEW f, f.buys \in BOOLEAN, NEW n \in Nat
  PROVE  \E w \in Payments :
           /\ Written(p, Worth(f, n)) = <<w>>
           /\ \A d \in Tables : Paid(d, Executed(d, w), p, Worth(f, n))
<1> DEFINE gain == Worth(f, n)
           w == IF gain.goods > 0 THEN Store(p, gain.goods) ELSE Pay(p, gain.money)
<1>1. gain = (IF f.buys THEN [money |-> Price * n, goods |-> 0] ELSE [money |-> 0, goods |-> n])
      /\ Price * n \in Nat
  BY WorthFacts
<1>2. gain.money \in Int /\ gain.goods \in Nat
  BY <1>1
<1>3. gain = (IF gain.goods > 0 THEN [money |-> 0, goods |-> gain.goods]
              ELSE [money |-> gain.money, goods |-> 0])
  <2> DEFINE m == Price * n
  <2>1. gain = (IF f.buys THEN [money |-> m, goods |-> 0] ELSE [money |-> 0, goods |-> n])
    BY <1>1
  <2> HIDE DEF m, gain
  <2> QED BY <2>1
<1>4. Written(p, gain) = <<w>>
  BY DEF Written
<1> HIDE DEF gain
<1>5. /\ w \in Payments /\ w.player = p
      /\ gain.goods > 0 => w.kind = "store" /\ w.amount = gain.goods
      /\ ~(gain.goods > 0) => w.kind = "pay" /\ w.amount = gain.money
  BY <1>2 DEF Payments, Pay, Store
<1> HIDE DEF w
<1>6. w \in Statements /\ w.kind # "decrease" /\ w.kind \in {"save", "pay", "store"}
  BY <1>5 DEF Statements, Payments
<1>7. ASSUME NEW d \in Tables  PROVE  Paid(d, Executed(d, w), p, gain)
  <2> DEFINE e == Executed(d, w)
  <2>1. /\ e.offers = d.offers
        /\ e.saved = [d.saved EXCEPT ![p] = e.saved[p]]
    BY <1>5, <1>6, ExecutedFacts
  <2>2. e.saved[p] = Plus(d.saved[p], gain)
    <3>1. CASE gain.goods > 0
      <4>1. e.saved[p] = Plus(d.saved[p], [money |-> 0, goods |-> gain.goods])
        BY <1>5, <1>6, <3>1, ExecutedFacts
      <4> QED BY <1>3, <3>1, <4>1
    <3>2. CASE ~(gain.goods > 0)
      <4>1. e.saved[p] = Plus(d.saved[p], [money |-> gain.money, goods |-> 0])
        BY <1>5, <1>6, <3>2, ExecutedFacts
      <4> QED BY <1>3, <3>2, <4>1
    <3> QED BY <3>1, <3>2
  <2>3. e \in Tables
    BY <1>6, ExecutedTables DEF Affords
  <2> HIDE DEF e
  <2>4. Paid(d, e, p, gain)
    BY <2>1, <2>2, <2>3 DEF Paid
  <2> QED BY <2>4 DEF e
<1> QED BY <1>4, <1>5, <1>7 DEF gain

(* p gets a, q gets c, and what an offer holds changes by b.                 *)
LEMMA WealthMovesTwice ==
  ASSUME NEW on, NEW mem \in [Players -> Amounts], NEW db \in Tables, NEW u, NEW v, NEW e,
         NEW p \in Players, NEW a \in Amounts, NEW q \in Players, NEW c \in Amounts, NEW h,
         Puts(h, Having(on, mem, db), Players, p, a), Puts(Having(u, v, e), h, Players, q, c),
         NEW o \in Ids, NEW b \in Amounts, Puts(Staked(e), Staked(db), Ids, o, b)
  PROVE  Wealth(u, v, e) = Plus(Wealth(on, mem, db), Plus(Plus(a, c), b))
<1> DEFINE g == Having(on, mem, db)
           k == Staked(db)
           x == Sum(g, Players)
           y == Sum(k, Ids)
<1>1. IsFiniteSet(Players) /\ IsFiniteSet(Ids)
  BY MarketAssumption
<1>2. (\A r \in Players : g[r] \in Amounts) /\ (\A i \in Ids : k[i] \in Amounts)
      /\ x \in Amounts /\ y \in Amounts
  BY WealthTypes
<1> HIDE DEF g, k
<1>3. Sum(h, Players) = Plus(x, a)
  BY <1>1, <1>2, SumPut DEF g
<1>4. \A r \in Players : h[r] \in Amounts
  BY <1>2, PlusFacts DEF g, Puts
<1>5. Sum(Having(u, v, e), Players) = Plus(Plus(x, a), c)
  BY <1>1, <1>3, <1>4, SumPut
<1>6. Sum(Staked(e), Ids) = Plus(y, b)
  BY <1>1, <1>2, SumPut DEF k
<1> HIDE DEF x, y
<1>7. Plus(Plus(Plus(x, a), c), Plus(y, b)) = Plus(Plus(x, y), Plus(Plus(a, c), b))
  BY <1>2 DEF Plus, Amounts
<1>8. /\ Wealth(u, v, e) = Plus(Plus(Plus(x, a), c), Plus(y, b))
      /\ Wealth(on, mem, db) = Plus(x, y)
  BY <1>5, <1>6 DEF Wealth, x, y, g, k
<1> QED BY <1>7, <1>8

LEMMA AcceptKeeps ==
  ASSUME Kept, NEW p \in Players, NEW o \in Ids, NEW n \in 1..MaxAmount, Accept(p, o, n)
  PROVE  Kept' /\ Total' = Total
<1> DEFINE offer == offers[o]
           owner == offer.owner
           flip == [offer EXCEPT !.buys = ~offer.buys]
           put == Worth(offer, n)
           asked == Worth(flip, n)
           gain == Plus(Lacking(asked), put)
           paid == [memory EXCEPT ![p] = Plus(Minus(memory[p], asked), put)]
           h0 == Having(online, memory, Database)
           h == [r \in Players |-> IF r = p THEN Plus(h0[r], gain) ELSE h0[r]]
           e == Final(Database, writes')
<1>1. /\ Idle /\ p \in online /\ Listed(o) /\ n <= offer.amount
      /\ memory' = IF owner \in online THEN [paid EXCEPT ![owner] = Plus(paid[owner], asked)]
                   ELSE paid
      /\ writes' = (IF owner \in online THEN << >> ELSE Written(owner, asked)) \o Take(o, n)
      /\ UNCHANGED <<online, tables, timer, faults>>
  BY DEF Accept
<1>2. /\ Database' = Database /\ online' = online
  BY <1>1 DEF Database, tables
<1>3. /\ After = Database /\ After' = e /\ Database \in Tables /\ memory \in [Players -> Amounts]
      /\ offer \in Offer /\ Database.offers = offers /\ Database.saved = saved
      /\ saved \in [Players -> Amounts] /\ online \subseteq Players
  BY <1>1, <1>2, IdleFacts, AfterIs DEF Kept, Database
<1>4. owner \in Players /\ offer.amount \in Nat /\ n \in Nat
      /\ offer.buys \in BOOLEAN /\ flip.buys \in BOOLEAN
  BY <1>3, MarketAssumption DEF Offer
<1>5. PICK x \in Statements :
        /\ Take(o, n) = <<x>>
        /\ \A d \in Tables : d.offers = offers => Affords(d, x) /\ Taken(d, Executed(d, x), o, put)
  BY <1>1, <1>3, <1>4, TakeFacts
<1> HIDE DEF flip
<1>6. put \in Amounts /\ asked \in Amounts
  <2> HIDE DEF offer
  <2> QED BY <1>4, WorthFacts
<1>7. PICK w \in Payments :
        /\ Written(owner, asked) = <<w>>
        /\ \A d \in Tables : Paid(d, Executed(d, w), owner, asked)
  <2> HIDE DEF owner
  <2> QED BY <1>4, WrittenFacts
<1> HIDE DEF e, put, asked
<1>8. gain \in Amounts /\ Lacking(put) \in Amounts
  BY <1>6, NothingFacts, PlusFacts
<1>9. \A a \in Amounts : Plus(Minus(a, asked), put) = Plus(a, gain) /\ Plus(a, gain) \in Amounts
  BY <1>6 DEF Amounts, Plus, Minus, Lacking, Nothing
<1> HIDE DEF gain
<1>10. Puts(h, Having(online, memory, Database), Players, p, gain)
  BY DEF Puts
<1>11. paid = [memory EXCEPT ![p] = Plus(memory[p], gain)] /\ paid \in [Players -> Amounts]
  BY <1>3, <1>9
<1> HIDE DEF paid
<1>12. \A r \in Players : h[r] = IF r \in online THEN paid[r] ELSE saved[r]
  BY <1>1, <1>3, <1>11 DEF Having
<1> HIDE DEF h, offer, owner
<1>13. /\ Puts(Having(online, memory', e), h, Players, owner, asked)
       /\ Puts(Staked(e), Staked(Database), Ids, o, Lacking(put))
       /\ writes' \in Seq(Statements) /\ Fits(Database, writes')
  <2>1. CASE owner \in online
    <3>1. writes' = << >> \o <<x>>
      BY <1>1, <1>5, <2>1
    <3>2. << >> \o <<x>> = <<x>>
      OBVIOUS
    <3>3. e = Executed(Database, x)
      BY <3>1, <3>2, FinalShort DEF e
    <3>4. Affords(Database, x) /\ Taken(Database, e, o, put)
      BY <1>3, <1>5, <3>3
    <3>5. Puts(Having(online, memory', e), h, Players, owner, asked)
      BY <1>1, <1>3, <1>4, <1>11, <1>12, <2>1, <3>4 DEF Having, Taken, Puts
    <3>6. writes' \in Seq(Statements) /\ Fits(Database, writes')
      BY <3>1, <3>2, <3>4, FitsFacts
    <3> QED BY <3>4, <3>5, <3>6 DEF Taken
  <2>2. CASE owner \notin online
    <3> DEFINE d == Executed(Database, w)
    <3>1. writes' = <<w>> \o <<x>>
      BY <1>1, <1>5, <1>7, <2>2
    <3>2. e = Executed(d, x)
      <4>1. Final(Database, <<w>> \o <<x>>) = Executed(Executed(Database, w), x)
        BY FinalTwo
      <4> QED BY <3>1, <4>1 DEF e
    <3>3. Paid(Database, d, owner, asked)
      BY <1>3, <1>7
    <3> HIDE DEF d
    <3>4. d \in Tables /\ d.offers = offers
          /\ d.saved = [saved EXCEPT ![owner] = Plus(saved[owner], asked)]
      BY <1>3, <3>3 DEF Paid
    <3>5. Taken(d, e, o, put) /\ Affords(Database, x)
      BY <1>3, <1>5, <3>2, <3>4
    <3>6. Puts(Having(online, memory', e), h, Players, owner, asked)
      BY <1>1, <1>3, <1>4, <1>12, <2>2, <3>4, <3>5 DEF Having, Taken, Puts
    <3>7. Staked(d) = Staked(Database)
      BY <1>3, <3>4 DEF Staked
    <3>8. writes' \in Seq(Statements) /\ Fits(Database, writes')
      BY <3>1, <3>5, FitsFacts
    <3> QED BY <3>5, <3>6, <3>7, <3>8 DEF Taken
  <2> QED BY <2>1, <2>2
<1>14. Wealth(online, memory', e)
         = Plus(Wealth(online, memory, Database), Plus(Plus(gain, asked), Lacking(put)))
  BY <1>3, <1>4, <1>6, <1>8, <1>10, <1>13, WealthMovesTwice
<1>15. Total' = Total
  <2> DEFINE t == Wealth(online, memory, Database)
  <2>1. t \in Amounts
    BY <1>3, WealthTypes
  <2> HIDE DEF t
  <2>2. Plus(t, Plus(Plus(gain, asked), Lacking(put))) = t
    BY <1>6, <2>1 DEF Amounts, Plus, Minus, Lacking, Nothing, gain
  <2> QED BY <1>2, <1>3, <1>14, <2>2, TotalIs DEF t
<1>16. memory' \in [Players -> Amounts]
  <2>1. Plus(paid[owner], asked) \in Amounts
    BY <1>4, <1>6, <1>11, PlusFacts
  <2> QED BY <1>1, <1>11, <2>1
<1> QED BY <1>2, <1>3, <1>13, <1>15, <1>16 DEF Kept

(* What an ended offer leaves.                                              *)
Ends(d, e, o, owner, worth) ==
  /\ e \in Tables
  /\ e.offers = [d.offers EXCEPT ![o] = NoOffer]
  /\ e.saved = IF owner \in online THEN d.saved
               ELSE [d.saved EXCEPT ![owner] = Plus(d.saved[owner], worth)]

(* Statements that do not decrease an offer.                                 *)
Plain == {w \in Statements : w.kind # "decrease"}

LEMMA EndedFacts ==
  ASSUME NEW o \in Ids, offers[o] \in Offer
  PROVE  /\ Ended(o) \in Seq(Plain)
         /\ \A d \in Tables : Ends(d, Final(d, Ended(o)), o, offers[o].owner,
                                   Worth(offers[o], offers[o].amount))
<1> DEFINE offer == offers[o]
           owner == offer.owner
           all == offer.amount
           worth == Worth(offer, all)
           x == Delete(o)
<1>1. owner \in Players /\ all \in Nat /\ offer.buys \in BOOLEAN
  BY DEF Offer
<1>2. x \in Plain /\ x \in Statements /\ x.kind = "delete" /\ x.id = o
  BY DEF Statements, Delete, Plain
<1>3. Ended(o) = (IF owner \in online THEN << >> ELSE Written(owner, worth)) \o <<x>>
  BY DEF Ended
<1> HIDE DEF x
<1>4. ASSUME NEW d \in Tables
      PROVE  /\ Executed(d, x) \in Tables /\ Executed(d, x).saved = d.saved
             /\ Executed(d, x).offers = [d.offers EXCEPT ![o] = NoOffer]
  <2>1. Executed(d, x) \in Tables
    BY <1>2, ExecutedTables DEF Affords
  <2> QED BY <1>2, <2>1, ExecutedFacts
<1>5. CASE owner \in online
  <2>1. Ended(o) = << >> \o <<x>> /\ << >> \o <<x>> = <<x>>
    BY <1>3, <1>5
  <2>2. \A d \in Tables : Final(d, Ended(o)) = Executed(d, x)
    BY <2>1, FinalShort
  <2>3. <<x>> \in Seq(Plain)
    BY <1>2
  <2>4. \A d \in Tables : Ends(d, Final(d, Ended(o)), o, owner, worth)
    <3> HIDE DEF owner, worth
    <3> QED BY <1>4, <1>5, <2>2 DEF Ends
  <2> QED BY <2>1, <2>3, <2>4
<1>6. CASE owner \notin online
  <2>1. PICK w \in Payments :
          /\ Written(owner, worth) = <<w>>
          /\ \A d \in Tables : Paid(d, Executed(d, w), owner, worth)
    <3> HIDE DEF offer, all, owner
    <3> QED BY <1>1, WrittenFacts
  <2>2. Ended(o) = <<w>> \o <<x>>
    BY <1>3, <1>6, <2>1
  <2>3. w \in Plain
    BY DEF Plain, Payments, Statements
  <2>4. <<w>> \o <<x>> \in Seq(Plain)
    <3>1. <<w>> \in Seq(Plain) /\ <<x>> \in Seq(Plain)
      BY <1>2, <2>3
    <3> QED BY <3>1
  <2>5. ASSUME NEW d \in Tables  PROVE  Ends(d, Final(d, Ended(o)), o, owner, worth)
    <3> DEFINE e == Executed(d, w)
    <3>1. Final(d, <<w>> \o <<x>>) = Executed(Executed(d, w), x)
      BY FinalTwo
    <3>2. Paid(d, e, owner, worth)
      BY <2>1
    <3> HIDE DEF e, owner, worth
    <3>3. e \in Tables /\ e.offers = d.offers
          /\ e.saved = [d.saved EXCEPT ![owner] = Plus(d.saved[owner], worth)]
      BY <3>2 DEF Paid
    <3>4. Final(d, Ended(o)) = Executed(e, x)
      BY <2>2, <3>1 DEF e
    <3> QED BY <1>4, <1>6, <3>3, <3>4 DEF Ends
  <2> QED BY <2>2, <2>4, <2>5
<1> QED BY <1>5, <1>6

(* What p gets back, as a sum.                                              *)
Prices == [o \in Ids |-> Worth(offers[o], offers[o].amount)]

Own(p, ended) == {o \in ended : offers[o].owner = p}

LEMMA RefundsSum ==
  ASSUME NEW p, NEW S \in SUBSET Ids
  PROVE  Refunds(p, S) = Sum(Prices, Own(p, S))
<1> DEFINE own == Own(p, S)
           f == Prices
           Eq(h) == h = [s \in SUBSET own |->
             IF s = {} THEN Nothing
             ELSE Plus(h[s \ {CHOOSE x \in s : TRUE}],
                       Worth(offers[CHOOSE x \in s : TRUE], offers[CHOOSE x \in s : TRUE].amount))]
<1>0. IsFiniteSet(own) /\ own \in SUBSET Ids
  BY MarketAssumption, FS_Subset DEF Own
<1>1. Refunds(p, S) = (CHOOSE h : Eq(h))[own]
  BY DEF Refunds, FoldSet, MapThenFoldSet, Own
<1> HIDE DEF own
<1>2. ASSUME NEW s \in SUBSET own, s # {}
      PROVE  f[Some(s)] = Worth(offers[CHOOSE x \in s : TRUE], offers[CHOOSE x \in s : TRUE].amount)
  <2>1. Some(s) = CHOOSE x \in s : TRUE
    BY DEF Some
  <2>2. Some(s) \in Ids
    BY <1>0, <1>2, <2>1
  <2> QED BY <2>1, <2>2 DEF Prices
<1> HIDE DEF f
<1>3. \A h : Eq(h) <=> Summed(f, own, h)
  BY <1>2 DEF Summed, Adds, Some
<1>4. \E h : Summed(f, own, h)
  BY <1>0, AddsExists
<1> DEFINE h == CHOOSE e : Eq(e)
<1>5. Summed(f, own, h)
  <2> HIDE DEF Eq
  <2> QED BY <1>3, <1>4
<1> HIDE DEF h, Eq
<1> QED BY <1>0, <1>1, <1>5, SumIs DEF h, f, own

LEMMA RefundsFacts ==
  ASSUME NEW p, NEW S \in SUBSET Ids, \A o \in S : offers[o] \in Offer
  PROVE  /\ Refunds(p, S) \in Amounts
         /\ S = {} => Refunds(p, S) = Nothing
         /\ \A o \in Ids \ S : offers[o] \in Offer =>
              Refunds(p, S \cup {o}) =
                IF offers[o].owner = p
                THEN Plus(Refunds(p, S), Worth(offers[o], offers[o].amount)) ELSE Refunds(p, S)
<1>1. ASSUME NEW o \in Ids, offers[o] \in Offer
      PROVE  Prices[o] \in Amounts /\ Prices[o] = Worth(offers[o], offers[o].amount)
  <2> DEFINE offer == offers[o]
  <2>1. offer.amount \in Nat /\ offer.buys \in BOOLEAN
    BY <1>1 DEF Offer
  <2>2. Prices[o] = Worth(offer, offer.amount)
    BY DEF Prices
  <2> HIDE DEF offer
  <2>3. Worth(offer, offer.amount) \in Amounts
    BY <2>1, WorthFacts
  <2> QED BY <2>2, <2>3 DEF offer
<1>2. ASSUME NEW R \in SUBSET Ids, \A o \in R : offers[o] \in Offer
      PROVE  /\ IsFiniteSet(Own(p, R)) /\ \A o \in Own(p, R) : Prices[o] \in Amounts
             /\ Refunds(p, R) = Sum(Prices, Own(p, R))
  <2>1. Own(p, R) \in SUBSET R /\ IsFiniteSet(R)
    BY MarketAssumption, FS_Subset DEF Own
  <2>2. IsFiniteSet(Own(p, R))
    BY <2>1, FS_Subset
  <2> QED BY <1>1, <1>2, <2>1, <2>2, RefundsSum
<1>3. Refunds(p, S) \in Amounts
  BY <1>2, SumFacts
<1>4. ASSUME S = {}  PROVE  Refunds(p, S) = Nothing
  <2>1. Own(p, S) = {}
    BY <1>4 DEF Own
  <2> QED BY <1>2, <2>1, SumFacts
<1>5. ASSUME NEW o \in Ids \ S, offers[o] \in Offer
      PROVE  Refunds(p, S \cup {o}) = IF offers[o].owner = p THEN Plus(Refunds(p, S), Prices[o])
                                      ELSE Refunds(p, S)
  <2> DEFINE R == S \cup {o}
             own == Own(p, R)
  <2>1. R \in SUBSET Ids /\ \A i \in R : offers[i] \in Offer
    BY <1>5
  <2>2. /\ IsFiniteSet(own) /\ \A i \in own : Prices[i] \in Amounts
        /\ Refunds(p, R) = Sum(Prices, own)
    <3> HIDE DEF R
    <3> QED BY <1>2, <2>1
  <2>3. CASE offers[o].owner = p
    <3>1. o \in own /\ own \ {o} = Own(p, S)
      BY <1>5, <2>3 DEF Own
    <3> HIDE DEF own
    <3>2. Sum(Prices, own) = Plus(Sum(Prices, own \ {o}), Prices[o])
      BY <2>2, <3>1, SumFacts
    <3> QED BY <1>2, <2>2, <2>3, <3>1, <3>2
  <2>4. CASE offers[o].owner # p
    <3>1. own = Own(p, S)
      BY <2>4 DEF Own
    <3> QED BY <1>2, <2>2, <2>4, <3>1
  <2> QED BY <2>3, <2>4
<1> QED BY <1>1, <1>3, <1>4, <1>5

(* Who is online was refunded the offers in ended.                           *)
Refunded(ended) ==
  [p \in Players |-> IF p \in online THEN Plus(memory[p], Refunds(p, ended)) ELSE memory[p]]

(* db is what the tables are once the offers in ended have been ended.        *)
EndsThem(db, ended) ==
  /\ db \in Tables
  /\ \A o \in Ids : db.offers[o] = IF o \in ended THEN NoOffer ELSE offers[o]
  /\ Refunded(ended) \in [Players -> Amounts]
  /\ Wealth(online, Refunded(ended), db) = Wealth(online, memory, Database)

(* One more is ended.                                                       *)
LEMMA EndsOneMore ==
  ASSUME Kept, NEW S \in SUBSET Ids, \A i \in S : offers[i] \in Offer,
         NEW o \in Ids \ S, offers[o] \in Offer, NEW db, EndsThem(db, S)
  PROVE  EndsThem(Final(db, Ended(o)), S \cup {o})
<1> DEFINE offer == offers[o]
           owner == offer.owner
           worth == Worth(offer, offer.amount)
           e == Final(db, Ended(o))
           R == S \cup {o}
           mem == Refunded(S)
<1>1. /\ db \in Tables /\ Database \in Tables /\ mem \in [Players -> Amounts]
      /\ online \subseteq Players /\ memory \in [Players -> Amounts]
      /\ db.saved \in [Players -> Amounts] /\ db.offers \in [Ids -> Offer \cup {NoOffer}]
  BY DEF Kept, EndsThem, Tables
<1>2. owner \in Players /\ offer # NoOffer
  BY MarketAssumption DEF Offer
<1>3. worth \in Amounts /\ Lacking(worth) \in Amounts
  <2>1. offer.amount \in Nat /\ offer.buys \in BOOLEAN
    BY DEF Offer
  <2> HIDE DEF offer
  <2>2. worth \in Amounts
    BY <2>1, WorthFacts
  <2> QED BY <2>2, NothingFacts
<1>4. Ends(db, e, o, owner, worth)
  BY <1>1, EndedFacts
<1> HIDE DEF e
<1>5. db.offers[o] = offer
  BY DEF EndsThem
<1>6. ASSUME NEW p \in Players
      PROVE  /\ Refunds(p, S) \in Amounts
             /\ Refunds(p, R) = IF owner = p THEN Plus(Refunds(p, S), worth) ELSE Refunds(p, S)
  BY RefundsFacts
<1> HIDE DEF R, worth, owner, offer
<1>7. ASSUME NEW p \in Players
      PROVE  /\ Refunded(R)[p] \in Amounts
             /\ Refunded(R)[p] = IF p = owner /\ p \in online THEN Plus(mem[p], worth) ELSE mem[p]
  <2>1. mem[p] = IF p \in online THEN Plus(memory[p], Refunds(p, S)) ELSE memory[p]
    BY DEF Refunded
  <2>2. Refunded(R)[p] = IF p \in online THEN Plus(memory[p], Refunds(p, R)) ELSE memory[p]
    BY DEF Refunded
  <2> DEFINE a == memory[p]
             b == Refunds(p, S)
  <2>3. a \in Amounts /\ b \in Amounts /\ mem[p] \in Amounts
    BY <1>1, <1>6
  <2> HIDE DEF a, b, mem
  <2>4. Plus(a, Plus(b, worth)) = Plus(Plus(a, b), worth)
    BY <1>3, <2>3 DEF Plus, Amounts
  <2>5. Plus(mem[p], worth) \in Amounts
    BY <1>3, <2>3, PlusFacts
  <2>6. Refunded(R)[p] = IF p = owner /\ p \in online THEN Plus(mem[p], worth) ELSE mem[p]
    BY <1>6, <2>1, <2>2, <2>4 DEF a, b
  <2> QED BY <2>3, <2>5, <2>6
<1>8. Puts(Having(online, Refunded(R), e), Having(online, mem, db), Players, owner, worth)
  <2> HIDE DEF mem
  <2> QED BY <1>1, <1>4, <1>7 DEF Puts, Having, Ends
<1>9. Puts(Staked(e), Staked(db), Ids, o, Lacking(worth))
  <2>1. Staked(db)[o] = worth
    BY <1>2, <1>5 DEF Staked, worth
  <2>2. \A i \in Ids : Staked(e)[i] = IF i = o THEN Nothing ELSE Staked(db)[i]
    BY <1>1, <1>4 DEF Staked, Ends
  <2>3. Plus(worth, Lacking(worth)) = Nothing
    BY <1>3 DEF Amounts, Plus, Minus, Lacking, Nothing
  <2> QED BY <2>1, <2>2, <2>3 DEF Puts
<1>10. Wealth(online, Refunded(R), e) = Plus(Wealth(online, mem, db), Plus(worth, Lacking(worth)))
  <2> HIDE DEF mem
  <2> QED BY <1>1, <1>2, <1>3, <1>8, <1>9, WealthMoves
<1>11. Wealth(online, Refunded(R), e) = Wealth(online, mem, db)
  <2> DEFINE t == Wealth(online, mem, db)
  <2>1. t \in Amounts
    BY <1>1, WealthTypes
  <2> HIDE DEF t
  <2>2. Plus(t, Plus(worth, Lacking(worth))) = t
    BY <1>3, <2>1 DEF Amounts, Plus, Minus, Lacking, Nothing
  <2> QED BY <1>10, <2>2 DEF t
<1>12. Refunded(R) \in [Players -> Amounts]
  <2>1. Refunded(R) = [p \in Players |-> Refunded(R)[p]]
    BY DEF Refunded
  <2> QED BY <1>7, <2>1
<1>13. \A i \in Ids : e.offers[i] = IF i \in R THEN NoOffer ELSE offers[i]
  BY <1>1, <1>4 DEF Ends, EndsThem, R
<1> QED BY <1>4, <1>11, <1>12, <1>13 DEF EndsThem, Ends, e, R

LEMMA EndKeeps ==
  ASSUME Kept, NEW skipped \in SUBSET Expired, CheckExpired(skipped)
  PROVE  Kept' /\ Total' = Total
<1> DEFINE E == Expired \ skipped
           s == SetToSeq(E)
           N == Len(s)
           lists == [i \in DOMAIN s |-> Ended(s[i])]
<1>1. /\ Idle /\ memory' = Refunded(E) /\ writes' = FlattenSeq(lists)
      /\ UNCHANGED <<online, tables>>
  BY DEF CheckExpired, EndExpired, Refunded
<1>2. Database' = Database /\ online' = online
  BY <1>1 DEF Database, tables
<1>3. /\ After = Database /\ After' = Final(Database, writes') /\ Database \in Tables
      /\ Database.offers = offers /\ online \subseteq Players /\ memory \in [Players -> Amounts]
  BY <1>1, <1>2, IdleFacts, AfterIs DEF Kept, Database
<1>4. E \in SUBSET Ids /\ IsFiniteSet(E) /\ \A o \in E : offers[o] \in Offer
  <2>1. E \in SUBSET Ids /\ \A o \in E : offers[o] \in Offer
    BY <1>1, IdleFacts DEF Expired
  <2> HIDE DEF E
  <2> QED BY <2>1, MarketAssumption, FS_Subset
<1> HIDE DEF E
<1>5. /\ s \in Seq(E)
      /\ \A o \in E : \E k \in 1..N : s[k] = o
      /\ \A k, l \in 1..N : s[k] = s[l] => k = l
  BY <1>4, SetToSeqFacts
<1> HIDE DEF s
<1>6. N \in Nat /\ DOMAIN s = 1..N /\ \A k \in 1..N : s[k] \in E
  BY <1>5
<1>7. \A k \in 1..N : Ended(s[k]) \in Seq(Plain)
  <2>1. ASSUME NEW k \in 1..N  PROVE  Ended(s[k]) \in Seq(Plain)
    <3>1. s[k] \in Ids /\ offers[s[k]] \in Offer
      BY <1>4, <1>6
    <3> QED BY <3>1, EndedFacts
  <2> QED BY <2>1
<1> HIDE DEF N
<1>8. lists \in Seq(Seq(Plain)) /\ Len(lists) = N /\ \A k \in 1..N : lists[k] = Ended(s[k])
  <2> DEFINE V == Seq(Plain)
  <2> HIDE DEF V
  <2>1. lists = [i \in 1..N |-> Ended(s[i])]
    BY <1>6
  <2>2. lists \in [1..N -> V]
    BY <1>7, <2>1 DEF V
  <2> HIDE DEF lists
  <2>3. lists \in Seq(V) /\ Len(lists) = N
    BY <1>6, <2>2
  <2> QED BY <2>1, <2>3 DEF V
<1> HIDE DEF lists
<1>9. PICK f : Joins(f, Plain, lists) /\ FlattenSeq(lists) = f[N]
  BY <1>8, FlattenFacts
<1> DEFINE Done(n) == {s[k] : k \in 1..n}
           G(n) == Final(Database, f[n])
           T == {n \in 0..N : EndsThem(G(n), Done(n))}
<1>10. 0 \in T
  <2>1. Done(0) = {} /\ 0 \in 0..N
    BY <1>6
  <2>2. G(0) = Database
    <3>1. f[0] = << >>
      BY <1>9 DEF Joins
    <3> QED BY <3>1, FinalShort
  <2>3. \A p \in Players : Refunds(p, {}) = Nothing
    <3>1. ASSUME NEW p \in Players  PROVE  Refunds(p, {}) = Nothing
      <4> DEFINE none == {}
      <4>1. none \in SUBSET Ids /\ \A o \in none : offers[o] \in Offer
        OBVIOUS
      <4>2. none = {}
        OBVIOUS
      <4> HIDE DEF none
      <4>3. Refunds(p, none) = Nothing
        BY <4>1, <4>2, RefundsFacts
      <4> QED BY <4>2, <4>3
    <3> QED BY <3>1
  <2>4. Refunded({}) = memory
    <3>1. \A p \in Players : Plus(memory[p], Nothing) = memory[p]
      BY <1>3, NothingFacts
    <3>2. \A p \in Players : Refunded({})[p] = memory[p]
      BY <2>3, <3>1 DEF Refunded
    <3>3. Refunded({}) = [p \in Players |-> Refunded({})[p]]
      BY DEF Refunded
    <3> QED BY <1>3, <3>2, <3>3
  <2>5. EndsThem(Database, {})
    BY <1>3, <2>4 DEF EndsThem
  <2> HIDE DEF G, Done
  <2> QED BY <2>1, <2>2, <2>5
<1>11. ASSUME NEW n \in 1..N, n - 1 \in T  PROVE  n \in T
  <2> DEFINE S == Done(n - 1)
             o == s[n]
             db == G(n - 1)
  <2>1. n \in 0..N /\ n - 1 \in 0..N /\ n \in 1..n /\ (1..n) = (1..n - 1) \cup {n}
    BY <1>6
  <2>2. Done(n) = S \cup {o}
    BY <2>1
  <2>3. S \in SUBSET E /\ o \in E
    BY <1>6, <2>1
  <2>4. o \notin S
    BY <1>5, <2>1 DEF N
  <2>5. G(n) = Final(db, Ended(o))
    <3>1. f[n - 1] \in Seq(Plain) /\ f[n] = f[n - 1] \o lists[n]
      BY <1>8, <1>9, <2>1 DEF Joins
    <3>2. lists[n] = Ended(o) /\ Ended(o) \in Seq(Plain)
      BY <1>7, <1>8
    <3> HIDE DEF o
    <3>3. Final(Database, f[n - 1] \o Ended(o)) = Final(Final(Database, f[n - 1]), Ended(o))
      BY <3>1, <3>2, FinalJoin
    <3> QED BY <3>1, <3>2, <3>3
  <2>6. EndsThem(db, S)
    BY <1>11
  <2> HIDE DEF G, Done, S, o, db
  <2>7. EndsThem(Final(db, Ended(o)), S \cup {o})
    <3>1. /\ S \in SUBSET Ids /\ \A i \in S : offers[i] \in Offer
          /\ o \in Ids \ S /\ offers[o] \in Offer
      BY <1>4, <2>3, <2>4
    <3> QED BY <2>6, <3>1, EndsOneMore
  <2> QED BY <2>1, <2>2, <2>5, <2>7
<1> HIDE DEF T
<1>12. N \in T
  <2>1. 0..N \subseteq T
    BY <1>6, <1>10, <1>11, Upward
  <2> QED BY <1>6, <2>1
<1>13. EndsThem(After', E)
  <2>1. Done(N) = E
    BY <1>5, <1>6 DEF N
  <2>2. G(N) = After'
    BY <1>1, <1>3, <1>9
  <2>3. EndsThem(G(N), Done(N))
    BY <1>12 DEF T
  <2> HIDE DEF G, Done
  <2> QED BY <2>1, <2>2, <2>3
<1>14. Total' = Total
  BY <1>1, <1>2, <1>3, <1>13, TotalIs DEF EndsThem
<1>15. writes' \in Seq(Statements) /\ Fits(Database, writes')
  <2>1. writes' \in Seq(Plain)
    <3>1. N \in 0..Len(lists)
      BY <1>6, <1>8
    <3> QED BY <1>1, <1>9, <3>1 DEF Joins
  <2> DEFINE ws == writes'
  <2> HIDE DEF ws
  <2>2. ws \in Seq(Plain)
    BY <2>1 DEF ws
  <2>3. Plain \subseteq Statements /\ \A w \in Plain : w.kind # "decrease"
    BY DEF Plain
  <2>4. ws \in Seq(Statements) /\ \A k \in 1..Len(ws) : ws[k].kind # "decrease"
    BY <2>2, <2>3
  <2>5. Fits(Database, ws)
    BY <2>4, FitsFacts
  <2> QED BY <2>4, <2>5 DEF ws
<1> QED BY <1>1, <1>2, <1>3, <1>13, <1>14, <1>15 DEF Kept, EndsThem

-----------------------------------------------------------------------------
(* Statements, time, and players who come and go.                            *)

(* The sequence without its head.                                           *)
LEMMA TailFacts ==
  ASSUME NEW V, NEW ws \in Seq(V), ws # << >>
  PROVE  /\ Head(ws) \in V /\ Tail(ws) \in Seq(V) /\ <<Head(ws)>> \in Seq(V)
         /\ ws = <<Head(ws)>> \o Tail(ws)
         /\ Len(ws) \in Nat /\ Len(ws) >= 1 /\ ws[1] = Head(ws)
         /\ Len(Tail(ws)) = Len(ws) - 1
         /\ \A k \in 1..Len(ws) - 1 : Tail(ws)[k] = ws[k + 1]
<1>1. Len(ws) \in Nat /\ Len(ws) >= 1
  OBVIOUS
<1>2. Head(ws) \in V /\ Tail(ws) \in Seq(V)
  OBVIOUS
<1>3. <<Head(ws)>> \in Seq(V)
  BY <1>2
<1>4. ws = <<Head(ws)>> \o Tail(ws)
  OBVIOUS
<1>5. Len(Tail(ws)) = Len(ws) - 1 /\ ws[1] = Head(ws)
  OBVIOUS
<1>6. \A k \in 1..Len(ws) - 1 : Tail(ws)[k] = ws[k + 1]
  OBVIOUS
<1> QED BY <1>1, <1>2, <1>3, <1>4, <1>5, <1>6

LEMMA TailFits ==
  ASSUME NEW d, NEW e, NEW ws \in Seq(Statements), ws # << >>, Fits(d, ws),
         Head(ws) \in Payments => e.offers = d.offers
  PROVE  Fits(e, Tail(ws))
<1> SUFFICES ASSUME NEW k \in 1..Len(Tail(ws)), Tail(ws)[k].kind = "decrease"
             PROVE  Affords(e, Tail(ws)[k]) /\ \A j \in 1..k - 1 : Tail(ws)[j] \in Payments
  BY DEF Fits
<1>1. /\ Len(ws) \in Nat /\ Len(Tail(ws)) = Len(ws) - 1 /\ ws[1] = Head(ws)
      /\ \A i \in 1..Len(ws) - 1 : Tail(ws)[i] = ws[i + 1]
  BY TailFacts
<1>2. k + 1 \in 1..Len(ws) /\ ws[k + 1] = Tail(ws)[k] /\ 1 \in 1..(k + 1) - 1
  BY <1>1
<1>3. Affords(d, ws[k + 1]) /\ \A j \in 1..(k + 1) - 1 : ws[j] \in Payments
  BY <1>2 DEF Fits
<1>4. e.offers = d.offers
  BY <1>1, <1>2, <1>3
<1>5. ASSUME NEW j \in 1..k - 1  PROVE  Tail(ws)[j] \in Payments
  <2>1. j + 1 \in 1..(k + 1) - 1 /\ Tail(ws)[j] = ws[j + 1]
    BY <1>1
  <2> QED BY <1>3, <2>1
<1> QED BY <1>2, <1>3, <1>4, <1>5 DEF Affords

LEMMA SucceedsKeeps ==
  ASSUME Kept, Succeeds
  PROVE  Kept' /\ Total' = Total
<1> DEFINE w == Head(writes)
           e == Executed(Database, w)
<1>1. /\ writes # << >> /\ writes' = Tail(writes)
      /\ saved' = e.saved /\ offers' = e.offers
      /\ online' = online /\ memory' = memory
  BY DEF Succeeds
<1>2. /\ w \in Statements /\ <<w>> \in Seq(Statements) /\ Tail(writes) \in Seq(Statements)
      /\ writes = <<w>> \o Tail(writes) /\ Len(writes) \in Nat /\ Len(writes) >= 1 /\ writes[1] = w
  BY <1>1, TailFacts DEF Kept
<1>3. Database \in Tables
  BY DEF Kept
<1>4. Affords(Database, w)
  <2>1. 1 \in 1..Len(writes)
    BY <1>2
  <2> QED BY <1>2, <2>1 DEF Kept, Fits, Affords
<1> HIDE DEF w
<1>5. e = [saved |-> e.saved, offers |-> e.offers] /\ e \in Tables
  BY <1>2, <1>3, <1>4, ExecutedFacts, ExecutedTables
<1>6. w \in Payments => e.offers = Database.offers
  <2>1. w \in Payments => w.kind \in {"save", "pay", "store"}
    BY DEF Payments
  <2> QED BY <1>2, <1>3, <2>1, ExecutedFacts
<1>7. Final(Database, writes) = Final(e, Tail(writes))
  <2>1. Final(Database, <<w>> \o Tail(writes)) = Final(Final(Database, <<w>>), Tail(writes))
    BY <1>2, FinalJoin
  <2>2. Final(Database, <<w>>) = e
    BY FinalShort
  <2> QED BY <1>2, <2>1, <2>2
<1> HIDE DEF e
<1>8. Database' = e
  BY <1>1, <1>5 DEF Database
<1>9. After' = After
  BY <1>1, <1>7, <1>8, AfterIs
<1>10. Fits(e, Tail(writes))
  BY <1>1, <1>6, TailFits DEF Kept, w
<1> QED BY <1>1, <1>2, <1>5, <1>8, <1>9, <1>10, TotalIs DEF Kept

LEMMA FailsKeeps ==
  ASSUME Kept, Fails
  PROVE  Kept'
<1>1. /\ writes # << >> /\ writes' = Tail(writes) /\ Database' = Database
      /\ online' = online /\ memory' = memory
  BY DEF Fails, Database, tables
<1>2. Tail(writes) \in Seq(Statements) /\ Fits(Database, Tail(writes))
  BY <1>1, TailFacts, TailFits DEF Kept
<1> QED BY <1>1, <1>2 DEF Kept

LEMMA ExpireKeeps ==
  ASSUME Kept, NEW o \in Ids, Expire(o)
  PROVE  Kept' /\ Total' = Total
<1> DEFINE e == [saved |-> saved, offers |-> [offers EXCEPT ![o].expired = TRUE]]
<1>1. /\ Listed(o) /\ Database' = e
      /\ online' = online /\ memory' = memory /\ writes' = writes
  BY DEF Expire, Database
<1>2. /\ Database \in Tables /\ saved \in [Players -> Amounts]
      /\ offers \in [Ids -> Offer \cup {NoOffer}]
      /\ writes \in Seq(Statements) /\ Fits(Database, writes)
  BY DEF Kept, Tables, Database
<1>3. offers[o] \in Offer
  BY <1>1, <1>2 DEF Listed
<1>4. [offers[o] EXCEPT !.expired = TRUE] \in Offer
  BY <1>3 DEF Offer
<1>5. e \in Tables
  BY <1>2, <1>4 DEF Tables
<1>6. Alike(Database, e)
  <2>1. offers[o] # NoOffer /\ [offers[o] EXCEPT !.expired = TRUE] # NoOffer
    BY <1>3, <1>4, MarketAssumption DEF Offer
  <2>2. /\ [offers[o] EXCEPT !.expired = TRUE].buys = offers[o].buys
        /\ [offers[o] EXCEPT !.expired = TRUE].amount = offers[o].amount
    BY <1>3 DEF Offer
  <2>3. AlikeOffers(Database, e, o)
    BY <1>2, <2>1, <2>2 DEF AlikeOffers, Database
  <2>4. \A i \in Ids : i # o => AlikeOffers(Database, e, i)
    BY <1>2 DEF AlikeOffers, Database
  <2>5. Database.saved = e.saved
    BY DEF Database
  <2> QED BY <2>3, <2>4, <2>5 DEF Alike
<1> HIDE DEF e
<1>7. Fits(e, writes)
  <2>1. ASSUME NEW w \in Statements, w.kind = "decrease", Affords(Database, w)
        PROVE  Affords(e, w)
    BY <1>2, <1>5, <1>6, <2>1, ExecutedAlike
  <2>2. \A k \in 1..Len(writes) : writes[k] \in Statements
    BY <1>2
  <2> QED BY <1>2, <2>1, <2>2 DEF Fits
<1> DEFINE a == Final(Database, writes)
           b == Final(e, writes)
<1>8. a \in Tables /\ b \in Tables /\ Alike(a, b)
  BY <1>2, <1>5, <1>6, FinalAlike
<1>9. After = a /\ After' = b
  BY <1>1, AfterIs
<1> HIDE DEF a, b
<1>10. Wealth(online, memory, b) = Wealth(online, memory, a)
  <2>1. \A q \in Players : Having(online, memory, b)[q] = Having(online, memory, a)[q]
    BY <1>8 DEF Having, Alike
  <2>2. \A i \in Ids : Staked(b)[i] = Staked(a)[i]
    BY <1>8 DEF Staked, Alike, AlikeOffers, Worth
  <2> QED BY <2>1, <2>2, WealthSame
<1>11. Total' = Total
  BY <1>1, <1>9, <1>10, TotalIs
<1> QED BY <1>1, <1>2, <1>5, <1>7, <1>11 DEF Kept

LEMMA LoginKeeps ==
  ASSUME Kept, NEW p \in Players, Login(p)
  PROVE  Kept' /\ Total' = Total
<1>1. /\ Idle /\ p \notin online /\ online' = online \cup {p}
      /\ memory' = [memory EXCEPT ![p] = saved[p]]
      /\ Database' = Database /\ writes' = writes
  BY DEF Login, Database, tables
<1>2. /\ After = Database /\ After' = Database /\ Database.saved = saved
      /\ saved \in [Players -> Amounts] /\ memory \in [Players -> Amounts] /\ online \subseteq Players
  BY <1>1, IdleFacts, AfterIs DEF Kept, Database
<1>3. Wealth(online', memory', Database) = Wealth(online, memory, Database)
  <2>1. \A q \in Players : Having(online', memory', Database)[q] = Having(online, memory, Database)[q]
    BY <1>1, <1>2 DEF Having
  <2> QED BY <2>1, WealthSame
<1> QED BY <1>1, <1>2, <1>3, TotalIs DEF Kept

LEMMA LogoutKeeps ==
  ASSUME Kept, NEW p \in Players, Logout(p)
  PROVE  Kept' /\ Total' = Total
<1> DEFINE w == SaveOf(p, memory[p])
           e == Executed(Database, w)
<1>1. /\ Idle /\ p \in online /\ online' = online \ {p}
      /\ memory' = [memory EXCEPT ![p] = Nothing]
      /\ Database' = Database /\ writes' = <<w>>
  BY DEF Logout, Database, tables
<1>2. /\ After = Database /\ After' = e /\ Database \in Tables /\ Database.saved = saved
      /\ saved \in [Players -> Amounts] /\ memory \in [Players -> Amounts] /\ online \subseteq Players
  BY <1>1, IdleFacts, AfterIs, FinalShort DEF Kept, Database
<1>3. w \in Statements /\ w.kind = "save" /\ w.player = p /\ w.has = memory[p]
  BY <1>2 DEF SaveOf, Statements
<1>4. /\ e.offers = Database.offers /\ e.saved = [saved EXCEPT ![p] = memory[p]]
  <2> HIDE DEF w
  <2>1. /\ e.offers = Database.offers
        /\ e.saved = [Database.saved EXCEPT ![w.player] = e.saved[w.player]]
        /\ e.saved[w.player] = w.has
    BY <1>2, <1>3, ExecutedFacts
  <2> QED BY <1>2, <1>3, <2>1
<1> HIDE DEF e, w
<1>5. Wealth(online', memory', e) = Wealth(online, memory, Database)
  <2>1. \A q \in Players : Having(online', memory', e)[q] = Having(online, memory, Database)[q]
    BY <1>1, <1>2, <1>4 DEF Having
  <2>2. \A i \in Ids : Staked(e)[i] = Staked(Database)[i]
    BY <1>4 DEF Staked
  <2> QED BY <2>1, <2>2, WealthSame
<1>6. <<w>> \in Seq(Statements) /\ Fits(Database, <<w>>)
  BY <1>3, FitsFacts DEF Affords
<1> QED BY <1>1, <1>2, <1>5, <1>6, NothingFacts, TotalIs DEF Kept

LEMMA SaveKeeps ==
  ASSUME Kept, SaveGame
  PROVE  Kept' /\ Total' = Total
<1> DEFINE all == SetToSeq(online)
           ws == [i \in DOMAIN all |-> SaveOf(all[i], memory[all[i]])]
           V == [kind : {"save"}, player : online, has : Amounts]
           e == Final(Database, ws)
<1>1. /\ Idle /\ online' = online /\ memory' = memory /\ Database' = Database /\ writes' = ws
  BY DEF SaveGame, Database, tables
<1>2. /\ After = Database /\ After' = e /\ Database \in Tables
      /\ memory \in [Players -> Amounts] /\ online \subseteq Players
  BY <1>1, IdleFacts, AfterIs DEF Kept
<1>3. IsFiniteSet(online)
  BY <1>2, MarketAssumption, FS_Subset
<1>4. all \in Seq(online)
  BY <1>3, SetToSeqFacts
<1> HIDE DEF all
<1>5. ws \in Seq(V)
  <2>1. \A i \in DOMAIN all : SaveOf(all[i], memory[all[i]]) \in V
    BY <1>2, <1>4 DEF SaveOf
  <2> HIDE DEF V
  <2> QED BY <1>4, <2>1
<1> HIDE DEF ws
<1>6. V \subseteq Statements /\ \A w \in V : w.kind # "decrease"
  BY <1>2 DEF Statements
<1>7. /\ e.offers = Database.offers
      /\ \A p \in Players \ online : e.saved[p] = Database.saved[p]
  BY <1>2, <1>5, FinalSaves
<1> HIDE DEF e, V
<1>8. Wealth(online, memory, e) = Wealth(online, memory, Database)
  <2>1. \A q \in Players : Having(online, memory, e)[q] = Having(online, memory, Database)[q]
    BY <1>7 DEF Having
  <2>2. \A i \in Ids : Staked(e)[i] = Staked(Database)[i]
    BY <1>7 DEF Staked
  <2> QED BY <2>1, <2>2, WealthSame
<1>9. ws \in Seq(Statements) /\ Fits(Database, ws)
  <2>1. ws \in Seq(Statements) /\ \A k \in 1..Len(ws) : ws[k].kind # "decrease"
    BY <1>5, <1>6
  <2> QED BY <2>1, FitsFacts
<1> QED BY <1>1, <1>2, <1>8, <1>9, TotalIs DEF Kept

LEMMA CrashKeeps ==
  ASSUME Kept, Crash
  PROVE  Kept' /\ (~Unsaved => Total' = Total)
<1>1. /\ online' = {} /\ memory' = [p \in Players |-> Nothing]
      /\ Database' = Database /\ writes' = << >>
  BY DEF Crash, Database, tables
<1>2. Kept'
  <2>1. memory' \in [Players -> Amounts]
    BY <1>1, NothingFacts
  <2> QED BY <1>1, <2>1, FitsFacts DEF Kept
<1>3. ASSUME ~Unsaved  PROVE  Total' = Total
  <2>1. Idle /\ \A p \in online : memory[p] = saved[p]
    BY <1>3 DEF Unsaved
  <2>2. /\ After = Database /\ After' = Database /\ Database.saved = saved
    BY <1>1, <2>1, IdleFacts, AfterIs, FinalShort DEF Database
  <2>3. \A q \in Players : Having(online', memory', Database)[q] = Having(online, memory, Database)[q]
    BY <1>1, <2>1, <2>2 DEF Having
  <2>4. Wealth(online', memory', Database) = Wealth(online, memory, Database)
    BY <2>3, WealthSame
  <2> QED BY <2>2, <2>4, TotalIs
<1> QED BY <1>2, <1>3

-----------------------------------------------------------------------------
(* The statements of a handler do not get in each other's way.               *)
OnOffers == {"insert", "delete", "decrease"}
OnPlayers == {"save", "pay", "store"}

(* They change different rows, or add to the same one.                       *)
Independent(v, w) ==
  /\ v.kind \in OnOffers /\ w.kind \in OnOffers => v.id # w.id
  /\ v.kind \in OnPlayers /\ w.kind \in OnPlayers /\ (v.kind = "save" \/ w.kind = "save")
       => v.player # w.player

Pairwise(ws) == \A j, k \in 1..Len(ws) : j # k => Independent(ws[j], ws[k])

(* A new offer is a row of its own, and all there is to write.                *)
Fresh(db, ws) ==
  \A k \in 1..Len(ws) :
    ws[k].kind = "insert" => Len(ws) = 1 /\ db.offers[ws[k].id] = NoOffer

Apart(db, ws) == Pairwise(ws) /\ Fresh(db, ws)

Distinct == Apart(Database, writes)

(* What a statement writes in its row.                                      *)
NewOffer(w, offer) ==
  CASE w.kind = "insert"   -> w.offer
    [] w.kind = "delete"   -> NoOffer
    [] w.kind = "decrease" -> [offer EXCEPT !.amount = offer.amount - w.amount]

NewRow(w, row) ==
  CASE w.kind = "save"  -> w.has
    [] w.kind = "pay"   -> Plus(row, [money |-> w.amount, goods |-> 0])
    [] w.kind = "store" -> Plus(row, [money |-> 0, goods |-> w.amount])

WithOffer(db, o, offer) == [saved |-> db.saved, offers |-> [db.offers EXCEPT ![o] = offer]]

WithRow(db, p, row) == [saved |-> [db.saved EXCEPT ![p] = row], offers |-> db.offers]

(* A statement writes one row.                                              *)
LEMMA ExecutedForm ==
  ASSUME NEW db \in Tables, NEW w \in Statements
  PROVE  /\ w.kind \in OnOffers \cup OnPlayers
         /\ w.kind \in OnOffers =>
              w.id \in Ids
                /\ Executed(db, w) = WithOffer(db, w.id, NewOffer(w, db.offers[w.id]))
         /\ w.kind \in OnPlayers =>
              w.player \in Players
                /\ Executed(db, w) = WithRow(db, w.player, NewRow(w, db.saved[w.player]))
<1> DEFINE after == Executed(db, w)
<1>1. after = [saved |-> after.saved, offers |-> after.offers]
  BY ExecutedFacts
<1>2. w.kind \in OnOffers \cup OnPlayers
  BY ExecutedFacts DEF OnOffers, OnPlayers
<1>3. CASE w.kind \in OnOffers
  <2>1. /\ w.id \in Ids /\ after.saved = db.saved
        /\ after.offers = [db.offers EXCEPT ![w.id] = after.offers[w.id]]
    BY <1>3, ExecutedFacts DEF OnOffers
  <2>2. after.offers[w.id] = NewOffer(w, db.offers[w.id])
    <3>1. CASE w.kind = "insert"
      BY <3>1, ExecutedFacts DEF NewOffer
    <3>2. CASE w.kind = "delete"
      BY <3>2, ExecutedFacts DEF NewOffer
    <3>3. CASE w.kind = "decrease"
      BY <3>3, ExecutedFacts DEF NewOffer
    <3> QED BY <1>3, <3>1, <3>2, <3>3 DEF OnOffers
  <2> HIDE DEF after
  <2>3. after = WithOffer(db, w.id, NewOffer(w, db.offers[w.id]))
    BY <1>1, <2>1, <2>2 DEF WithOffer
  <2> QED BY <1>3, <2>1, <2>3 DEF OnOffers, OnPlayers, after
<1>4. CASE w.kind \in OnPlayers
  <2>1. /\ w.player \in Players /\ after.offers = db.offers
        /\ after.saved = [db.saved EXCEPT ![w.player] = after.saved[w.player]]
    BY <1>4, ExecutedFacts DEF OnPlayers
  <2>2. after.saved[w.player] = NewRow(w, db.saved[w.player])
    <3>1. CASE w.kind = "save"
      BY <3>1, ExecutedFacts DEF NewRow
    <3>2. CASE w.kind = "pay"
      BY <3>2, ExecutedFacts DEF NewRow
    <3>3. CASE w.kind = "store"
      BY <3>3, ExecutedFacts DEF NewRow
    <3> QED BY <1>4, <3>1, <3>2, <3>3 DEF OnPlayers
  <2> HIDE DEF after
  <2>3. after = WithRow(db, w.player, NewRow(w, db.saved[w.player]))
    BY <1>1, <2>1, <2>2 DEF WithRow
  <2> QED BY <1>4, <2>1, <2>3 DEF OnOffers, OnPlayers, after
<1> QED BY <1>2, <1>3, <1>4

(* Payments to a row may come in any order.                                 *)
LEMMA PaymentsCommute ==
  ASSUME NEW v \in Payments, NEW w \in Payments, NEW row \in Amounts
  PROVE  NewRow(v, NewRow(w, row)) = NewRow(w, NewRow(v, row))
<1> DEFINE Gain(x) == IF x.kind = "pay" THEN [money |-> x.amount, goods |-> 0]
                      ELSE [money |-> 0, goods |-> x.amount]
<1>1. ASSUME NEW x \in Payments
      PROVE  Gain(x) \in Amounts /\ \A r : NewRow(x, r) = Plus(r, Gain(x))
  <2>1. x.kind \in {"pay", "store"} /\ x.amount \in Int
    BY DEF Payments
  <2> QED BY <2>1 DEF NewRow, Amounts
<1> HIDE DEF Gain
<1>2. Plus(Plus(row, Gain(w)), Gain(v)) = Plus(Plus(row, Gain(v)), Gain(w))
  BY <1>1, PlusOrder
<1> QED BY <1>1, <1>2

(* What a statement needs and what it moves is left alone.                   *)
Untouched(d, e, w) ==
  /\ w.kind \in OnOffers => d.offers[w.id] = e.offers[w.id]
  /\ w.kind = "save" => d.saved[w.player] = e.saved[w.player]

(* Independent statements may come in any order.                            *)
LEMMA Commute ==
  ASSUME NEW db \in Tables, NEW v \in Statements, NEW w \in Statements,
         Affords(db, v), Affords(db, w), Independent(w, v)
  PROVE  /\ Executed(Executed(db, w), v) = Executed(Executed(db, v), w)
         /\ Untouched(db, Executed(db, v), w)
<1> DEFINE a == Executed(db, v)
           b == Executed(db, w)
<1>1. a \in Tables /\ b \in Tables
  BY ExecutedTables
<1>2. /\ db.saved \in [Players -> Amounts] /\ db.offers \in [Ids -> Offer \cup {NoOffer}]
      /\ \A p \in Players : db.saved[p] \in Amounts
  BY DEF Tables
<1>3. /\ v.kind \in OnOffers \cup OnPlayers
      /\ v.kind \in OnOffers =>
           /\ v.id \in Ids
           /\ a = WithOffer(db, v.id, NewOffer(v, db.offers[v.id]))
           /\ Executed(b, v) = WithOffer(b, v.id, NewOffer(v, b.offers[v.id]))
      /\ v.kind \in OnPlayers =>
           /\ v.player \in Players
           /\ a = WithRow(db, v.player, NewRow(v, db.saved[v.player]))
           /\ Executed(b, v) = WithRow(b, v.player, NewRow(v, b.saved[v.player]))
  <2> HIDE DEF b
  <2> QED BY <1>1, ExecutedForm
<1>4. /\ w.kind \in OnOffers \cup OnPlayers
      /\ w.kind \in OnOffers =>
           /\ w.id \in Ids
           /\ b = WithOffer(db, w.id, NewOffer(w, db.offers[w.id]))
           /\ Executed(a, w) = WithOffer(a, w.id, NewOffer(w, a.offers[w.id]))
      /\ w.kind \in OnPlayers =>
           /\ w.player \in Players
           /\ b = WithRow(db, w.player, NewRow(w, db.saved[w.player]))
           /\ Executed(a, w) = WithRow(a, w.player, NewRow(w, a.saved[w.player]))
  <2> HIDE DEF a
  <2> QED BY <1>1, ExecutedForm
<1>5. OnOffers \cap OnPlayers = {}
  BY DEF OnOffers, OnPlayers
<1> DEFINE c == Executed(a, w)
           d == Executed(b, v)
<1>6. CASE v.kind \in OnOffers /\ w.kind \in OnOffers
  <2>1. v.id # w.id
    BY <1>6 DEF Independent
  <2> HIDE DEF a, b
  <2>2. a.saved = db.saved /\ b.saved = db.saved
        /\ a.offers = [db.offers EXCEPT ![v.id] = NewOffer(v, db.offers[v.id])]
        /\ b.offers = [db.offers EXCEPT ![w.id] = NewOffer(w, db.offers[w.id])]
    BY <1>3, <1>4, <1>6 DEF WithOffer
  <2>3. a.offers[w.id] = db.offers[w.id] /\ b.offers[v.id] = db.offers[v.id]
    BY <1>2, <1>3, <1>4, <1>6, <2>1, <2>2
  <2>4. [a.offers EXCEPT ![w.id] = NewOffer(w, db.offers[w.id])]
          = [b.offers EXCEPT ![v.id] = NewOffer(v, db.offers[v.id])]
    BY <1>2, <1>3, <1>4, <1>6, <2>1, <2>2
  <2>5. c = WithOffer(a, w.id, NewOffer(w, db.offers[w.id]))
        /\ d = WithOffer(b, v.id, NewOffer(v, db.offers[v.id]))
    BY <1>3, <1>4, <1>6, <2>3
  <2>6. c = d
    BY <2>2, <2>4, <2>5 DEF WithOffer
  <2>7. Untouched(db, a, w)
    BY <2>2, <2>3 DEF Untouched
  <2> QED BY <2>6, <2>7 DEF a, b
<1>7. CASE v.kind \in OnOffers /\ w.kind \in OnPlayers
  <2> HIDE DEF a, b
  <2>1. a = WithOffer(db, v.id, NewOffer(v, db.offers[v.id]))
        /\ b = WithRow(db, w.player, NewRow(w, db.saved[w.player]))
        /\ a.saved = db.saved /\ b.offers = db.offers
    BY <1>3, <1>4, <1>7 DEF WithOffer, WithRow
  <2>2. c = WithRow(a, w.player, NewRow(w, db.saved[w.player]))
        /\ d = WithOffer(b, v.id, NewOffer(v, db.offers[v.id]))
    BY <1>3, <1>4, <1>7, <2>1
  <2>3. c = d
    BY <2>1, <2>2 DEF WithOffer, WithRow
  <2>4. Untouched(db, a, w)
    BY <1>5, <1>7, <2>1 DEF Untouched
  <2> QED BY <2>3, <2>4 DEF a, b
<1>8. CASE v.kind \in OnPlayers /\ w.kind \in OnOffers
  <2> HIDE DEF a, b
  <2>1. b = WithOffer(db, w.id, NewOffer(w, db.offers[w.id]))
        /\ a = WithRow(db, v.player, NewRow(v, db.saved[v.player]))
        /\ b.saved = db.saved /\ a.offers = db.offers
    BY <1>3, <1>4, <1>8 DEF WithOffer, WithRow
  <2>2. d = WithRow(b, v.player, NewRow(v, db.saved[v.player]))
        /\ c = WithOffer(a, w.id, NewOffer(w, db.offers[w.id]))
    BY <1>3, <1>4, <1>8, <2>1
  <2>3. c = d
    BY <2>1, <2>2 DEF WithOffer, WithRow
  <2>4. w.kind # "save"
    BY <1>8 DEF OnOffers
  <2>5. Untouched(db, a, w)
    BY <2>1, <2>4 DEF Untouched
  <2> QED BY <2>3, <2>5 DEF a, b
<1>9. CASE v.kind \in OnPlayers /\ w.kind \in OnPlayers
  <2> DEFINE p == v.player
             q == w.player
  <2> HIDE DEF a, b
  <2>1. /\ p \in Players /\ q \in Players
        /\ a.offers = db.offers /\ b.offers = db.offers
        /\ a.saved = [db.saved EXCEPT ![p] = NewRow(v, db.saved[p])]
        /\ b.saved = [db.saved EXCEPT ![q] = NewRow(w, db.saved[q])]
        /\ c = WithRow(a, q, NewRow(w, a.saved[q]))
        /\ d = WithRow(b, p, NewRow(v, b.saved[p]))
    BY <1>3, <1>4, <1>9 DEF WithRow
  <2>2. w.kind \notin OnOffers
    BY <1>5, <1>9
  <2>3. CASE p # q
    <3>1. a.saved[q] = db.saved[q] /\ b.saved[p] = db.saved[p]
      BY <1>2, <2>1, <2>3
    <3>2. [a.saved EXCEPT ![q] = NewRow(w, db.saved[q])]
            = [b.saved EXCEPT ![p] = NewRow(v, db.saved[p])]
      BY <1>2, <2>1, <2>3
    <3>3. c = d
      BY <2>1, <3>1, <3>2 DEF WithRow
    <3>4. Untouched(db, a, w)
      BY <2>2, <3>1 DEF Untouched
    <3> QED BY <3>3, <3>4 DEF a, b
  <2>4. CASE p = q
    <3>1. v.kind # "save" /\ w.kind # "save"
      BY <1>9, <2>4 DEF Independent
    <3>2. v \in Payments /\ w \in Payments
      BY <1>9, <3>1, ExecutedFacts DEF OnPlayers
    <3>3. NewRow(v, NewRow(w, db.saved[p])) = NewRow(w, NewRow(v, db.saved[p]))
      BY <1>2, <2>1, <3>2, PaymentsCommute
    <3>4. a.saved[q] = NewRow(v, db.saved[p]) /\ b.saved[p] = NewRow(w, db.saved[p])
      BY <1>2, <2>1, <2>4
    <3>5. [a.saved EXCEPT ![q] = NewRow(w, NewRow(v, db.saved[p]))]
            = [b.saved EXCEPT ![p] = NewRow(v, NewRow(w, db.saved[p]))]
      BY <1>2, <2>1, <2>4, <3>3
    <3>6. c = d
      BY <2>1, <2>4, <3>4, <3>5 DEF WithRow
    <3>7. Untouched(db, a, w)
      BY <2>2, <3>1 DEF Untouched
    <3> QED BY <3>6, <3>7 DEF a, b
  <2> QED BY <2>3, <2>4
<1> QED BY <1>3, <1>4, <1>6, <1>7, <1>8, <1>9

(* A statement may come after all those it is independent of.                *)
LEMMA FinalCommutes ==
  ASSUME NEW db \in Tables, NEW w \in Statements, Affords(db, w),
         NEW ws \in Seq(Statements), Fits(db, ws),
         \A k \in 1..Len(ws) : Independent(w, ws[k])
  PROVE  LET x == Final(db, ws)
         IN /\ x \in Tables /\ Affords(x, w) /\ Untouched(db, x, w)
            /\ Final(Executed(db, w), ws) = Executed(x, w)
<1> DEFINE N == Len(ws)
<1>1. N \in Nat /\ \A n \in 1..N : ws[n] \in Statements
  OBVIOUS
<1>2. PICK g : Runs(g, db, ws) /\ Final(db, ws) = g[N]
  BY FinalRuns
<1> DEFINE b == Executed(db, w)
<1> HIDE DEF b
<1>3. PICK h : Runs(h, b, ws) /\ Final(b, ws) = h[N]
  BY FinalRuns
<1>4. /\ g[0] = db /\ h[0] = Executed(db, w)
      /\ \A n \in 1..N : g[n] = Executed(g[n - 1], ws[n]) /\ h[n] = Executed(h[n - 1], ws[n])
  <2>1. h[0] = b /\ \A n \in 1..N : h[n] = Executed(h[n - 1], ws[n])
    BY <1>1, <1>3 DEF Runs
  <2>2. g[0] = db /\ \A n \in 1..N : g[n] = Executed(g[n - 1], ws[n])
    BY <1>1, <1>2 DEF Runs
  <2> QED BY <2>1, <2>2 DEF b
<1>5. \A n \in 1..N : ws[n].kind = "decrease" =>
        Affords(db, ws[n]) /\ \A j \in 1..n - 1 : ws[j] \in Payments
  BY DEF Fits
<1> DEFINE Good(n) == /\ g[n] \in Tables /\ Affords(g[n], w) /\ Untouched(db, g[n], w)
                      /\ h[n] = Executed(g[n], w)
                      /\ (\A j \in 1..n : ws[j] \in Payments) => g[n].offers = db.offers
           T == {n \in 0..N : Good(n)}
<1>6. \A k \in 1..N : Independent(w, ws[k])
  OBVIOUS
<1> HIDE DEF N
<1>7. 0 \in T
  BY <1>1, <1>4 DEF Untouched
<1>8. ASSUME NEW n \in 1..N, n - 1 \in T  PROVE  n \in T
  <2> DEFINE a == g[n - 1]
             v == ws[n]
  <2>1. /\ v \in Statements /\ a \in Tables /\ Affords(a, w) /\ Untouched(db, a, w)
        /\ h[n - 1] = Executed(a, w)
        /\ g[n] = Executed(a, v) /\ h[n] = Executed(h[n - 1], v) /\ Independent(w, v)
        /\ (\A j \in 1..n - 1 : ws[j] \in Payments) => a.offers = db.offers
    BY <1>1, <1>4, <1>6, <1>8
  <2>2. Affords(a, v)
    <3>1. CASE v.kind = "decrease"
      BY <1>5, <2>1, <3>1 DEF Affords
    <3>2. CASE v.kind # "decrease"
      BY <3>2 DEF Affords
    <3> QED BY <3>1, <3>2
  <2>3. n \in 0..N /\ n \in 1..n /\ \A j \in 1..n - 1 : j \in 1..n
    BY <1>1
  <2>4. ASSUME \A j \in 1..n : ws[j] \in Payments  PROVE  g[n].offers = db.offers
    <3>1. v \in Payments /\ a.offers = db.offers
      BY <2>1, <2>3, <2>4
    <3> HIDE DEF v, a
    <3>2. v.kind \in {"save", "pay", "store"}
      BY <3>1 DEF Payments
    <3>3. Executed(a, v).offers = a.offers
      BY <2>1, <3>2, ExecutedFacts
    <3> QED BY <2>1, <3>1, <3>3
  <2> HIDE DEF a, v
  <2>5. /\ Executed(Executed(a, w), v) = Executed(Executed(a, v), w)
        /\ Untouched(a, Executed(a, v), w)
    BY <2>1, <2>2, Commute
  <2>6. h[n] = Executed(g[n], w) /\ Untouched(a, g[n], w)
    BY <2>1, <2>5
  <2>7. g[n] \in Tables
    BY <2>1, <2>2, ExecutedTables
  <2>8. Untouched(db, g[n], w)
    BY <2>1, <2>6 DEF Untouched
  <2>9. Affords(g[n], w)
    BY <2>1, <2>6 DEF Affords, Untouched, OnOffers
  <2> QED BY <2>3, <2>4, <2>6, <2>7, <2>8, <2>9
<1> HIDE DEF T
<1>9. N \in T
  <2>1. 0..N \subseteq T
    BY <1>1, <1>7, <1>8, Upward
  <2> QED BY <1>1, <2>1
<1> QED BY <1>2, <1>3, <1>9 DEF T, b

(* What a statement moves depends on what it needs only.                     *)
LEMMA MovesSame ==
  ASSUME NEW d, NEW e, NEW w \in Statements, Untouched(d, e, w)
  PROVE  Moves(d, w) = Moves(e, w)
<1>1. w.kind \in {"insert", "delete", "decrease", "save", "pay", "store"}
  BY DEF Statements, Payments
<1>2. CASE w.kind \in {"insert", "delete", "decrease"}
  BY <1>2 DEF Moves, Held, Untouched, OnOffers
<1>3. CASE w.kind \in {"save", "pay", "store"}
  BY <1>3 DEF Moves, Untouched
<1> QED BY <1>1, <1>2, <1>3

(* What a statement moves, by its kind.                                     *)
LEMMA MovesFacts ==
  ASSUME NEW db, NEW w
  PROVE  /\ w.kind = "insert" => Moves(db, w) = Worth(w.offer, w.offer.amount)
         /\ w.kind = "delete" => Moves(db, w) = Lacking(Held(db, w.id))
         /\ w.kind = "decrease" => Moves(db, w) = Lacking(Worth(db.offers[w.id], w.amount))
         /\ w.kind \in OnPlayers /\ w.player \in online => Moves(db, w) = Nothing
         /\ w.kind = "save" /\ w.player \notin online =>
              Moves(db, w) = Minus(w.has, db.saved[w.player])
         /\ w.kind = "pay" /\ w.player \notin online =>
              Moves(db, w) = [money |-> w.amount, goods |-> 0]
         /\ w.kind = "store" /\ w.player \notin online =>
              Moves(db, w) = [money |-> 0, goods |-> w.amount]
BY DEF Moves, Lacking, OnPlayers

(* The wealth changes by what one offer holds, or one player has.            *)
LEMMA WealthByOffer ==
  ASSUME NEW mem \in [Players -> Amounts], NEW d \in Tables, NEW e, e.saved = d.saved,
         NEW o \in Ids, NEW a \in Amounts, Puts(Staked(e), Staked(d), Ids, o, a)
  PROVE  Wealth(online, mem, e) = Plus(Wealth(online, mem, d), a)
<1>1. Having(online, mem, e) = Having(online, mem, d)
  BY DEF Having
<1>2. Sum(Staked(e), Ids) = Plus(Sum(Staked(d), Ids), a)
  BY WealthTypes, MarketAssumption, SumPut
<1> DEFINE s == Sum(Having(online, mem, d), Players)
           t == Sum(Staked(d), Ids)
<1>3. s \in Amounts /\ t \in Amounts
  BY WealthTypes
<1> HIDE DEF s, t
<1>4. Plus(s, Plus(t, a)) = Plus(Plus(s, t), a)
  BY <1>3 DEF Amounts, Plus
<1> QED BY <1>1, <1>2, <1>4 DEF Wealth, s, t

LEMMA WealthByPlayer ==
  ASSUME NEW mem \in [Players -> Amounts], NEW d \in Tables, NEW e, e.offers = d.offers,
         NEW p \in Players, NEW a \in Amounts,
         Puts(Having(online, mem, e), Having(online, mem, d), Players, p, a)
  PROVE  Wealth(online, mem, e) = Plus(Wealth(online, mem, d), a)
<1>1. Staked(e) = Staked(d)
  BY DEF Staked
<1>2. Sum(Having(online, mem, e), Players) = Plus(Sum(Having(online, mem, d), Players), a)
  BY WealthTypes, MarketAssumption, SumPut
<1> DEFINE s == Sum(Having(online, mem, d), Players)
           t == Sum(Staked(d), Ids)
<1>3. s \in Amounts /\ t \in Amounts
  BY WealthTypes
<1> HIDE DEF s, t
<1>4. Plus(Plus(s, a), t) = Plus(Plus(s, t), a)
  BY <1>3 DEF Amounts, Plus
<1> QED BY <1>1, <1>2, <1>4 DEF Wealth, s, t

(* A statement adds what it moves.                                          *)
LEMMA ExecutedMoves ==
  ASSUME NEW mem \in [Players -> Amounts], NEW db \in Tables, NEW w \in Statements,
         Affords(db, w), w.kind = "insert" => db.offers[w.id] = NoOffer
  PROVE  /\ Moves(db, w) \in Amounts
         /\ Wealth(online, mem, Executed(db, w)) = Plus(Wealth(online, mem, db), Moves(db, w))
<1> DEFINE e == Executed(db, w)
<1>1. /\ db.saved \in [Players -> Amounts] /\ db.offers \in [Ids -> Offer \cup {NoOffer}]
      /\ NoOffer \notin Offer
  BY MarketAssumption DEF Tables, Offer
<1>2. w.kind \in OnOffers \cup OnPlayers
  BY ExecutedForm
<1>3. CASE w.kind \in OnOffers
  <2> DEFINE o == w.id
             x == db.offers[o]
             a == Moves(db, w)
  <2>1. /\ o \in Ids /\ e.saved = db.saved
        /\ \A i \in Ids : e.offers[i] = IF i = o THEN NewOffer(w, x) ELSE db.offers[i]
    BY <1>1, <1>3, ExecutedForm DEF WithOffer
  <2> HIDE DEF e
  <2>2. a \in Amounts /\ Staked(e)[o] = Plus(Staked(db)[o], a)
    <3>1. Staked(db)[o] = Held(db, o) /\ Staked(e)[o] = Held(e, o)
      BY <2>1 DEF Staked, Held
    <3>2. x \in Offer => x.amount \in Nat /\ x.buys \in BOOLEAN
      BY DEF Offer
    <3>3. Held(db, o) \in Amounts
      <4>1. CASE x = NoOffer
        BY <4>1, NothingFacts DEF Held
      <4>2. CASE x # NoOffer
        <5>1. Held(db, o) = Worth(x, x.amount) /\ x \in Offer
          BY <1>1, <2>1, <4>2 DEF Held
        <5> HIDE DEF x
        <5> QED BY <3>2, <5>1, WorthFacts
      <4> QED BY <4>1, <4>2
    <3>4. CASE w.kind = "insert"
      <4>1. w.offer \in Offer /\ w.offer # NoOffer
        BY <1>1, <3>4, ExecutedFacts
      <4>2. Held(db, o) = Nothing /\ Held(e, o) = Worth(w.offer, w.offer.amount)
        BY <2>1, <3>4, <4>1 DEF Held, NewOffer
      <4>3. a = Worth(w.offer, w.offer.amount)
        BY <3>4, MovesFacts
      <4>4. w.offer.amount \in Nat /\ w.offer.buys \in BOOLEAN
        BY <4>1 DEF Offer
      <4>5. a \in Amounts
        BY <4>3, <4>4, WorthFacts
      <4> HIDE DEF a
      <4>6. Plus(Nothing, a) = a
        BY <4>5, NothingFacts, PlusFacts
      <4> QED BY <3>1, <4>2, <4>3, <4>5, <4>6
    <3>5. CASE w.kind = "delete"
      <4>1. Held(e, o) = Nothing
        BY <2>1, <3>5 DEF Held, NewOffer
      <4>2. a = Lacking(Held(db, o))
        BY <3>5, MovesFacts
      <4> DEFINE u == Held(db, o)
      <4>3. u \in Amounts
        BY <3>3
      <4> HIDE DEF u
      <4>4. Lacking(u) \in Amounts /\ Plus(u, Lacking(u)) = Nothing
        BY <4>3 DEF Amounts, Plus, Minus, Lacking, Nothing
      <4> QED BY <3>1, <4>1, <4>2, <4>4 DEF u
    <3>6. CASE w.kind = "decrease"
      <4> DEFINE n == w.amount
                 y == [x EXCEPT !.amount = x.amount - n]
                 rest == x.amount - n
      <4>1. x # NoOffer /\ n <= x.amount /\ n \in Nat /\ x \in Offer
        BY <1>1, <2>1, <3>6, ExecutedFacts DEF Affords
      <4>2. e.offers[o] = y
        BY <2>1, <3>6 DEF NewOffer
      <4>3. a = Lacking(Worth(x, n))
        BY <3>6, MovesFacts
      <4>4. Held(db, o) = Worth(x, x.amount)
        BY <4>1 DEF Held
      <4> HIDE DEF x, n, a
      <4>5. rest \in Nat /\ x.buys \in BOOLEAN /\ x.amount = n + rest
        BY <3>2, <4>1
      <4>6. y \in Offer /\ y # NoOffer /\ y.amount = rest /\ y.buys = x.buys
        BY <1>1, <4>1, <4>5 DEF Offer
      <4> HIDE DEF rest, y
      <4>7. Held(e, o) = Worth(y, rest)
        BY <4>2, <4>6 DEF Held
      <4>8. Worth(y, rest) = Worth(x, rest)
        BY <4>6 DEF Worth
      <4>9. /\ Worth(x, rest) \in Amounts /\ Worth(x, n) \in Amounts
            /\ Plus(Worth(x, n), Worth(x, rest)) = Worth(x, x.amount)
        BY <4>1, <4>5, WorthFacts
      <4>10. Worth(x, rest) = Plus(Worth(x, x.amount), Lacking(Worth(x, n)))
             /\ Lacking(Worth(x, n)) \in Amounts
        <5> DEFINE u == Worth(x, n)
                   v == Worth(x, rest)
                   t == Worth(x, x.amount)
        <5>1. u \in Amounts /\ v \in Amounts /\ t = Plus(u, v)
          BY <4>9
        <5> HIDE DEF u, v, t
        <5>2. v = Plus(Plus(u, v), Lacking(u)) /\ Lacking(u) \in Amounts
          BY <5>1 DEF Amounts, Plus, Minus, Lacking, Nothing
        <5> QED BY <5>1, <5>2 DEF u, v, t
      <4> QED BY <3>1, <4>3, <4>4, <4>7, <4>8, <4>10
    <3> QED BY <1>3, <3>4, <3>5, <3>6 DEF OnOffers
  <2>3. Puts(Staked(e), Staked(db), Ids, o, a)
    <3>1. \A i \in Ids : i # o => Staked(e)[i] = Staked(db)[i]
      BY <2>1 DEF Staked
    <3> HIDE DEF a
    <3> QED BY <2>2, <3>1 DEF Puts
  <2> HIDE DEF a, o
  <2>4. Wealth(online, mem, e) = Plus(Wealth(online, mem, db), a)
    BY <2>1, <2>2, <2>3, WealthByOffer DEF o
  <2> QED BY <2>2, <2>4 DEF a, e
<1>4. CASE w.kind \in OnPlayers
  <2> DEFINE p == w.player
             r == db.saved[p]
             a == Moves(db, w)
  <2>1. /\ p \in Players /\ e.offers = db.offers
        /\ \A q \in Players : e.saved[q] = IF q = p THEN NewRow(w, r) ELSE db.saved[q]
    BY <1>1, <1>4, ExecutedForm DEF WithRow
  <2> HIDE DEF e
  <2>2. r \in Amounts
    BY <1>1, <2>1
  <2>3. a \in Amounts /\ Having(online, mem, e)[p] = Plus(Having(online, mem, db)[p], a)
    <3>1. CASE p \in online
      <4>1. a = Nothing /\ mem[p] \in Amounts
        BY <1>4, <2>1, <3>1, MovesFacts
      <4>2. Having(online, mem, e)[p] = mem[p] /\ Having(online, mem, db)[p] = mem[p]
        BY <2>1, <3>1 DEF Having
      <4> HIDE DEF a
      <4> QED BY <4>1, <4>2, NothingFacts
    <3>2. CASE p \notin online
      <4>1. Having(online, mem, e)[p] = NewRow(w, r) /\ Having(online, mem, db)[p] = r
        BY <2>1, <3>2 DEF Having
      <4>2. CASE w.kind = "save"
        <5>1. a = Minus(w.has, r) /\ w.has \in Amounts
          <6>1. a = Minus(w.has, r)
            BY <3>2, <4>2, MovesFacts
          <6>2. w.has \in Amounts
            BY <4>2, ExecutedFacts
          <6> QED BY <6>1, <6>2
        <5>2. NewRow(w, r) = w.has
          BY <4>2 DEF NewRow
        <5> HIDE DEF a, r
        <5>3. Minus(w.has, r) \in Amounts /\ w.has = Plus(r, Minus(w.has, r))
          BY <2>2, <5>1 DEF Amounts, Plus, Minus
        <5> QED BY <4>1, <5>1, <5>2, <5>3
      <4>3. CASE w.kind = "pay"
        <5>1. a = [money |-> w.amount, goods |-> 0] /\ w.amount \in Int
          <6>1. a = [money |-> w.amount, goods |-> 0]
            BY <3>2, <4>3, MovesFacts
          <6>2. w.amount \in Int
            BY <4>3, ExecutedFacts
          <6> QED BY <6>1, <6>2
        <5>2. NewRow(w, r) = Plus(r, [money |-> w.amount, goods |-> 0])
          BY <4>3 DEF NewRow
        <5>3. [money |-> w.amount, goods |-> 0] \in Amounts
          BY <5>1 DEF Amounts
        <5> QED BY <4>1, <5>1, <5>2, <5>3
      <4>4. CASE w.kind = "store"
        <5>1. a = [money |-> 0, goods |-> w.amount] /\ w.amount \in Int
          <6>1. a = [money |-> 0, goods |-> w.amount]
            BY <3>2, <4>4, MovesFacts
          <6>2. w.amount \in Int
            BY <4>4, ExecutedFacts
          <6> QED BY <6>1, <6>2
        <5>2. NewRow(w, r) = Plus(r, [money |-> 0, goods |-> w.amount])
          BY <4>4 DEF NewRow
        <5>3. [money |-> 0, goods |-> w.amount] \in Amounts
          BY <5>1 DEF Amounts
        <5> QED BY <4>1, <5>1, <5>2, <5>3
      <4> QED BY <1>4, <4>2, <4>3, <4>4 DEF OnPlayers
    <3> QED BY <3>1, <3>2
  <2>4. Puts(Having(online, mem, e), Having(online, mem, db), Players, p, a)
    <3>1. \A q \in Players : q # p => Having(online, mem, e)[q] = Having(online, mem, db)[q]
      BY <2>1 DEF Having
    <3> HIDE DEF a
    <3> QED BY <2>3, <3>1 DEF Puts
  <2> HIDE DEF a, p
  <2>5. Wealth(online, mem, e) = Plus(Wealth(online, mem, db), a)
    BY <2>1, <2>3, <2>4, WealthByPlayer DEF p
  <2> QED BY <2>3, <2>5 DEF a, e
<1> QED BY <1>2, <1>3, <1>4

(* The handler that runs: its next statement and the others.                 *)
Pending(w, ws) ==
  /\ w \in Statements /\ ws \in Seq(Statements) /\ Affords(Database, w)
  /\ Final(Database, writes) = Final(Executed(Database, w), ws)
  /\ Fits(Database, ws)
  /\ \A e : (w \in Payments => e.offers = offers) => Fits(e, ws)
  /\ \A k \in 1..Len(ws) : Independent(w, ws[k])
  /\ w.kind = "insert" => ws = << >> /\ offers[w.id] = NoOffer

LEMMA PendingFacts ==
  ASSUME Kept, Distinct, writes # << >>
  PROVE  Pending(Head(writes), Tail(writes))
<1> DEFINE w == Head(writes)
           ws == Tail(writes)
<1>1. /\ w \in Statements /\ ws \in Seq(Statements) /\ <<w>> \in Seq(Statements)
      /\ writes = <<w>> \o ws /\ Len(writes) \in Nat /\ Len(writes) >= 1 /\ writes[1] = w
      /\ Len(ws) = Len(writes) - 1 /\ \A k \in 1..Len(writes) - 1 : ws[k] = writes[k + 1]
  BY TailFacts DEF Kept
<1>2. 1 \in 1..Len(writes) /\ Database.offers = offers
  BY <1>1 DEF Database
<1>3. Affords(Database, w)
  BY <1>1, <1>2 DEF Kept, Fits, Affords
<1>4. \A e : (w \in Payments => e.offers = offers) => Fits(e, ws)
  <2>1. ASSUME NEW e, w \in Payments => e.offers = offers  PROVE  Fits(e, ws)
    BY <1>2, <2>1, TailFits DEF Kept
  <2> QED BY <2>1
<1>5. Fits(Database, ws)
  BY <1>2, <1>4
<1>6. \A k \in 1..Len(ws) : Independent(w, ws[k])
  <2>1. ASSUME NEW k \in 1..Len(ws)  PROVE  Independent(w, ws[k])
    <3>1. k + 1 \in 1..Len(writes) /\ k + 1 # 1 /\ ws[k] = writes[k + 1]
      BY <1>1
    <3> HIDE DEF w, ws
    <3>2. Independent(writes[1], writes[k + 1])
      BY <1>2, <3>1 DEF Distinct, Apart, Pairwise
    <3> QED BY <1>1, <3>1, <3>2
  <2> QED BY <2>1
<1>7. ASSUME w.kind = "insert"  PROVE  ws = << >> /\ offers[w.id] = NoOffer
  <2> HIDE DEF w, ws
  <2>1. Len(writes) = 1 /\ offers[w.id] = NoOffer
    BY <1>1, <1>2, <1>7 DEF Distinct, Apart, Fresh
  <2>2. Len(ws) = 0
    BY <1>1, <2>1
  <2> QED BY <1>1, <2>1, <2>2
<1> HIDE DEF w, ws
<1>8. Final(Database, writes) = Final(Executed(Database, w), ws)
  <2>1. Final(Database, <<w>> \o ws) = Final(Final(Database, <<w>>), ws)
    BY <1>1, FinalJoin
  <2>2. Final(Database, <<w>>) = Executed(Database, w)
    BY FinalShort
  <2> QED BY <1>1, <2>1, <2>2
<1>9. Pending(w, ws)
  BY <1>1, <1>3, <1>4, <1>5, <1>6, <1>7, <1>8 DEF Pending
<1> QED BY <1>9 DEF w, ws

(* A statement that fails leaves what the others do, and what it moves is gone. *)
LEMMA FailsAccounts ==
  ASSUME Kept, Distinct, Fails
  PROVE  Total' = Minus(Total, Moves(Database, Head(writes)))
<1> DEFINE w == Head(writes)
           ws == Tail(writes)
           x == Final(Database, ws)
           a == Moves(Database, w)
<1>1. /\ writes # << >> /\ writes' = ws /\ Database' = Database
      /\ online' = online /\ memory' = memory
  BY DEF Fails, Database, tables
<1>2. Pending(w, ws) /\ Database \in Tables /\ memory \in [Players -> Amounts]
  BY <1>1, PendingFacts DEF Kept
<1>3. After' = x /\ After = Final(Database, writes)
  BY <1>1, AfterIs
<1> HIDE DEF w, ws
<1>4. /\ w \in Statements /\ Affords(Database, w) /\ ws \in Seq(Statements) /\ Fits(Database, ws)
      /\ \A k \in 1..Len(ws) : Independent(w, ws[k])
      /\ w.kind = "insert" => ws = << >> /\ offers[w.id] = NoOffer
      /\ Final(Database, writes) = Final(Executed(Database, w), ws)
  BY <1>2 DEF Pending
<1>5. /\ x \in Tables /\ Affords(x, w) /\ Untouched(Database, x, w)
      /\ Final(Executed(Database, w), ws) = Executed(x, w)
  BY <1>2, <1>4, FinalCommutes
<1> HIDE DEF x
<1>6. w.kind = "insert" => x.offers[w.id] = NoOffer
  BY <1>4, <1>5 DEF Untouched, OnOffers, Database
<1>7. Moves(x, w) \in Amounts
      /\ Wealth(online, memory, Executed(x, w)) = Plus(Wealth(online, memory, x), Moves(x, w))
  BY <1>2, <1>4, <1>5, <1>6, ExecutedMoves
<1>8. Moves(x, w) = a
  BY <1>4, <1>5, MovesSame
<1> HIDE DEF a
<1>9. Wealth(online, memory, x) \in Amounts
  BY <1>2, <1>5, WealthTypes
<1>10. Total = Plus(Total', a) /\ Total' \in Amounts /\ a \in Amounts
  BY <1>1, <1>3, <1>4, <1>5, <1>7, <1>8, <1>9, TotalIs
<1>11. Total' = Minus(Total, a)
  <2> DEFINE t == Total'
             u == Total
  <2>1. u = Plus(t, a) /\ t \in Amounts /\ a \in Amounts
    BY <1>10
  <2> HIDE DEF t, u
  <2>2. t = Minus(u, a)
    BY <2>1 DEF Amounts, Plus, Minus
  <2> QED BY <2>2 DEF t, u
<1> QED BY <1>11 DEF a, w

(* A set of numbers that is not empty has its smallest one.                  *)
LEMMA MinIn ==
  ASSUME NEW s \in SUBSET Nat, s # {}
  PROVE  Min(s) \in s
<1>1. IsWellFoundedOn(OpToRel(<, Nat), Nat)
  BY NatLessThanWellFounded
<1>2. PICK x \in s : \A y \in s : ~(<<y, x>> \in OpToRel(<, Nat))
  BY <1>1, WFMin
<1>3. \A y \in s : x <= y
  <2>1. ASSUME NEW y \in s  PROVE  x <= y
    <3>1. x \in Nat /\ y \in Nat
      OBVIOUS
    <3>2. y < x => <<y, x>> \in OpToRel(<, Nat)
      BY <3>1 DEF OpToRel
    <3>3. ~(y < x)
      BY <1>2, <3>2
    <3> QED BY <3>1, <3>3
  <2> QED BY <2>1
<1> QED BY <1>3 DEF Min

(* To execute a statement twice is to execute it once, twice, or with another    *)
(* one first.                                                               *)
Again(w) ==
  CASE w.kind = "insert" -> Insert(Min(Unlisted(Executed(Database, w))), w.offer)
    [] w.kind = "save" -> SaveOf(w.player, [money |-> saved[w.player].money, goods |-> w.has.goods])
    [] OTHER -> w

Twice(w) ==
  \/ w.kind \in {"insert", "pay"}
  \/ w.kind = "decrease" /\ 2 * w.amount <= offers[w.id].amount

LEMMA RepeatedIs ==
  ASSUME Kept, NEW w \in Statements, Affords(Database, w),
         w.kind = "insert" => Unlisted(Executed(Database, w)) # {}
  PROVE  LET once == Executed(Database, w)
             v == Again(w)
         IN /\ once \in Tables /\ v \in Statements
            /\ v.kind = w.kind
            /\ Twice(w) => Repeated(Database, w) = Executed(once, v) /\ Affords(once, v)
            /\ w.kind = "save" => Repeated(Database, w) = Executed(Database, v)
            /\ ~Twice(w) /\ w.kind # "save" => Repeated(Database, w) = once
            /\ w.kind = "insert" => v.offer = w.offer /\ once.offers[v.id] = NoOffer
            /\ w.kind \notin {"insert", "save"} => v = w
<1> DEFINE once == Executed(Database, w)
           v == Again(w)
<1>1. once \in Tables /\ Database \in Tables
  BY ExecutedTables DEF Kept
<1>2. w.kind \in {"insert", "delete", "decrease", "save", "pay", "store"}
  BY ExecutedFacts, <1>1
<1>3. CASE w.kind = "insert"
  <2> DEFINE o == Min(Unlisted(once))
  <2>1. Unlisted(once) \subseteq Nat /\ Unlisted(once) # {}
    BY <1>3, MarketAssumption DEF Unlisted
  <2>2. o \in Unlisted(once)
    <3> DEFINE s == Unlisted(once)
    <3> HIDE DEF s
    <3> QED BY <2>1, MinIn DEF s
  <2>3. o \in Ids /\ once.offers[o] = NoOffer
    BY <2>2 DEF Unlisted
  <2>4. w.offer \in Offer
    BY <1>1, <1>3, ExecutedFacts
  <2>5. v = Insert(o, w.offer) /\ Repeated(Database, w) = Executed(once, Insert(o, w.offer))
    BY <1>3 DEF Again, Repeated
  <2> HIDE DEF o, once, v
  <2>6. /\ v \in Statements /\ v.kind = "insert" /\ v.offer = w.offer /\ v.id = o
    BY <2>3, <2>4, <2>5 DEF Insert, Statements
  <2>7. Affords(once, v)
    BY <2>6 DEF Affords
  <2> QED BY <1>1, <1>3, <2>3, <2>5, <2>6, <2>7 DEF once, v, Twice
<1>4. CASE w.kind = "save"
  <2> DEFINE p == w.player
             r == saved[p]
             has == [money |-> r.money, goods |-> w.has.goods]
  <2>1. p \in Players /\ w.has \in Amounts /\ saved \in [Players -> Amounts]
    BY <1>1, <1>4, ExecutedFacts DEF Tables, Database
  <2>2. once = WithRow(Database, p, w.has)
    BY <1>1, <1>4, ExecutedForm DEF OnPlayers, NewRow
  <2>3. v = SaveOf(p, has)
    BY <1>4 DEF Again
  <2>4. Repeated(Database, w) = [once EXCEPT !.saved[p].money = r.money]
    BY <1>4 DEF Repeated, Database
  <2>5. r \in Amounts
    BY <2>1
  <2> HIDE DEF once, v, r, p
  <2>6. has \in Amounts /\ has = [w.has EXCEPT !.money = r.money]
    BY <2>1, <2>5 DEF Amounts
  <2> HIDE DEF has
  <2>7. v \in Statements /\ v.kind = "save" /\ v.player = p /\ v.has = has
    BY <2>1, <2>3, <2>6 DEF SaveOf, Statements
  <2>8. Executed(Database, v) = WithRow(Database, p, has)
    BY <1>1, <2>7, ExecutedForm DEF OnPlayers, NewRow
  <2>9. [once EXCEPT !.saved[p].money = r.money] = WithRow(Database, p, has)
    BY <2>1, <2>2, <2>6 DEF WithRow, Database
  <2> QED BY <1>1, <1>4, <2>4, <2>7, <2>8, <2>9 DEF once, v, Twice
<1>5. CASE w.kind = "decrease"
  <2> DEFINE x == offers[w.id]
             n == w.amount
  <2>1. v = w
    BY <1>5 DEF Again
  <2>2. x \in Offer /\ n \in Nat /\ w.id \in Ids /\ x # NoOffer /\ n <= x.amount
    <3>1. n \in Nat /\ w.id \in Ids
      BY <1>1, <1>5, ExecutedFacts
    <3>2. x # NoOffer /\ n <= x.amount
      BY <1>5 DEF Affords, Database
    <3>3. offers \in [Ids -> Offer \cup {NoOffer}]
      BY <1>1 DEF Database, Tables
    <3> QED BY <3>1, <3>2, <3>3
  <2>3. once.offers[w.id] = [x EXCEPT !.amount = x.amount - n]
    BY <1>1, <1>5, ExecutedFacts DEF Database
  <2>4. x.amount \in Nat /\ [x EXCEPT !.amount = x.amount - n].amount = x.amount - n
    BY <2>2 DEF Offer
  <2>5. Repeated(Database, w) = IF n <= once.offers[w.id].amount THEN Executed(once, w) ELSE once
    BY <1>5 DEF Repeated
  <2>6. Twice(w) <=> 2 * n <= x.amount
    BY <1>5 DEF Twice
  <2> HIDE DEF once, v, x, n
  <2>7. Twice(w) <=> n <= once.offers[w.id].amount
    BY <2>2, <2>3, <2>4, <2>6
  <2>8. once.offers[w.id] # NoOffer
    BY <2>2, <2>3, <2>4, MarketAssumption DEF Offer
  <2>9. Twice(w) => Affords(once, w)
    BY <2>7, <2>8 DEF Affords, n
  <2> QED BY <1>1, <1>5, <2>1, <2>5, <2>7, <2>9 DEF once, v
<1>6. CASE w.kind \in {"pay", "delete", "store"}
  <2>1. v = w
    BY <1>6 DEF Again
  <2>2. Repeated(Database, w) = IF w.kind = "pay" THEN Executed(once, w) ELSE once
    BY <1>6 DEF Repeated
  <2>3. Affords(once, w)
    BY <1>6 DEF Affords
  <2>4. Twice(w) <=> w.kind = "pay"
    BY <1>6 DEF Twice
  <2> HIDE DEF once, v
  <2> QED BY <1>1, <1>6, <2>1, <2>2, <2>3, <2>4 DEF once, v
<1> QED BY <1>2, <1>3, <1>4, <1>5, <1>6

(* A repeated statement leaves tables in which the others find what they need. *)
LEMMA RepeatsKeeps ==
  ASSUME Kept, Distinct, Repeats
  PROVE  Kept'
<1> DEFINE w == Head(writes)
           ws == Tail(writes)
           e == Repeated(Database, w)
           v == Again(w)
           once == Executed(Database, w)
<1>1. /\ writes # << >> /\ writes' = ws /\ saved' = e.saved /\ offers' = e.offers
      /\ online' = online /\ memory' = memory
      /\ w.kind = "insert" => Unlisted(once) # {}
  BY DEF Repeats
<1>2. Pending(w, ws) /\ Database \in Tables
  BY <1>1, PendingFacts DEF Kept
<1> HIDE DEF w, ws
<1>3. w \in Statements /\ Affords(Database, w) /\ ws \in Seq(Statements)
      /\ \A d : (w \in Payments => d.offers = offers) => Fits(d, ws)
  BY <1>2 DEF Pending
<1>4. /\ once \in Tables /\ v \in Statements /\ v.kind = w.kind
      /\ Twice(w) => e = Executed(once, v) /\ Affords(once, v)
      /\ w.kind = "save" => e = Executed(Database, v)
      /\ ~Twice(w) /\ w.kind # "save" => e = once
  BY <1>1, <1>3, RepeatedIs
<1> HIDE DEF e, v, once
<1>5. e \in Tables /\ e = [saved |-> e.saved, offers |-> e.offers]
  <2>1. e \in Tables
    <3>1. CASE Twice(w)
      BY <1>4, <3>1, ExecutedTables
    <3>2. CASE w.kind = "save"
      <4>1. Affords(Database, v)
        BY <1>4, <3>2 DEF Affords
      <4> QED BY <1>2, <1>4, <3>2, <4>1, ExecutedTables
    <3>3. CASE ~Twice(w) /\ w.kind # "save"
      BY <1>4, <3>3
    <3> QED BY <3>1, <3>2, <3>3
  <2> QED BY <2>1 DEF Tables
<1>6. w \in Payments => e.offers = offers
  <2>1. SUFFICES ASSUME w \in Payments  PROVE  e.offers = offers
    OBVIOUS
  <2>2. w.kind \in {"pay", "store"}
    BY <2>1 DEF Payments
  <2>3. once.offers = offers
    BY <1>2, <1>3, <2>2, ExecutedFacts DEF once, Database
  <2>4. CASE Twice(w)
    <3>1. Executed(once, v).offers = once.offers
      BY <1>4, <2>2, ExecutedFacts
    <3> QED BY <1>4, <2>3, <2>4, <3>1
  <2>5. CASE ~Twice(w)
    BY <1>4, <2>2, <2>3, <2>5
  <2> QED BY <2>4, <2>5
<1>7. Database' = e
  BY <1>1, <1>5 DEF Database
<1> QED BY <1>1, <1>3, <1>5, <1>6, <1>7 DEF Kept

(* What it adds is known.                                                   *)
LEMMA RepeatsAccounts ==
  ASSUME Kept, Distinct, Repeats
  PROVE  Total' = Plus(Total, Doubles(Database, Head(writes)))
<1> DEFINE w == Head(writes)
           ws == Tail(writes)
           e == Repeated(Database, w)
           v == Again(w)
           once == Executed(Database, w)
           x == Final(once, ws)
           a == Moves(Database, w)
           b == Doubles(Database, w)
<1>1. /\ writes # << >> /\ writes' = ws /\ saved' = e.saved /\ offers' = e.offers
      /\ online' = online /\ memory' = memory
      /\ w.kind = "insert" => Unlisted(once) # {}
  BY DEF Repeats
<1>2. Pending(w, ws) /\ Database \in Tables /\ memory \in [Players -> Amounts]
      /\ Database' = [saved |-> e.saved, offers |-> e.offers]
  BY <1>1, PendingFacts DEF Kept, Database
<1> HIDE DEF w, ws
<1>3. /\ w \in Statements /\ Affords(Database, w) /\ ws \in Seq(Statements) /\ Fits(Database, ws)
      /\ \A k \in 1..Len(ws) : Independent(w, ws[k])
      /\ \A d : (w \in Payments => d.offers = offers) => Fits(d, ws)
      /\ w.kind = "insert" => ws = << >> /\ offers[w.id] = NoOffer
      /\ Final(Database, writes) = x
  BY <1>2 DEF Pending
<1>4. /\ once \in Tables /\ v \in Statements /\ v.kind = w.kind
      /\ Twice(w) => e = Executed(once, v) /\ Affords(once, v)
      /\ w.kind = "save" => e = Executed(Database, v)
      /\ ~Twice(w) /\ w.kind # "save" => e = once
      /\ w.kind = "insert" => v.offer = w.offer /\ once.offers[v.id] = NoOffer
      /\ w.kind \notin {"insert", "save"} => v = w
  BY <1>1, <1>3, RepeatedIs
<1>5. After = x
  BY <1>3, AfterIs
<1> DEFINE y == Final(e, ws)
<1>6. After' = y
  <2>1. e = [saved |-> e.saved, offers |-> e.offers]
    <3> HIDE DEF e, v, once
    <3>1. CASE Twice(w)
      BY <1>4, <3>1, ExecutedTables DEF Tables
    <3>2. CASE w.kind = "save"
      <4>1. Affords(Database, v)
        BY <1>4, <3>2 DEF Affords
      <4> QED BY <1>2, <1>4, <3>2, <4>1, ExecutedTables DEF Tables
    <3>3. CASE ~Twice(w) /\ w.kind # "save"
      BY <1>4, <3>3 DEF Tables
    <3> QED BY <3>1, <3>2, <3>3
  <2>2. Database' = e
    BY <1>2, <2>1
  <2> QED BY <1>1, <2>2, AfterIs
<1>7. once.offers = offers \/ w \notin Payments
  <2>1. w \in Payments => w.kind \in {"save", "pay", "store"}
    BY DEF Payments
  <2> QED BY <1>2, <1>3, <2>1, ExecutedFacts DEF Database
<1>8. Fits(once, ws)
  BY <1>3, <1>7
<1> HIDE DEF e, v, once
<1>9. x \in Tables
  <2>1. Alike(once, once)
    BY AlikeItself
  <2> QED BY <1>3, <1>4, <1>8, <2>1, FinalAlike
<1>10. Total = Wealth(online, memory, x) /\ Total' = Wealth(online, memory, y)
       /\ Wealth(online, memory, x) \in Amounts
  BY <1>1, <1>2, <1>5, <1>6, <1>9, WealthTypes, TotalIs
<1>11. CASE Twice(w)
  <2>1. y = Executed(x, v) /\ Affords(x, v) /\ (v.kind = "insert" => x.offers[v.id] = NoOffer)
        /\ (w.kind # "insert" => Untouched(once, x, w))
    <3>1. CASE w.kind = "insert"
      <4>1. x = once /\ y = e
        BY <1>3, <3>1, FinalShort
      <4> QED BY <1>4, <1>11, <3>1, <4>1
    <3>2. CASE w.kind # "insert"
      <4>1. v = w
        BY <1>4, <1>11, <3>2 DEF Twice
      <4>2. y = Final(Executed(once, w), ws) /\ Affords(once, w)
        BY <1>4, <1>11, <4>1
      <4>3. /\ Affords(x, w) /\ Untouched(once, x, w)
            /\ Final(Executed(once, w), ws) = Executed(x, w)
        BY <1>3, <1>4, <1>8, <4>2, FinalCommutes
      <4> QED BY <1>4, <3>2, <4>1, <4>2, <4>3
    <3> QED BY <3>1, <3>2
  <2>2. Wealth(online, memory, y) = Plus(Wealth(online, memory, x), Moves(x, v))
    <3> HIDE DEF x, y
    <3> QED BY <1>2, <1>4, <1>9, <2>1, ExecutedMoves
  <2>3. Moves(x, v) = b
    <3>1. CASE w.kind = "insert"
      <4>1. Moves(x, v) = Worth(v.offer, v.offer.amount) /\ a = Worth(w.offer, w.offer.amount)
        BY <1>4, <3>1, MovesFacts
      <4>2. b = a
        BY <3>1 DEF Doubles
      <4> QED BY <1>4, <3>1, <4>1, <4>2
    <3>2. CASE w.kind = "pay"
      <4>1. v = w /\ Untouched(x, Database, w)
        BY <1>4, <3>2 DEF Untouched, OnOffers
      <4>2. Moves(x, w) = a
        <5> HIDE DEF x
        <5> QED BY <1>3, <4>1, MovesSame
      <4>3. b = a
        BY <3>2 DEF Doubles
      <4> QED BY <4>1, <4>2, <4>3
    <3>3. CASE w.kind = "decrease"
      <4>1. v = w /\ x.offers[w.id] = once.offers[w.id]
        BY <1>4, <2>1, <3>3 DEF Untouched, OnOffers
      <4>2. once.offers[w.id] = [offers[w.id] EXCEPT !.amount = offers[w.id].amount - w.amount]
        BY <1>2, <1>3, <3>3, ExecutedFacts DEF once, Database
      <4>3. offers[w.id] \in Offer
        <5>1. w.id \in Ids /\ offers[w.id] # NoOffer
          BY <1>2, <1>3, <3>3, ExecutedFacts DEF Affords, Database
        <5>2. offers \in [Ids -> Offer \cup {NoOffer}]
          BY <1>2 DEF Database, Tables
        <5> QED BY <5>1, <5>2
      <4>4. once.offers[w.id].buys = offers[w.id].buys
        BY <4>2, <4>3 DEF Offer
      <4>5. Worth(x.offers[w.id], w.amount) = Worth(offers[w.id], w.amount)
        BY <4>1, <4>4 DEF Worth
      <4>6. Moves(x, w) = Lacking(Worth(x.offers[w.id], w.amount))
            /\ a = Lacking(Worth(offers[w.id], w.amount))
        BY <3>3, MovesFacts DEF Database
      <4>7. b = a
        BY <1>11, <3>3 DEF Doubles, Twice, Database
      <4> QED BY <4>1, <4>5, <4>6, <4>7
    <3> QED BY <1>11, <3>1, <3>2, <3>3 DEF Twice
  <2> QED BY <1>10, <2>2, <2>3 DEF b, w
<1>12. CASE w.kind = "save"
  <2> DEFINE z == Final(Database, ws)
             c == Moves(Database, v)
             t == Wealth(online, memory, z)
             r == saved[w.player]
  <2>1. /\ v = SaveOf(w.player, [money |-> r.money, goods |-> w.has.goods])
        /\ v.kind = "save" /\ v.player = w.player
        /\ v.has = [money |-> r.money, goods |-> w.has.goods]
    BY <1>12 DEF v, Again, SaveOf
  <2>2. Affords(Database, v) /\ \A k \in 1..Len(ws) : Independent(v, ws[k])
    BY <1>3, <1>12, <2>1 DEF Affords, Independent, OnOffers
  <2>3. /\ z \in Tables /\ Affords(z, w) /\ Untouched(Database, z, w) /\ x = Executed(z, w)
    BY <1>2, <1>3, FinalCommutes DEF once
  <2>4. /\ Affords(z, v) /\ Untouched(Database, z, v) /\ y = Executed(z, v)
    <3>1. e = Executed(Database, v)
      BY <1>4, <1>12
    <3> QED BY <1>2, <1>3, <1>4, <2>2, <3>1, FinalCommutes
  <2> HIDE DEF x, y, z
  <2>5. Wealth(online, memory, x) = Plus(t, Moves(z, w)) /\ Moves(z, w) \in Amounts
    BY <1>2, <1>3, <1>12, <2>3, ExecutedMoves
  <2>6. Wealth(online, memory, y) = Plus(t, Moves(z, v)) /\ Moves(z, v) \in Amounts
    BY <1>2, <1>4, <2>1, <2>3, <2>4, ExecutedMoves
  <2>7. Moves(z, w) = a /\ Moves(z, v) = c
    BY <1>3, <1>4, <2>3, <2>4, MovesSame
  <2>8. b = [money |-> -a.money, goods |-> 0]
    BY <1>12 DEF Doubles
  <2>9. c = [money |-> 0, goods |-> a.goods]
    <3>1. w.player \in Players /\ w.has \in Amounts /\ r \in Amounts
      <4>1. w.player \in Players /\ w.has \in Amounts
        BY <1>2, <1>3, <1>12, ExecutedFacts
      <4>2. saved \in [Players -> Amounts]
        BY <1>2 DEF Database, Tables
      <4> QED BY <4>1, <4>2
    <3>2. CASE w.player \in online
      <4>1. a = Nothing /\ c = Nothing
        BY <1>12, <2>1, <3>2, MovesFacts DEF OnPlayers
      <4> QED BY <4>1 DEF Nothing
    <3>3. CASE w.player \notin online
      <4>1. a = Minus(w.has, r) /\ c = Minus(v.has, r)
        BY <1>12, <2>1, <3>3, MovesFacts DEF Database
      <4> HIDE DEF r
      <4> QED BY <2>1, <3>1, <4>1 DEF Minus, Amounts
    <3> QED BY <3>2, <3>3
  <2>10. t \in Amounts
    BY <1>2, <2>3, WealthTypes
  <2> HIDE DEF t, a, b, c
  <2>11. Plus(t, c) = Plus(Plus(t, a), b)
    BY <2>5, <2>7, <2>8, <2>9, <2>10 DEF Plus, Amounts
  <2> QED BY <1>10, <2>5, <2>6, <2>7, <2>11 DEF b, w
<1>13. CASE ~Twice(w) /\ w.kind # "save"
  <2>1. y = x
    BY <1>4, <1>13
  <2>2. w.kind \in {"delete", "store", "decrease"}
    BY <1>2, <1>3, <1>13, ExecutedFacts DEF Twice
  <2>3. b = Nothing
    BY <1>13, <2>2 DEF Doubles, Twice, Database
  <2> HIDE DEF b, x, y
  <2> QED BY <1>10, <2>1, <2>3, NothingFacts DEF b, w
<1> QED BY <1>11, <1>12, <1>13

(* Short lists.                                                             *)
LEMMA ApartShort ==
  ASSUME NEW db
  PROVE  /\ Apart(db, << >>)
         /\ \A w : (w.kind = "insert" => db.offers[w.id] = NoOffer) => Apart(db, <<w>>)
<1>1. Apart(db, << >>)
  BY DEF Apart, Pairwise, Fresh
<1>2. ASSUME NEW w, w.kind = "insert" => db.offers[w.id] = NoOffer
      PROVE  Apart(db, <<w>>)
  <2> DEFINE ws == <<w>>
  <2>1. Len(ws) = 1 /\ ws[1] = w
    OBVIOUS
  <2> HIDE DEF ws
  <2>2. \A k \in 1..Len(ws) : k = 1
    BY <2>1
  <2>3. Pairwise(ws)
    BY <2>2 DEF Pairwise
  <2>4. Fresh(db, ws)
    BY <1>2, <2>1, <2>2 DEF Fresh
  <2>5. Apart(db, ws)
    BY <2>3, <2>4 DEF Apart
  <2> QED BY <2>5 DEF ws
<1> QED BY <1>1, <1>2

(* A payment and what an offer loses.                                        *)
LEMMA ApartTwo ==
  ASSUME NEW db, NEW w \in Payments, NEW x, x.kind \in {"delete", "decrease"}
  PROVE  Apart(db, <<w>> \o <<x>>)
<1> DEFINE ws == <<w>> \o <<x>>
<1>1. Len(ws) = 2 /\ ws[1] = w /\ ws[2] = x
  OBVIOUS
<1>2. w.kind \in {"pay", "store"}
  BY DEF Payments
<1> HIDE DEF ws
<1>3. \A k \in 1..Len(ws) : k = 1 \/ k = 2
  BY <1>1
<1>4. Independent(w, x) /\ Independent(x, w)
  BY <1>2 DEF Independent, OnOffers, OnPlayers
<1>5. Pairwise(ws)
  BY <1>1, <1>3, <1>4 DEF Pairwise
<1>6. Fresh(db, ws)
  BY <1>1, <1>2, <1>3 DEF Fresh
<1>7. Apart(db, ws)
  BY <1>5, <1>6 DEF Apart
<1> QED BY <1>7 DEF ws

(* Once the first statement is executed, the others are as apart as before.   *)
LEMMA TailApart ==
  ASSUME NEW d, NEW e, NEW ws \in Seq(Statements), ws # << >>, Apart(d, ws)
  PROVE  Apart(e, Tail(ws))
<1>1. /\ Len(ws) \in Nat /\ Len(ws) >= 1 /\ Len(Tail(ws)) = Len(ws) - 1
      /\ \A i \in 1..Len(ws) - 1 : Tail(ws)[i] = ws[i + 1]
  BY TailFacts
<1>2. \A i \in 1..Len(Tail(ws)) : i + 1 \in 1..Len(ws) /\ Tail(ws)[i] = ws[i + 1]
  BY <1>1
<1>3. Pairwise(Tail(ws))
  <2>1. ASSUME NEW j \in 1..Len(Tail(ws)), NEW k \in 1..Len(Tail(ws)), j # k
        PROVE  Independent(Tail(ws)[j], Tail(ws)[k])
    <3>1. j + 1 # k + 1
      BY <2>1
    <3> QED BY <1>2, <3>1 DEF Apart, Pairwise
  <2> QED BY <2>1 DEF Pairwise
<1>4. Fresh(e, Tail(ws))
  <2>1. ASSUME NEW k \in 1..Len(Tail(ws)), Tail(ws)[k].kind = "insert"  PROVE  FALSE
    <3>1. Len(ws) = 1
      BY <1>2, <2>1 DEF Apart, Fresh
    <3> DEFINE m == Len(Tail(ws))
    <3>2. m = 0 /\ k \in 1..m
      BY <1>1, <3>1
    <3> HIDE DEF m
    <3> QED BY <3>2
  <2> QED BY <2>1 DEF Fresh
<1> QED BY <1>3, <1>4 DEF Apart

(* Two lists whose statements do not meet.                                   *)
LEMMA JoinApart ==
  ASSUME NEW V, NEW us \in Seq(V), NEW ws \in Seq(V), Pairwise(us), Pairwise(ws),
         \A j \in 1..Len(us), k \in 1..Len(ws) : Independent(us[j], ws[k])
  PROVE  Pairwise(us \o ws)
<1> DEFINE s == us \o ws
           m == Len(us)
           n == Len(ws)
<1>1. /\ m \in Nat /\ n \in Nat /\ Len(s) = m + n
      /\ \A i \in 1..m : s[i] = us[i]
      /\ \A i \in m + 1..m + n : s[i] = ws[i - m]
  OBVIOUS
<1>2. \A j \in 1..m, k \in 1..n : Independent(us[j], ws[k]) /\ Independent(ws[k], us[j])
  BY DEF Independent
<1>3. \A j, k \in 1..m : j # k => Independent(us[j], us[k])
  BY DEF Pairwise
<1>4. \A j, k \in 1..n : j # k => Independent(ws[j], ws[k])
  BY DEF Pairwise
<1> HIDE DEF s, m, n
<1>5. ASSUME NEW j \in 1..Len(s), NEW k \in 1..Len(s), j # k
      PROVE  Independent(s[j], s[k])
  <2>1. CASE j <= m /\ k <= m
    <3>1. j \in 1..m /\ k \in 1..m
      BY <1>1, <2>1
    <3> QED BY <1>1, <1>3, <1>5, <3>1
  <2>2. CASE j <= m /\ ~(k <= m)
    <3>1. j \in 1..m /\ k \in m + 1..m + n /\ k - m \in 1..n
      BY <1>1, <2>2
    <3> QED BY <1>1, <1>2, <3>1
  <2>3. CASE ~(j <= m) /\ k <= m
    <3>1. k \in 1..m /\ j \in m + 1..m + n /\ j - m \in 1..n
      BY <1>1, <2>3
    <3> QED BY <1>1, <1>2, <3>1
  <2>4. CASE ~(j <= m) /\ ~(k <= m)
    <3>1. /\ j \in m + 1..m + n /\ j - m \in 1..n /\ k \in m + 1..m + n /\ k - m \in 1..n
          /\ j - m # k - m
      BY <1>1, <1>5, <2>4
    <3> QED BY <1>1, <1>4, <3>1
  <2> QED BY <2>1, <2>2, <2>3, <2>4
<1> QED BY <1>5 DEF Pairwise, s

(* A list stays one in a larger set.                                        *)
LEMMA Wider ==
  ASSUME NEW A, NEW V, A \subseteq V, NEW s \in Seq(A)
  PROVE  s \in Seq(V)
<1>1. Len(s) \in Nat /\ s \in [1..Len(s) -> A]
  OBVIOUS
<1>2. s \in [1..Len(s) -> V]
  BY <1>1
<1> QED BY <1>1, <1>2

(* To accept an offer is to pay its owner, and to take from it.              *)
LEMMA AcceptApart ==
  ASSUME Kept, NEW p \in Players, NEW o \in Ids, NEW n \in 1..MaxAmount, Accept(p, o, n)
  PROVE  Distinct'
<1> DEFINE offer == offers[o]
           owner == offer.owner
           flip == [offer EXCEPT !.buys = ~offer.buys]
           asked == Worth(flip, n)
<1>1. /\ Idle /\ Listed(o)
      /\ writes' = (IF owner \in online THEN << >> ELSE Written(owner, asked)) \o Take(o, n)
      /\ Database' = Database
  BY DEF Accept, Database, tables
<1>2. offer \in Offer
  BY <1>1, IdleFacts
<1>3. owner \in Players /\ n \in Nat /\ flip.buys \in BOOLEAN
  BY <1>2, MarketAssumption DEF Offer
<1>4. PICK x : Take(o, n) = <<x>> /\ x.kind \in {"delete", "decrease"}
  BY DEF Take, Delete, Decrease
<1> HIDE DEF owner, flip
<1>5. CASE owner \in online
  <2>1. writes' = << >> \o <<x>> /\ << >> \o <<x>> = <<x>>
    BY <1>1, <1>4, <1>5
  <2>2. x.kind # "insert"
    BY <1>4
  <2>3. Apart(Database, <<x>>)
    BY <2>2, ApartShort
  <2> QED BY <1>1, <2>1, <2>3 DEF Distinct
<1>6. CASE owner \notin online
  <2>1. PICK w \in Payments : Written(owner, asked) = <<w>>
    BY <1>3, WrittenFacts
  <2>2. writes' = <<w>> \o <<x>>
    BY <1>1, <1>4, <1>6, <2>1
  <2>3. Apart(Database, <<w>> \o <<x>>)
    BY <1>4, ApartTwo
  <2> QED BY <1>1, <2>2, <2>3 DEF Distinct
<1> QED BY <1>5, <1>6

(* Everybody who is online is saved once.                                   *)
LEMMA SaveApart ==
  ASSUME Kept, SaveGame
  PROVE  Distinct'
<1> DEFINE all == SetToSeq(online)
           N == Len(all)
           ws == [i \in DOMAIN all |-> SaveOf(all[i], memory[all[i]])]
<1>1. writes' = ws /\ Database' = Database
  BY DEF SaveGame, Database, tables
<1>2. IsFiniteSet(online)
  BY MarketAssumption, FS_Subset DEF Kept
<1>3. all \in Seq(online) /\ \A k, l \in 1..N : all[k] = all[l] => k = l
  BY <1>2, SetToSeqFacts
<1> HIDE DEF all
<1>4. DOMAIN all = 1..N /\ N \in Nat
  BY <1>3
<1>5. Len(ws) = N /\ \A k \in 1..N : ws[k].kind = "save" /\ ws[k].player = all[k]
  BY <1>4 DEF SaveOf
<1> HIDE DEF ws, N
<1>6. Pairwise(ws)
  BY <1>3, <1>5 DEF Pairwise, Independent, OnOffers, N
<1>7. Fresh(Database, ws)
  BY <1>5 DEF Fresh
<1> QED BY <1>1, <1>6, <1>7 DEF Distinct, Apart

(* What a check for expired offers executes to end those in S.               *)
Ending(S) == Payments \cup {Delete(o) : o \in S}

EndsApart(S, ws) == ws \in Seq(Ending(S)) /\ Pairwise(ws)

LEMMA EndedApart ==
  ASSUME NEW o \in Ids, offers[o] \in Offer
  PROVE  EndsApart({o}, Ended(o))
<1> DEFINE offer == offers[o]
           owner == offer.owner
           all == offer.amount
           worth == Worth(offer, all)
           x == Delete(o)
<1>1. owner \in Players /\ all \in Nat /\ offer.buys \in BOOLEAN
  BY DEF Offer
<1>2. x \in Ending({o}) /\ x.kind = "delete"
  BY DEF Ending, Delete
<1>3. Ended(o) = (IF owner \in online THEN << >> ELSE Written(owner, worth)) \o <<x>>
  BY DEF Ended
<1> HIDE DEF x
<1>4. CASE owner \in online
  <2>1. Ended(o) = << >> \o <<x>> /\ << >> \o <<x>> = <<x>>
    BY <1>3, <1>4
  <2>2. x.kind # "insert"
    BY <1>2
  <2>3. Apart(Database, <<x>>)
    BY <2>2, ApartShort
  <2> QED BY <1>2, <2>1, <2>3 DEF EndsApart, Apart
<1>5. CASE owner \notin online
  <2>1. PICK w \in Payments : Written(owner, worth) = <<w>>
    <3> HIDE DEF offer, all, owner
    <3> QED BY <1>1, WrittenFacts
  <2>2. Ended(o) = <<w>> \o <<x>>
    BY <1>3, <1>5, <2>1
  <2>3. Apart(Database, <<w>> \o <<x>>)
    BY <1>2, ApartTwo
  <2>4. <<w>> \o <<x>> \in Seq(Ending({o}))
    <3>1. w \in Ending({o})
      BY DEF Ending
    <3> QED BY <1>2, <3>1
  <2> QED BY <2>2, <2>3, <2>4 DEF EndsApart, Apart
<1> QED BY <1>4, <1>5

(* One more offer is ended.                                                 *)
LEMMA EndingJoins ==
  ASSUME NEW S, NEW o, o \notin S, NEW us, NEW ws, EndsApart(S, us), EndsApart({o}, ws)
  PROVE  EndsApart(S \cup {o}, us \o ws)
<1> DEFINE V == Ending(S \cup {o})
<1>1. Ending(S) \subseteq V /\ Ending({o}) \subseteq V
  BY DEF Ending
<1>2. us \in Seq(Ending(S)) /\ ws \in Seq(Ending({o})) /\ Pairwise(us) /\ Pairwise(ws)
  BY DEF EndsApart
<1>3. \A v \in Ending(S), w \in Ending({o}) : Independent(v, w)
  BY DEF Ending, Independent, OnOffers, OnPlayers, Payments, Delete
<1> HIDE DEF V
<1>4. us \in Seq(V) /\ ws \in Seq(V)
  BY <1>1, <1>2, Wider
<1>5. \A j \in 1..Len(us), k \in 1..Len(ws) : Independent(us[j], ws[k])
  <2>1. /\ \A j \in 1..Len(us) : us[j] \in Ending(S)
        /\ \A k \in 1..Len(ws) : ws[k] \in Ending({o})
    BY <1>2
  <2> QED BY <1>3, <2>1
<1>6. Pairwise(us \o ws)
  BY <1>2, <1>4, <1>5, JoinApart
<1>7. us \o ws \in Seq(V)
  BY <1>4
<1> QED BY <1>6, <1>7 DEF EndsApart, V

(* A check for expired offers ends each of them once.                        *)
LEMMA EndApart ==
  ASSUME Kept, NEW skipped \in SUBSET Expired, CheckExpired(skipped)
  PROVE  Distinct'
<1> DEFINE E == Expired \ skipped
           s == SetToSeq(E)
           N == Len(s)
           lists == [i \in DOMAIN s |-> Ended(s[i])]
           V == Ending(E)
<1>1. Idle /\ writes' = FlattenSeq(lists) /\ Database' = Database
  BY DEF CheckExpired, EndExpired, Database, tables
<1>2. E \in SUBSET Ids /\ IsFiniteSet(E) /\ \A o \in E : offers[o] \in Offer
  <2>1. E \in SUBSET Ids /\ \A o \in E : offers[o] \in Offer
    BY <1>1, IdleFacts DEF Expired
  <2> HIDE DEF E
  <2> QED BY <2>1, MarketAssumption, FS_Subset
<1> HIDE DEF E
<1>3. /\ s \in Seq(E)
      /\ \A k, l \in 1..N : s[k] = s[l] => k = l
  BY <1>2, SetToSeqFacts
<1> HIDE DEF s
<1>4. N \in Nat /\ DOMAIN s = 1..N /\ \A k \in 1..N : s[k] \in E
  BY <1>3
<1>5. \A k \in 1..N : EndsApart({s[k]}, Ended(s[k]))
  <2>1. ASSUME NEW k \in 1..N  PROVE  EndsApart({s[k]}, Ended(s[k]))
    <3>1. s[k] \in Ids /\ offers[s[k]] \in Offer
      BY <1>2, <1>4
    <3> QED BY <3>1, EndedApart
  <2> QED BY <2>1
<1>6. \A o \in E : Ending({o}) \subseteq V
  BY DEF Ending
<1> HIDE DEF N, V
<1>7. lists \in Seq(Seq(V)) /\ Len(lists) = N /\ \A k \in 1..N : lists[k] = Ended(s[k])
  <2>1. \A k \in 1..N : Ended(s[k]) \in Seq(V)
    <3>1. ASSUME NEW k \in 1..N  PROVE  Ended(s[k]) \in Seq(V)
      <4>1. Ended(s[k]) \in Seq(Ending({s[k]})) /\ Ending({s[k]}) \subseteq V
        BY <1>4, <1>5, <1>6 DEF EndsApart
      <4> QED BY <4>1, Wider
    <3> QED BY <3>1
  <2> DEFINE W == Seq(V)
  <2> HIDE DEF W
  <2>2. lists = [i \in 1..N |-> Ended(s[i])]
    BY <1>4
  <2>3. lists \in [1..N -> W]
    BY <2>1, <2>2 DEF W
  <2> HIDE DEF lists
  <2>4. lists \in Seq(W) /\ Len(lists) = N
    BY <1>4, <2>3
  <2> QED BY <2>2, <2>4 DEF W
<1> HIDE DEF lists
<1>8. PICK f : Joins(f, V, lists) /\ FlattenSeq(lists) = f[N]
  BY <1>7, FlattenFacts
<1> DEFINE Done(n) == {s[k] : k \in 1..n}
           T == {n \in 0..N : EndsApart(Done(n), f[n])}
<1>9. 0 \in T
  <2>1. f[0] = << >> /\ 0 \in 0..N
    BY <1>4, <1>8 DEF Joins
  <2>2. << >> \in Seq(Ending(Done(0))) /\ Pairwise(<< >>)
    BY DEF Pairwise
  <2> QED BY <2>1, <2>2 DEF EndsApart
<1>10. ASSUME NEW n \in 1..N, n - 1 \in T  PROVE  n \in T
  <2> DEFINE S == Done(n - 1)
             o == s[n]
  <2>1. n \in 0..N /\ n - 1 \in 0..N /\ n \in 1..n /\ (1..n) = (1..n - 1) \cup {n}
    BY <1>4
  <2>2. Done(n) = S \cup {o}
    BY <2>1
  <2>3. o \notin S
    BY <1>3, <2>1 DEF N
  <2>4. f[n] = f[n - 1] \o Ended(o)
    BY <1>7, <1>8, <2>1 DEF Joins
  <2>5. EndsApart(S, f[n - 1]) /\ EndsApart({o}, Ended(o))
    BY <1>5, <1>10
  <2> HIDE DEF S, o, Done
  <2>6. EndsApart(S \cup {o}, f[n - 1] \o Ended(o))
    BY <2>3, <2>5, EndingJoins
  <2> QED BY <2>1, <2>2, <2>4, <2>6
<1> HIDE DEF T
<1>11. N \in T
  <2>1. 0..N \subseteq T
    BY <1>4, <1>9, <1>10, Upward
  <2> QED BY <1>4, <2>1
<1>12. EndsApart(Done(N), writes')
  BY <1>1, <1>8, <1>11 DEF T
<1> DEFINE ws == writes'
           D == Done(N)
<1> HIDE DEF ws, D
<1>13. ws \in Seq(Ending(D)) /\ Pairwise(ws)
  BY <1>12 DEF EndsApart, ws, D
<1>14. Fresh(Database, ws)
  <2>1. \A w \in Ending(D) : w.kind # "insert"
    BY DEF Ending, Payments, Delete
  <2> QED BY <1>13, <2>1 DEF Fresh
<1> QED BY <1>1, <1>13, <1>14 DEF Distinct, Apart, ws

(* Every handler has such statements, and every step leaves them.             *)
LEMMA InitDistinct == Init => Distinct
BY ApartShort DEF Init, Distinct

LEMMA StepDistinct == Kept /\ Distinct /\ [Next]_vars => Distinct'
<1> SUFFICES ASSUME Kept, Distinct, [Next]_vars  PROVE  Distinct'
  OBVIOUS
<1>1. CASE UNCHANGED vars
  BY <1>1 DEF Distinct, Database, vars, tables
<1>2. ASSUME NEW p \in Players, Login(p)  PROVE  Distinct'
  BY <1>2 DEF Login, Distinct, Database, tables
<1>3. ASSUME NEW p \in Players, Logout(p)  PROVE  Distinct'
  <2>1. SaveOf(p, memory[p]).kind # "insert" /\ writes' = <<SaveOf(p, memory[p])>>
    BY <1>3 DEF Logout, SaveOf
  <2>2. Apart(Database', <<SaveOf(p, memory[p])>>)
    BY <2>1, ApartShort
  <2> QED BY <2>1, <2>2 DEF Distinct
<1>4. ASSUME NEW p \in Players, NEW o \in Ids, CreateSome(p, o)  PROVE  Distinct'
  <2>1. PICK n \in 1..MaxAmount, buys \in BOOLEAN :
          Create(p, o, [owner |-> p, buys |-> buys, amount |-> n, expired |-> FALSE])
    BY <1>4 DEF CreateSome
  <2> DEFINE offer == [owner |-> p, buys |-> buys, amount |-> n, expired |-> FALSE]
             w == Insert(o, offer)
  <2>2. writes' = <<w>> /\ ~Listed(o) /\ Database' = Database
    BY <2>1 DEF Create, Database, tables
  <2>3. w.id = o /\ Database.offers[o] = NoOffer
    BY <2>2 DEF Insert, Listed, Database
  <2> HIDE DEF w
  <2>4. Apart(Database, <<w>>)
    BY <2>3, ApartShort
  <2> QED BY <2>2, <2>4 DEF Distinct
<1>5. ASSUME NEW p \in Players, NEW o \in Ids, Cancel(p, o)  PROVE  Distinct'
  <2>1. Delete(o).kind # "insert" /\ writes' = <<Delete(o)>>
    BY <1>5 DEF Cancel, Delete
  <2>2. Apart(Database', <<Delete(o)>>)
    BY <2>1, ApartShort
  <2> QED BY <2>1, <2>2 DEF Distinct
<1>6. ASSUME NEW p \in Players, NEW o \in Ids, NEW n \in 1..MaxAmount, Accept(p, o, n)
      PROVE  Distinct'
  BY <1>6, AcceptApart
<1>7. ASSUME NEW o \in Ids, Expire(o)  PROVE  Distinct'
  <2>1. /\ writes' = writes /\ Listed(o) /\ Pairwise(writes) /\ Fresh(Database, writes)
        /\ Database'.offers = [offers EXCEPT ![o].expired = TRUE] /\ Database.offers = offers
    BY <1>7 DEF Expire, Distinct, Apart, Database
  <2>2. offers \in [Ids -> Offer \cup {NoOffer}]
    BY DEF Kept, Tables, Database
  <2>3. \A i : i # o /\ offers[i] = NoOffer => [offers EXCEPT ![o].expired = TRUE][i] = offers[i]
    BY <2>2
  <2>4. \A k \in 1..Len(writes) : writes[k].kind = "insert" => writes[k].id \in Ids
    <3>1. \A k \in 1..Len(writes) : writes[k] \in Statements
      BY DEF Kept
    <3> QED BY <3>1 DEF Statements, Payments
  <2>5. \A i \in Ids : offers[i] = NoOffer => Database'.offers[i] = NoOffer
    BY <2>1, <2>2, <2>3 DEF Listed
  <2>6. Fresh(Database', writes)
    BY <2>1, <2>4, <2>5 DEF Fresh
  <2> QED BY <2>1, <2>6 DEF Distinct, Apart
<1>8. CASE Check
  BY <1>8, EndApart DEF Check
<1>9. CASE SaveGame
  BY <1>9, SaveApart
<1>10. CASE Succeeds \/ Fails \/ Repeats
  <2>1. writes # << >> /\ writes' = Tail(writes)
    BY <1>10 DEF Succeeds, Fails, Repeats
  <2>2. Apart(Database', Tail(writes))
    BY <2>1, TailApart DEF Kept, Distinct
  <2> QED BY <2>1, <2>2 DEF Distinct
<1>11. CASE Crash
  <2>1. writes' = << >>
    BY <1>11 DEF Crash
  <2> QED BY <2>1, ApartShort DEF Distinct
<1> QED BY <1>1, <1>2, <1>3, <1>4, <1>5, <1>6, <1>7, <1>8, <1>9, <1>10, <1>11 DEF Next

-----------------------------------------------------------------------------
(* What NothingIsMadeOrLost says of a step.                                  *)
Accounted ==
  \/ Total' = Total
  \/ \E n \in 1..MaxAmount :
       /\ \E p \in Players, o \in Ids : CreateSome(p, o)
       /\ Total' = Minus(Total, [money |-> Fee(n), goods |-> 0])
  \/ Fails /\ Total' = Minus(Total, Moves(Database, Head(writes)))
  \/ Repeats /\ Total' = Plus(Total, Doubles(Database, Head(writes)))
  \/ Crash /\ Unsaved

Invariant == Kept /\ Distinct

LEMMA StepAccounted == Invariant /\ [Next]_vars => Invariant' /\ [Accounted]_vars
<1> SUFFICES ASSUME Kept, Distinct, [Next]_vars  PROVE  Kept' /\ [Accounted]_vars
  BY StepDistinct DEF Invariant
<1>1. CASE UNCHANGED vars
  <2>1. Kept'
    BY <1>1 DEF Kept, Database, vars, tables
  <2> QED BY <1>1, <2>1
<1>2. ASSUME NEW p \in Players, Login(p) \/ Logout(p)  PROVE  Kept' /\ Accounted
  BY <1>2, LoginKeeps, LogoutKeeps DEF Accounted
<1>3. ASSUME NEW p \in Players, NEW o \in Ids, CreateSome(p, o)  PROVE  Kept' /\ Accounted
  <2>1. PICK n \in 1..MaxAmount, buys \in BOOLEAN :
          Create(p, o, [owner |-> p, buys |-> buys, amount |-> n, expired |-> FALSE])
    BY <1>3 DEF CreateSome
  <2>2. Kept' /\ Total' = Minus(Total, [money |-> Fee(n), goods |-> 0])
    BY <2>1, CreateKeeps
  <2> QED BY <1>3, <2>2 DEF Accounted
<1>4. ASSUME NEW p \in Players, NEW o \in Ids, Cancel(p, o)  PROVE  Kept' /\ Accounted
  BY <1>4, CancelKeeps DEF Accounted
<1>5. ASSUME NEW p \in Players, NEW o \in Ids, NEW n \in 1..MaxAmount, Accept(p, o, n)
      PROVE  Kept' /\ Accounted
  BY <1>5, AcceptKeeps DEF Accounted
<1>6. ASSUME NEW o \in Ids, Expire(o)  PROVE  Kept' /\ Accounted
  BY <1>6, ExpireKeeps DEF Accounted
<1>7. CASE Check
  BY <1>7, EndKeeps DEF Check, Accounted
<1>8. CASE SaveGame
  BY <1>8, SaveKeeps DEF Accounted
<1>9. CASE Succeeds
  BY <1>9, SucceedsKeeps DEF Accounted
<1>10. CASE Fails
  BY <1>10, FailsKeeps, FailsAccounts DEF Accounted
<1>11. CASE Repeats
  BY <1>11, RepeatsKeeps, RepeatsAccounts DEF Accounted
<1>12. CASE Crash
  BY <1>12, CrashKeeps DEF Accounted
<1> QED BY <1>1, <1>2, <1>3, <1>4, <1>5, <1>6, <1>7, <1>8, <1>9, <1>10, <1>11, <1>12 DEF Next

(* Money and items are neither made nor lost, whoever creates, accepts and      *)
(* cancels offers while others come and go, and whatever expires: all that      *)
(* there is changes by the fee of a new offer, by what one statement moves when *)
(* that one fails or is repeated, and in a crash while somebody is not saved.  *)
THEOREM NothingIsMadeOrLostHolds == Spec => NothingIsMadeOrLost
<1>1. Init => Invariant
  BY InitKept, InitDistinct DEF Invariant
<1>2. Invariant /\ [Next]_vars => Invariant' /\ [Accounted]_vars
  BY StepAccounted
<1>3. Spec => [][Accounted]_vars
  BY <1>1, <1>2, PTL DEF Spec
<1> QED BY <1>3 DEF NothingIsMadeOrLost, Accounted
=============================================================================
