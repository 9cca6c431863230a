---------------------------- MODULE TradeProofs ----------------------------
(* Proofs about Trade.  The first part: the weights that containers and      *)
(* players cache are those of what is in them, no piece of a stack is made   *)
(* or lost, and no limit is passed but for the named exception.  The second  *)
(* part: what is on offer stays within reach of who offers it, apart from    *)
(* other offers and just as the partner was shown it, until the trade ends.  *)
(* The third part: the last accept exchanges both items as wholes, but for   *)
(* the cases that SwapIsWhole names.                                        *)
EXTENDS PlacesProofs

-----------------------------------------------------------------------------
(* More about sums.                                                         *)

(* Of what is in two sets, one element apart.                               *)
LEMMA TotalWithout ==
  ASSUME NEW S, IsFiniteSet(S), NEW f, \A x \in S : f[x] \in Int, NEW k
  PROVE  Total(f, S \ {k}) = Total(f, S) - (IF k \in S THEN f[k] ELSE 0)
<1>1. Total(f, S) \in Int
  BY TotalFacts
<1>2. CASE k \in S
  <2>1. Total(f, S) = f[k] + Total(f, S \ {k})
    BY <1>2, TotalFacts
  <2>2. IsFiniteSet(S \ {k}) /\ \A x \in S \ {k} : f[x] \in Int
    BY FS_RemoveElement
  <2>3. Total(f, S \ {k}) \in Int
    BY <2>2, TotalFacts
  <2> QED BY <1>1, <1>2, <2>1, <2>3
<1>3. CASE k \notin S
  <2>1. S \ {k} = S
    BY <1>3
  <2> QED BY <1>1, <1>3, <2>1
<1> QED BY <1>2, <1>3

(* What k adds to the sum of f over S.                                      *)
Part(f, S, k) == IF k \in S THEN f[k] ELSE 0

(* If the functions agree but for k, so do the sums but for what k adds.    *)
LEMMA TotalDiffers ==
  ASSUME NEW D, IsFiniteSet(D), NEW S \in SUBSET D, NEW R \in SUBSET D, NEW k \in D,
         S \ {k} = R \ {k}, NEW f, NEW g,
         \A x \in D : f[x] \in Int /\ g[x] \in Int /\ (x # k => f[x] = g[x])
  PROVE  Total(g, R) = (Total(f, S) - Part(f, S, k)) + Part(g, R, k)
<1>1. IsFiniteSet(S) /\ IsFiniteSet(R) /\ IsFiniteSet(S \ {k})
  BY FS_Subset
<1>2. Total(f, S \ {k}) = Total(f, S) - (IF k \in S THEN f[k] ELSE 0)
  BY <1>1, TotalWithout
<1>3. Total(g, R \ {k}) = Total(g, R) - (IF k \in R THEN g[k] ELSE 0)
  BY <1>1, TotalWithout
<1>4. Total(f, S \ {k}) = Total(g, S \ {k})
  <2>1. \A x \in S \ {k} : f[x] \in Int /\ f[x] = g[x]
    OBVIOUS
  <2> QED BY <1>1, <2>1, TotalSame
<1>5. Total(f, S) \in Int /\ Total(g, R) \in Int
  BY <1>1, TotalFacts
<1>6. f[k] \in Int /\ g[k] \in Int
  OBVIOUS
<1> DEFINE fs == Total(f, S)
           gs == Total(g, R)
           fk == IF k \in S THEN f[k] ELSE 0
           gk == IF k \in R THEN g[k] ELSE 0
<1>7. fs - fk = gs - gk
  BY <1>2, <1>3, <1>4
<1>8. fs \in Int /\ gs \in Int /\ fk \in Int /\ gk \in Int
  BY <1>5, <1>6
<1> HIDE DEF fs, gs, fk, gk
<1>9. gs = (fs - fk) + gk
  BY <1>7, <1>8
<1> QED BY <1>9 DEF fs, gs, fk, gk, Part

-----------------------------------------------------------------------------
(* The containers around a container.                                       *)

(* b and everything that it is in.                                          *)
Around(w, b) == {c \in Bags : c = b \/ Holds(w, c, b)}

(* The way up from b: s[0] is b, s[n + 1] the parent of s[n].                *)
Way(w, b, s) ==
  /\ Depth \in Nat
  /\ s[0] = b /\ s[Depth + 1] = Root(w, b) /\ s[Depth + 1] \notin Bags
  /\ \A n \in 0..Depth : s[n + 1] = IF s[n] \in Bags THEN w.parent[s[n]] ELSE s[n]
  /\ Around(w, b) = {s[n] : n \in 0..Depth + 1} \cap Bags

(* There is one.                                                            *)
LEMMA WayExists ==
  ASSUME NEW w, ParentTypes(w), NoKnot(w), NEW b \in Bags
  PROVE  \E s : Way(w, b, s)
<1> DEFINE a == Above(w, b)
           s == [n \in 0..Depth + 1 |-> IF n = 0 THEN b ELSE a[n - 1]]
<1>1. /\ Depth \in Nat /\ a[0] = w.parent[b]
      /\ \A n \in 1..Depth :
           a[n] = IF a[n - 1] \in Bags THEN w.parent[a[n - 1]] ELSE a[n - 1]
      /\ a[Depth] \notin Bags /\ a[Depth] = Root(w, b)
      /\ Around(w, b) = {c \in Bags : c = b \/ \E n \in 0..Depth : a[n] = c}
  <2>1. b \in Items
    BY DEF Items
  <2>2. a[Depth] \notin Bags
    BY <2>1, TopFacts
  <2>3. a[Depth] = Root(w, b)
    BY DEF Root, Depth
  <2>4. Around(w, b) = {c \in Bags : c = b \/ \E n \in 0..Depth : a[n] = c}
    BY DEF Around, Holds, Depth
  <2> QED BY <2>1, <2>2, <2>3, <2>4, AboveFacts
<1> HIDE DEF a
<1>2. /\ s[0] = b
      /\ \A n \in 0..Depth : s[n + 1] = a[n]
  BY <1>1
<1> HIDE DEF s
<1>3. ASSUME NEW n \in 0..Depth
      PROVE  s[n + 1] = IF s[n] \in Bags THEN w.parent[s[n]] ELSE s[n]
  <2>1. CASE n = 0
    BY <1>1, <1>2, <2>1
  <2>2. CASE n # 0
    <3>1. n \in 1..Depth /\ n - 1 \in 0..Depth /\ (n - 1) + 1 = n
      BY <1>1, <2>2
    <3>2. s[n] = a[n - 1]
      BY <1>2, <3>1
    <3> QED BY <1>1, <1>2, <3>1, <3>2
  <2> QED BY <2>1, <2>2
<1>4. Around(w, b) = {s[n] : n \in 0..Depth + 1} \cap Bags
  <2>1. ASSUME NEW c \in Bags, \E n \in 0..Depth : a[n] = c
        PROVE  \E n \in 0..Depth + 1 : s[n] = c
    <3>1. PICK n \in 0..Depth : a[n] = c
      BY <2>1
    <3>2. n + 1 \in 0..Depth + 1
      BY <1>1
    <3> QED BY <1>2, <3>1, <3>2
  <2>2. ASSUME NEW c \in Bags, NEW n \in 0..Depth + 1, s[n] = c, c # b
        PROVE  \E k \in 0..Depth : a[k] = c
    <3>1. n - 1 \in 0..Depth /\ (n - 1) + 1 = n
      BY <1>1, <1>2, <2>2
    <3> QED BY <1>2, <2>2, <3>1
  <2>3. 0 \in 0..Depth + 1
    BY <1>1
  <2> QED BY <1>1, <1>2, <2>1, <2>2, <2>3
<1>5. s[Depth + 1] = a[Depth]
  <2>1. Depth \in 0..Depth
    BY <1>1
  <2> QED BY <1>2, <2>1
<1> QED BY <1>1, <1>2, <1>3, <1>4, <1>5 DEF Way

(* It stops at the first that is no container, and does not come back.      *)
LEMMA WayFacts ==
  ASSUME NEW w, NoKnot(w), NEW b \in Bags, NEW s, Way(w, b, s)
  PROVE  /\ \A n \in 0..Depth + 1 : s[n] \in Bags => n <= Depth /\ s[n + 1] = w.parent[s[n]]
         /\ \A n \in 0..Depth : s[n + 1] \in Bags => s[n] \in Bags
         /\ \A n \in 0..Depth : s[n] \notin Bags => s[n] = Root(w, b)
         /\ \A n \in 0..Depth : \A m \in 0..n : s[n] \in Bags => w.parent[s[n]] # s[m]
<1>1. /\ Depth \in Nat
      /\ s[0] = b /\ s[Depth + 1] = Root(w, b) /\ s[Depth + 1] \notin Bags
      /\ \A n \in 0..Depth : s[n + 1] = IF s[n] \in Bags THEN w.parent[s[n]] ELSE s[n]
  BY DEF Way
<1>2. \A n \in 0..Depth + 1 : s[n] \in Bags => n \in 0..Depth /\ s[n + 1] = w.parent[s[n]]
  <2> SUFFICES ASSUME NEW n \in 0..Depth + 1, s[n] \in Bags
               PROVE  n \in 0..Depth /\ s[n + 1] = w.parent[s[n]]
    OBVIOUS
  <2>1. n # Depth + 1
    BY <1>1
  <2>2. n \in 0..Depth
    BY <1>1, <2>1
  <2> QED BY <1>1, <2>2
<1>3. \A n \in 0..Depth : s[n + 1] \in Bags => s[n] \in Bags
  BY <1>1
<1>4. ASSUME NEW n \in 0..Depth, s[n] \notin Bags  PROVE  s[n] = Root(w, b)
  <2> DEFINE T == {k \in n..Depth + 1 : s[k] = s[n]}
  <2>1. n \in T
    BY <1>1
  <2>2. ASSUME NEW k \in n + 1..Depth + 1, k - 1 \in T  PROVE  k \in T
    <3>1. k - 1 \in 0..Depth /\ (k - 1) + 1 = k /\ k \in n..Depth + 1
      BY <1>1
    <3>2. s[k] = s[k - 1]
      BY <1>1, <1>4, <2>2, <3>1
    <3> QED BY <2>2, <3>1, <3>2
  <2>3. n \in Int /\ Depth + 1 \in Int /\ Depth + 1 \in n..Depth + 1
    BY <1>1
  <2> HIDE DEF T
  <2>4. n..Depth + 1 \subseteq T
    BY <2>1, <2>2, <2>3, Upward
  <2>5. Depth + 1 \in T
    BY <2>3, <2>4
  <2> QED BY <1>1, <2>5 DEF T
<1>5. ASSUME NEW n \in 0..Depth, NEW m \in 0..n, s[n] \in Bags, w.parent[s[n]] = s[m]
      PROVE  FALSE
  <2> DEFINE T == {j \in 0..n : s[n - j] \in Bags}
             S == {s[k] : k \in m..n}
  <2>1. 0..n \subseteq T
    <3>1. 0 \in T
      BY <1>5
    <3>2. ASSUME NEW j \in 0 + 1..n, j - 1 \in T  PROVE  j \in T
      <4>1. n - j \in 0..Depth /\ (n - j) + 1 = n - (j - 1) /\ j \in 0..n
        BY <1>1
      <4> QED BY <1>3, <3>2, <4>1
    <3>3. 0 \in Int /\ n \in Int
      OBVIOUS
    <3> HIDE DEF T
    <3> QED BY <3>1, <3>2, <3>3, Upward
  <2>2. \A k \in m..n : s[k] \in Bags
    <3> SUFFICES ASSUME NEW k \in m..n  PROVE s[k] \in Bags
      OBVIOUS
    <3>1. n - k \in T
      BY <2>1
    <3>2. n - (n - k) = k
      OBVIOUS
    <3> QED BY <3>1, <3>2
  <2>3. S \in SUBSET Bags /\ s[m] \in S
    BY <2>2
  <2>4. ASSUME NEW c \in S  PROVE  w.parent[c] \in S
    <3>1. PICK k \in m..n : c = s[k]
      OBVIOUS
    <3>2. CASE k = n
      BY <1>5, <2>3, <3>1, <3>2
    <3>3. CASE k # n
      <4>1. k + 1 \in m..n /\ k \in 0..Depth + 1
        BY <1>1, <3>3
      <4>2. s[k + 1] = w.parent[c]
        BY <1>2, <2>2, <3>1, <4>1
      <4> QED BY <4>1, <4>2
    <3> QED BY <3>2, <3>3
  <2> HIDE DEF S
  <2> QED BY <2>3, <2>4 DEF NoKnot
<1>6. \A n \in 0..Depth + 1 : s[n] \in Bags => n <= Depth /\ s[n + 1] = w.parent[s[n]]
  BY <1>1, <1>2
<1> QED BY <1>3, <1>4, <1>5, <1>6


(* So the containers around b form a row, and at its end is the root of b.   *)
LEMMA AroundFacts ==
  ASSUME NEW w, ParentTypes(w), NoKnot(w), NEW b \in Bags, NEW U, U = Around(w, b)
  PROVE  /\ \A c \in Bags : c \in U <=> c = b \/ \E j \in U : w.parent[j] = c
         /\ \A j \in U : w.parent[j] # b
         /\ \A j, k \in U : w.parent[j] = w.parent[k] => j = k
         /\ \A c : c \notin Bags => ((\E j \in U : w.parent[j] = c) <=> c = Root(w, b))
         /\ U \subseteq Bags /\ b \in U
<1>1. PICK s : Way(w, b, s)
  BY WayExists
<1>2. /\ Depth \in Nat /\ s[0] = b /\ s[Depth + 1] = Root(w, b) /\ s[Depth + 1] \notin Bags
      /\ U = {s[n] : n \in 0..Depth + 1} \cap Bags
  BY <1>1 DEF Way
<1>3. /\ \A n \in 0..Depth + 1 : s[n] \in Bags => n <= Depth /\ s[n + 1] = w.parent[s[n]]
      /\ \A n \in 0..Depth : s[n + 1] \in Bags => s[n] \in Bags
      /\ \A n \in 0..Depth : s[n] \notin Bags => s[n] = Root(w, b)
      /\ \A n \in 0..Depth : \A m \in 0..n : s[n] \in Bags => w.parent[s[n]] # s[m]
  BY <1>1, WayFacts
<1>4. \A j \in U : \E n \in 0..Depth : j = s[n] /\ s[n] \in Bags /\ w.parent[j] = s[n + 1]
  <2> SUFFICES ASSUME NEW j \in U
               PROVE  \E n \in 0..Depth : j = s[n] /\ s[n] \in Bags /\ w.parent[j] = s[n + 1]
    OBVIOUS
  <2>1. PICK n \in 0..Depth + 1 : j = s[n] /\ s[n] \in Bags
    BY <1>2
  <2>2. n \in 0..Depth
    BY <1>2, <1>3, <2>1
  <2> QED BY <1>3, <2>1, <2>2
<1>5. \A n \in 0..Depth : s[n] \in Bags => s[n] \in U
  BY <1>2
<1>6. 0 \in 0..Depth /\ b \in U /\ U \subseteq Bags
  BY <1>2, <1>5
<1>7. ASSUME NEW c \in Bags  PROVE  c \in U <=> c = b \/ \E j \in U : w.parent[j] = c
  <2>1. ASSUME c \in U, c # b  PROVE  \E j \in U : w.parent[j] = c
    <3>1. PICK n \in 0..Depth : c = s[n]
      BY <1>4, <2>1
    <3>2. n - 1 \in 0..Depth /\ (n - 1) + 1 = n /\ n - 1 \in 0..Depth + 1
      BY <1>2, <2>1, <3>1
    <3>3. s[n - 1] \in Bags
      BY <1>3, <3>1, <3>2
    <3> QED BY <1>3, <1>5, <3>1, <3>2, <3>3
  <2>2. ASSUME NEW j \in U, w.parent[j] = c  PROVE  c \in U
    <3>1. PICK n \in 0..Depth : j = s[n] /\ c = s[n + 1]
      BY <1>4, <2>2
    <3>2. n + 1 \in 0..Depth + 1
      BY <1>2
    <3> QED BY <1>2, <3>1, <3>2
  <2> QED BY <1>6, <2>1, <2>2
<1>8. ASSUME NEW j \in U  PROVE  w.parent[j] # b
  <2>1. PICK n \in 0..Depth : j = s[n] /\ s[n] \in Bags
    BY <1>4
  <2>2. 0 \in 0..n
    BY <1>2
  <2> QED BY <1>2, <1>3, <2>1, <2>2
<1>9. ASSUME NEW j \in U, NEW k \in U, w.parent[j] = w.parent[k]  PROVE  j = k
  <2>1. PICK n \in 0..Depth : j = s[n] /\ s[n] \in Bags /\ w.parent[j] = s[n + 1]
    BY <1>4
  <2>2. PICK m \in 0..Depth : k = s[m] /\ s[m] \in Bags /\ w.parent[k] = s[m + 1]
    BY <1>4
  <2>3. ASSUME m < n  PROVE FALSE
    <3>1. m + 1 \in 0..n
      BY <1>2, <2>3
    <3> QED BY <1>3, <1>9, <2>1, <2>2, <3>1
  <2>4. ASSUME n < m  PROVE FALSE
    <3>1. n + 1 \in 0..m
      BY <1>2, <2>4
    <3> QED BY <1>3, <1>9, <2>1, <2>2, <3>1
  <2>5. n = m
    BY <1>2, <2>3, <2>4
  <2> QED BY <2>1, <2>2, <2>5
<1>10. ASSUME NEW c, c \notin Bags
       PROVE  (\E j \in U : w.parent[j] = c) <=> c = Root(w, b)
  <2>1. ASSUME NEW j \in U, w.parent[j] = c  PROVE  c = Root(w, b)
    <3>1. PICK n \in 0..Depth : c = s[n + 1]
      BY <1>4, <2>1
    <3>2. CASE n + 1 = Depth + 1
      BY <1>2, <3>1, <3>2
    <3>3. CASE n + 1 # Depth + 1
      <4>1. n + 1 \in 0..Depth
        BY <1>2, <3>3
      <4> QED BY <1>3, <1>10, <3>1, <4>1
    <3> QED BY <3>2, <3>3
  <2>2. ASSUME c = Root(w, b)  PROVE  \E j \in U : w.parent[j] = c
    <3>1. PICK n \in 0..Depth : s[n] \in Bags /\ s[n + 1] \notin Bags
      <4> SUFFICES ASSUME \A n \in 0..Depth : s[n] \in Bags => s[n + 1] \in Bags
                   PROVE  FALSE
        OBVIOUS
      <4> DEFINE T == {n \in 0..Depth + 1 : s[n] \in Bags}
      <4>1. 0 \in T
        BY <1>2
      <4>2. ASSUME NEW n \in 0 + 1..Depth + 1, n - 1 \in T  PROVE  n \in T
        <5>1. n - 1 \in 0..Depth /\ (n - 1) + 1 = n /\ n \in 0..Depth + 1
          BY <1>2
        <5> QED BY <4>2, <5>1
      <4>3. 0 \in Int /\ Depth + 1 \in Int /\ Depth + 1 \in 0..Depth + 1
        BY <1>2
      <4> HIDE DEF T
      <4>4. 0..Depth + 1 \subseteq T
        BY <4>1, <4>2, <4>3, Upward
      <4> QED BY <1>2, <4>3, <4>4 DEF T
    <3>2. w.parent[s[n]] = s[n + 1] /\ s[n] \in U
      <4>1. n \in 0..Depth + 1
        BY <1>2
      <4> QED BY <1>3, <1>5, <3>1, <4>1
    <3>3. s[n + 1] = Root(w, b)
      <4>1. CASE n + 1 = Depth + 1
        BY <1>2, <4>1
      <4>2. CASE n + 1 # Depth + 1
        <5>1. n + 1 \in 0..Depth
          BY <1>2, <4>2
        <5> QED BY <1>3, <3>1, <5>1
      <4> QED BY <4>1, <4>2
    <3> QED BY <2>2, <3>2, <3>3
  <2> QED BY <2>1, <2>2
<1> QED BY <1>6, <1>7, <1>8, <1>9, <1>10

-----------------------------------------------------------------------------
(* What a cylinder really holds, and what is cached of it.                  *)
Inside(w, c) == {i \in Items : w.parent[i] = c}

Heft(w) == [i \in Items |-> Weight(w, i)]

Load(w, c) == Total(Heft(w), Inside(w, c))

WeightTypes(w) ==
  /\ PlaceTypes(w)
  /\ w.weight \in [Bags -> Int]
  /\ w.carried \in [Players -> Int]

(* Weights are numbers, and so are loads.                                   *)
LEMMA LoadFacts ==
  ASSUME NEW w, WeightTypes(w)
  PROVE  /\ \A i \in Items : Heft(w)[i] = Weight(w, i) /\ Weight(w, i) \in Int
         /\ \A c : IsFiniteSet(Inside(w, c)) /\ Load(w, c) \in Int
<1> USE WorldAssumption
<1>1. ASSUME NEW i \in Items  PROVE  Weight(w, i) \in Int
  <2>1. i \in Bags => w.weight[i] \in Int
    BY DEF WeightTypes
  <2>2. i \in Stacks => w.count[i] \in Int
    BY DEF WeightTypes, PlaceTypes
  <2> QED BY <2>1, <2>2 DEF Weight
<1>2. \A i \in Items : Heft(w)[i] = Weight(w, i)
  BY DEF Heft
<1>3. ASSUME NEW c  PROVE  IsFiniteSet(Inside(w, c)) /\ Load(w, c) \in Int
  <2>1. IsFiniteSet(Inside(w, c))
    BY FS_Subset DEF Inside
  <2>2. \A x \in Inside(w, c) : Heft(w)[x] \in Int
    BY <1>1, <1>2 DEF Inside
  <2> QED BY <2>1, <2>2, TotalFacts DEF Load
<1> QED BY <1>1, <1>2, <1>3

(* An item that changes its place or size changes two loads.                *)
LEMMA LoadDiffers ==
  ASSUME NEW w, WeightTypes(w), NEW v, WeightTypes(v), NEW k \in Items,
         \A i \in Items : i # k => v.parent[i] = w.parent[i] /\ Weight(v, i) = Weight(w, i),
         NEW c
  PROVE  Load(v, c) = (Load(w, c) - (IF c = w.parent[k] THEN Weight(w, k) ELSE 0))
                        + (IF c = v.parent[k] THEN Weight(v, k) ELSE 0)
<1> DEFINE f == Heft(w)
           g == Heft(v)
           S == Inside(w, c)
           R == Inside(v, c)
<1>1. S \in SUBSET Items /\ R \in SUBSET Items /\ S \ {k} = R \ {k}
  BY DEF Inside
<1>2. \A i \in Items : f[i] \in Int /\ g[i] \in Int /\ (i # k => f[i] = g[i])
  BY LoadFacts
<1>3. f[k] = Weight(w, k) /\ g[k] = Weight(v, k)
  BY LoadFacts
<1>4. k \in S <=> c = w.parent[k]
  BY DEF Inside
<1>5. k \in R <=> c = v.parent[k]
  BY DEF Inside
<1>6. Load(w, c) = Total(f, S) /\ Load(v, c) = Total(g, R)
  BY DEF Load
<1>7. IsFiniteSet(Items)
  BY WorldAssumption
<1> HIDE DEF f, g, S, R
<1>8. Total(g, R) = (Total(f, S) - Part(f, S, k)) + Part(g, R, k)
  BY <1>1, <1>2, <1>7, TotalDiffers
<1>9. /\ Part(f, S, k) = IF c = w.parent[k] THEN Weight(w, k) ELSE 0
      /\ Part(g, R, k) = IF c = v.parent[k] THEN Weight(v, k) ELSE 0
  BY <1>3, <1>4, <1>5 DEF Part
<1> QED BY <1>6, <1>8, <1>9

(* Only places, sizes and cached weights count.                             *)
LEMMA LoadSame ==
  ASSUME NEW w, NEW v, SamePlaces(w, v), v.weight = w.weight, NEW c
  PROVE  Load(v, c) = Load(w, c)
<1>1. \A i \in Items : Weight(v, i) = Weight(w, i)
  BY DEF SamePlaces, Weight
<1>2. Heft(v) = Heft(w)
  BY <1>1 DEF Heft
<1>3. Inside(v, c) = Inside(w, c)
  BY DEF Inside, SamePlaces
<1> QED BY <1>2, <1>3 DEF Load

(* Container::updateItemWeight raises the loads of what is around b by diff,  *)
(* and their cached weights with them.                                      *)
LEMMA LoadShift ==
  ASSUME NEW w, WeightTypes(w), NoKnot(w), NEW b \in Bags, NEW diff \in Int,
         NEW U, U = Around(w, b), NEW v, v = UpdateItemWeight(w, b, diff)
  PROVE  /\ WeightTypes(v) /\ SamePlaces(w, v) /\ v.carried = w.carried
         /\ \A c \in Bags : v.weight[c] = IF c \in U THEN w.weight[c] + diff ELSE w.weight[c]
         /\ \A c : Load(v, c) = IF \E j \in U : w.parent[j] = c
                                THEN Load(w, c) + diff ELSE Load(w, c)
<1>1. ItemFields \subseteq DOMAIN w /\ w.weight \in [Bags -> Int] /\ ParentTypes(w)
  BY DEF WeightTypes, PlaceTypes
<1>2. SamePlaces(w, v) /\ v.carried = w.carried
  BY <1>1 DEF UpdateItemWeight, SamePlaces, ItemFields
<1>3. v.weight = [c \in Bags |-> IF c = b \/ Holds(w, c, b) THEN w.weight[c] + diff
                                 ELSE w.weight[c]]
  BY <1>1 DEF UpdateItemWeight, ItemFields
<1>4. \A c \in Bags : c \in U <=> c = b \/ Holds(w, c, b)
  BY DEF Around
<1>5. \A c \in Bags : v.weight[c] = IF c \in U THEN w.weight[c] + diff ELSE w.weight[c]
  BY <1>3, <1>4
<1>6. v.weight \in [Bags -> Int]
  BY <1>1, <1>3
<1>7. WeightTypes(v)
  BY <1>2, <1>6 DEF WeightTypes, PlaceTypes, SamePlaces, ParentTypes
<1>8. /\ U \subseteq Bags
      /\ \A j, k \in U : w.parent[j] = w.parent[k] => j = k
  BY <1>1, AroundFacts
<1>9. ASSUME NEW j \in Items
      PROVE  /\ v.parent[j] = w.parent[j]
             /\ Weight(v, j) = IF j \in U THEN Weight(w, j) + diff ELSE Weight(w, j)
  <2>1. j \in Bags => w.weight[j] \in Int /\ Weight(w, j) = 1 + w.weight[j]
                      /\ Weight(v, j) = 1 + v.weight[j]
    BY <1>1 DEF Weight
  <2>2. j \notin Bags => Weight(v, j) = Weight(w, j) /\ j \notin U
    BY <1>2, <1>8 DEF Weight, SamePlaces
  <2>3. v.parent[j] = w.parent[j]
    BY <1>2 DEF SamePlaces
  <2> QED BY <1>5, <2>1, <2>2, <2>3
<1>10. ASSUME NEW c, NEW k \in U, w.parent[k] = c  PROVE  Load(v, c) = Load(w, c) + diff
  <2> DEFINE f == Heft(w)
             g == Heft(v)
             S == Inside(w, c)
  <2>1. /\ S \in SUBSET Items /\ IsFiniteSet(S) /\ k \in S /\ S \ {k} = S \ {k}
        /\ S \in SUBSET S
    <3>1. IsFiniteSet(S)
      BY LoadFacts
    <3>2. k \in Items
      BY <1>8 DEF Items
    <3>3. S \subseteq Items /\ k \in S
      BY <1>10, <3>2 DEF Inside
    <3> QED BY <3>1, <3>3
  <2>2. \A i \in S : f[i] \in Int /\ g[i] \in Int /\ (i # k => f[i] = g[i])
    <3> SUFFICES ASSUME NEW i \in S  PROVE f[i] \in Int /\ g[i] \in Int /\ (i # k => f[i] = g[i])
      OBVIOUS
    <3>1. i \in Items /\ w.parent[i] = c
      BY DEF Inside
    <3>2. i # k => i \notin U
      BY <1>8, <1>10, <3>1
    <3>3. /\ f[i] = Weight(w, i) /\ g[i] = Weight(v, i)
          /\ Weight(w, i) \in Int /\ Weight(v, i) \in Int
      BY <1>7, <3>1, LoadFacts
    <3> QED BY <1>9, <3>1, <3>2, <3>3
  <2>3. Part(f, S, k) = Weight(w, k) /\ Part(g, S, k) = Weight(w, k) + diff
        /\ Weight(w, k) \in Int
    <3>1. k \in Items
      BY <2>1
    <3>2. f[k] = Weight(w, k) /\ g[k] = Weight(v, k) /\ Weight(w, k) \in Int
      BY <1>7, <3>1, LoadFacts
    <3> QED BY <1>9, <1>10, <2>1, <3>1, <3>2 DEF Part
  <2>4. Load(w, c) = Total(f, S) /\ Load(v, c) = Total(g, S) /\ Load(w, c) \in Int
    <3>1. Inside(v, c) = S
      BY <1>9 DEF Inside
    <3> QED BY <3>1, LoadFacts DEF Load
  <2> HIDE DEF f, g, S
  <2>5. Total(g, S) = (Total(f, S) - Part(f, S, k)) + Part(g, S, k)
    BY <2>1, <2>2, TotalDiffers
  <2> QED BY <2>3, <2>4, <2>5
<1>11. ASSUME NEW c, ~\E j \in U : w.parent[j] = c  PROVE  Load(v, c) = Load(w, c)
  <2> DEFINE f == Heft(w)
             g == Heft(v)
             S == Inside(w, c)
  <2>1. \A i \in S : f[i] \in Int /\ f[i] = g[i]
    <3> SUFFICES ASSUME NEW i \in S  PROVE f[i] \in Int /\ f[i] = g[i]
      OBVIOUS
    <3>1. i \in Items /\ w.parent[i] = c
      BY DEF Inside
    <3>2. i \notin U
      BY <1>11, <3>1
    <3>3. f[i] = Weight(w, i) /\ g[i] = Weight(v, i) /\ Weight(w, i) \in Int
      BY <1>7, <3>1, LoadFacts
    <3> QED BY <1>9, <3>1, <3>2, <3>3
  <2>2. IsFiniteSet(S)
    BY LoadFacts
  <2>3. Load(w, c) = Total(f, S) /\ Load(v, c) = Total(g, S)
    <3>1. Inside(v, c) = S
      BY <1>9 DEF Inside
    <3> QED BY <3>1 DEF Load
  <2> HIDE DEF f, g, S
  <2>4. Total(f, S) = Total(g, S)
    BY <2>1, <2>2, TotalSame
  <2> QED BY <2>3, <2>4
<1>12. ASSUME NEW c
       PROVE  Load(v, c) = IF \E j \in U : w.parent[j] = c THEN Load(w, c) + diff ELSE Load(w, c)
  BY <1>10, <1>11
<1> QED BY <1>2, <1>5, <1>7, <1>12

(* The cached weights of containers are right.                              *)
BagsWeighed(w) == \A b \in Bags : w.weight[b] = Load(w, b)

(* If they were but for diff in b, updateItemWeight puts them all right.    *)
LEMMA Reweighed ==
  ASSUME NEW w, WeightTypes(w), NoKnot(w), NEW b \in Bags, NEW diff \in Int,
         \A c \in Bags : Load(w, c) = IF c = b THEN w.weight[c] + diff ELSE w.weight[c],
         NEW v, v = UpdateItemWeight(w, b, diff)
  PROVE  /\ WeightTypes(v) /\ SamePlaces(w, v) /\ v.carried = w.carried
         /\ BagsWeighed(v)
         /\ \A p \in Players : Load(v, p) = IF p = Root(w, b) THEN Load(w, p) + diff
                                            ELSE Load(w, p)
         /\ \A c \in Bags : c \notin Around(w, b) => v.weight[c] = w.weight[c]
<1> DEFINE U == Around(w, b)
<1>1. ParentTypes(w)
  BY DEF WeightTypes, PlaceTypes
<1>2. /\ \A c \in Bags : c \in U <=> c = b \/ \E j \in U : w.parent[j] = c
      /\ \A j \in U : w.parent[j] # b
      /\ \A c : c \notin Bags => ((\E j \in U : w.parent[j] = c) <=> c = Root(w, b))
  BY <1>1, AroundFacts
<1>3. /\ WeightTypes(v) /\ SamePlaces(w, v) /\ v.carried = w.carried
      /\ \A c \in Bags : v.weight[c] = IF c \in U THEN w.weight[c] + diff ELSE w.weight[c]
      /\ \A c : Load(v, c) = IF \E j \in U : w.parent[j] = c
                             THEN Load(w, c) + diff ELSE Load(w, c)
  BY LoadShift
<1>7. \A c \in Bags : c \notin Around(w, b) => v.weight[c] = w.weight[c]
  BY <1>3
<1> HIDE DEF U
<1>4. BagsWeighed(v)
  <2> SUFFICES ASSUME NEW c \in Bags  PROVE v.weight[c] = Load(v, c)
    BY DEF BagsWeighed
  <2>1. CASE c = b
    BY <1>2, <1>3, <2>1
  <2>2. CASE c # b
    BY <1>2, <1>3, <2>2
  <2> QED BY <2>1, <2>2
<1>5. \A p \in Players : p \notin Bags
  BY WorldAssumption DEF Items
<1>6. \A p \in Players : Load(v, p) = IF p = Root(w, b) THEN Load(w, p) + diff ELSE Load(w, p)
  BY <1>2, <1>3, <1>5
<1> QED BY <1>3, <1>4, <1>6, <1>7

-----------------------------------------------------------------------------
(* Who holds a cylinder.                                                    *)

(* What is around b, and its root, depend on what is around b.              *)
LEMMA AroundKept ==
  ASSUME NEW w, ParentTypes(w), NEW v, ParentTypes(v), NEW b \in Bags,
         NEW U \in SUBSET Bags, b \in U,
         \A y \in U : v.parent[y] = w.parent[y] /\ (w.parent[y] \in Bags => w.parent[y] \in U)
  PROVE  Root(v, b) = Root(w, b) /\ Around(v, b) = Around(w, b)
<1> DEFINE a == Above(w, b)
           e == Above(v, b)
           T == {n \in 0..Depth : e[n] = a[n] /\ (a[n] \in Bags => a[n] \in U)}
<1>1. b \in Items
  BY DEF Items
<1>2. /\ Depth \in Nat /\ a[0] = w.parent[b]
      /\ \A n \in 1..Depth :
           a[n] = IF a[n - 1] \in Bags THEN w.parent[a[n - 1]] ELSE a[n - 1]
  BY <1>1, AboveFacts
<1>3. /\ e[0] = v.parent[b]
      /\ \A n \in 1..Depth :
           e[n] = IF e[n - 1] \in Bags THEN v.parent[e[n - 1]] ELSE e[n - 1]
  BY <1>1, AboveFacts
<1>4. /\ Root(w, b) = a[Depth] /\ Root(v, b) = e[Depth]
      /\ Around(w, b) = {c \in Bags : c = b \/ \E n \in 0..Depth : a[n] = c}
      /\ Around(v, b) = {c \in Bags : c = b \/ \E n \in 0..Depth : e[n] = c}
  BY DEF Root, Depth, Around, Holds
<1> HIDE DEF a, e
<1>5. 0 \in T
  BY <1>2, <1>3
<1>6. ASSUME NEW n \in 0 + 1..Depth, n - 1 \in T  PROVE  n \in T
  <2>1. n \in 1..Depth /\ n \in 0..Depth
    BY <1>2
  <2>2. e[n - 1] = a[n - 1] /\ (a[n - 1] \in Bags => a[n - 1] \in U)
    BY <1>6
  <2>3. CASE a[n - 1] \in Bags
    BY <1>2, <1>3, <2>1, <2>2, <2>3
  <2>4. CASE a[n - 1] \notin Bags
    BY <1>2, <1>3, <2>1, <2>2, <2>4
  <2> QED BY <2>3, <2>4
<1>7. 0 \in Int /\ Depth \in Int /\ Depth \in 0..Depth
  BY <1>2
<1> HIDE DEF T
<1>8. 0..Depth \subseteq T
  BY <1>5, <1>6, <1>7, Upward
<1>9. \A n \in 0..Depth : e[n] = a[n]
  BY <1>8 DEF T
<1> QED BY <1>4, <1>7, <1>9

(* So they stay while an item moves that is not around b.                   *)
LEMMA HolderKept ==
  ASSUME NEW w, ParentTypes(w), NEW v, ParentTypes(v), NEW i \in Items, NEW c \in Places,
         \A j \in Bags : j # i => v.parent[j] = w.parent[j],
         c \in Bags /\ i \in Bags => Clear(w, c, i)
  PROVE  /\ Holder(v, c) = Holder(w, c)
         /\ c \in Bags => Root(v, c) = Root(w, c) /\ Around(v, c) = Around(w, c)
<1>1. ASSUME c \in Bags  PROVE Root(v, c) = Root(w, c) /\ Around(v, c) = Around(w, c)
  <2>1. CASE i \in Bags
    <3>1. PICK U \in SUBSET Bags : /\ c \in U /\ i \notin U
                                   /\ \A y \in U : w.parent[y] \in Bags => w.parent[y] \in U
      BY <1>1, <2>1 DEF Clear
    <3>2. \A y \in U : v.parent[y] = w.parent[y]
      BY <3>1
    <3> QED BY <1>1, <3>1, <3>2, AroundKept
  <2>2. CASE i \notin Bags
    <3>1. \A y \in Bags : v.parent[y] = w.parent[y]
      BY <2>2
    <3>2. Bags \in SUBSET Bags
      OBVIOUS
    <3> QED BY <1>1, <3>1, <3>2, AroundKept
  <2> QED BY <2>1, <2>2
<1> QED BY <1>1 DEF Holder

(* No item is around the container that it is in.                           *)
LEMMA ParentClear ==
  ASSUME NEW w, ParentTypes(w), NoKnot(w), NEW i \in Items, NEW c, c = w.parent[i]
  PROVE  c \in Bags /\ i \in Bags => Clear(w, c, i)
<1> SUFFICES ASSUME c \in Bags, i \in Bags  PROVE Clear(w, c, i)
  OBVIOUS
<1>1. i \notin Around(w, c)
  BY AroundFacts
<1>2. i # c /\ ~Holds(w, i, c)
  BY <1>1 DEF Around
<1> QED BY <1>2, ClearFacts

-----------------------------------------------------------------------------
(* The operations on a cylinder c, when the weights of containers are right.  *)

(* They are right again in v, and who holds c has diff more to carry.  No    *)
(* container that is not around c has another weight.                       *)
Loaded(w, v, c, diff) ==
  /\ WeightTypes(v) /\ BagsWeighed(v) /\ v.carried = w.carried
  /\ \A p \in Players : Load(v, p) = IF p = Holder(w, c) THEN Load(w, p) + diff
                                     ELSE Load(w, p)
  /\ \A b \in Bags : (c \in Bags => b \notin Around(w, c)) => v.weight[b] = w.weight[b]

(* x is v before the containers around c were told.                         *)
Untold(w, x, v, c, diff) ==
  /\ ItemFields \subseteq DOMAIN x /\ SamePlaces(x, v)
  /\ x.weight = w.weight /\ x.carried = w.carried
  /\ IF c \in Bags THEN SameItems(UpdateItemWeight(x, c, diff), v) ELSE SameItems(x, v)

(* If only c lost or gained by what was done, all is right.                 *)
LEMMA ToldFacts ==
  ASSUME NEW w, WeightTypes(w), BagsWeighed(w), NEW c \in Places, NEW diff \in Int,
         NEW x, WeightTypes(x), NoKnot(x),
         \A d \in Places : Load(x, d) = IF d = c THEN Load(w, d) + diff ELSE Load(w, d),
         c \in Bags => Root(x, c) = Root(w, c) /\ Around(x, c) = Around(w, c),
         NEW v, Untold(w, x, v, c, diff)
  PROVE  Loaded(w, v, c, diff)
<1> USE WorldAssumption
<1>1. /\ x.weight = w.weight /\ x.carried = w.carried
      /\ \A b \in Bags : w.weight[b] = Load(w, b)
  BY DEF Untold, BagsWeighed
<1>2. CASE c \in Bags
  <2> DEFINE y == UpdateItemWeight(x, c, diff)
  <2>1. \A b \in Bags : Load(x, b) = IF b = c THEN x.weight[b] + diff ELSE x.weight[b]
    BY <1>1 DEF Places
  <2>2. /\ WeightTypes(y) /\ SamePlaces(x, y) /\ y.carried = x.carried
        /\ BagsWeighed(y)
        /\ \A p \in Players : Load(y, p) = IF p = Root(x, c) THEN Load(x, p) + diff
                                           ELSE Load(x, p)
        /\ \A b \in Bags : b \notin Around(x, c) => y.weight[b] = x.weight[b]
    BY <1>2, <2>1, Reweighed
  <2>3. SameItems(y, v)
    BY <1>2 DEF Untold
  <2> HIDE DEF y
  <2>4. SamePlaces(y, v) /\ v.weight = y.weight /\ v.carried = y.carried
    BY <2>3 DEF SameItems
  <2>5. \A d : Load(v, d) = Load(y, d)
    BY <2>4, LoadSame
  <2>6. WeightTypes(v)
    BY <2>2, <2>4 DEF WeightTypes, PlaceTypes, SamePlaces, ParentTypes
  <2>7. BagsWeighed(v)
    BY <2>2, <2>4, <2>5 DEF BagsWeighed
  <2>8. ASSUME NEW p \in Players
        PROVE  Load(v, p) = IF p = Holder(w, c) THEN Load(w, p) + diff ELSE Load(w, p)
    <3>1. p # c /\ c \notin Players
      BY <1>2 DEF Items
    <3>2. p = Holder(w, c) <=> p = Root(x, c)
      BY <1>2, <3>1 DEF Holder
    <3>3. Load(x, p) = Load(w, p)
      BY <3>1 DEF Places
    <3> QED BY <2>2, <2>5, <3>2, <3>3
  <2>9. \A b \in Bags : b \notin Around(w, c) => v.weight[b] = w.weight[b]
    BY <1>1, <1>2, <2>2, <2>4
  <2> QED BY <1>1, <1>2, <2>2, <2>4, <2>6, <2>7, <2>8, <2>9 DEF Loaded
<1>3. CASE c \notin Bags
  <2>1. SamePlaces(x, v) /\ v.weight = x.weight /\ v.carried = x.carried
    BY <1>3 DEF Untold, SameItems
  <2>2. \A d : Load(v, d) = Load(x, d)
    BY <2>1, LoadSame
  <2>3. WeightTypes(v)
    BY <2>1 DEF WeightTypes, PlaceTypes, SamePlaces, ParentTypes
  <2>4. BagsWeighed(v)
    <3> SUFFICES ASSUME NEW b \in Bags  PROVE v.weight[b] = Load(v, b)
      BY DEF BagsWeighed
    <3>1. b # c /\ b \in Places
      BY <1>3 DEF Places
    <3> QED BY <1>1, <2>1, <2>2, <3>1
  <2>5. ASSUME NEW p \in Players
        PROVE  Load(v, p) = IF p = Holder(w, c) THEN Load(w, p) + diff ELSE Load(w, p)
    <3>1. p = Holder(w, c) <=> p = c
      BY <1>3 DEF Holder
    <3>2. p \in Places
      BY DEF Places
    <3> QED BY <2>2, <3>1, <3>2
  <2> QED BY <1>1, <2>1, <2>3, <2>4, <2>5 DEF Loaded
<1> QED BY <1>2, <1>3

(* What happened to k, which came to c, went from it or changed its size.    *)
Changed(w, v, c, k, diff) ==
  \/ w.parent[k] = c /\ v.parent[k] = Nowhere /\ diff = -Weight(w, k)
  \/ w.parent[k] = Nowhere /\ v.parent[k] = c /\ v.count = w.count /\ diff = Weight(w, k)
  \/ w.parent[k] = c /\ v.parent[k] = c /\ k \in Stacks /\ diff = v.count[k] - w.count[k]

(* Only the load of c is another one then, but for those around it.         *)
LEMMA ChangeLoaded ==
  ASSUME NEW w, Laid(w), WeightTypes(w), BagsWeighed(w), NEW c \in Places, NEW k \in Items,
         NEW v, Laid(v), NEW diff, Changed(w, v, c, k, diff), NEW x, Untold(w, x, v, c, diff),
         \A j \in Items : j # k => v.parent[j] = w.parent[j],
         \A j \in Stacks : j # k => v.count[j] = w.count[j],
         c \in Bags /\ k \in Bags => Clear(w, c, k)
  PROVE  Loaded(w, v, c, diff)
<1> USE WorldAssumption
<1>1. /\ ItemFields \subseteq DOMAIN x
      /\ x.parent = v.parent /\ x.count = v.count /\ x.list = v.list /\ x.slot = v.slot
      /\ x.weight = w.weight /\ x.carried = w.carried
  BY DEF Untold, SamePlaces
<1>2. WeightTypes(x) /\ NoKnot(x)
  BY <1>1 DEF WeightTypes, Laid, PlaceTypes, ParentTypes, NoKnot
<1>3. ASSUME NEW j \in Items, j # k  PROVE  x.parent[j] = w.parent[j] /\ Weight(x, j) = Weight(w, j)
  BY <1>1, <1>3 DEF Weight
<1>4. Nowhere \notin Places
  BY DEF Places, Items
<1>5. Weight(w, k) \in Int /\ Weight(x, k) \in Int
  BY <1>2, LoadFacts
<1>6. k \in Stacks => Weight(w, k) = w.count[k] /\ Weight(x, k) = v.count[k]
  BY <1>1 DEF Weight
<1>7. v.count = w.count => Weight(x, k) = Weight(w, k)
  BY <1>1 DEF Weight
<1>8. diff \in Int
  BY <1>5, <1>6 DEF Changed
<1>9. ASSUME NEW d \in Places
      PROVE  Load(x, d) = IF d = c THEN Load(w, d) + diff ELSE Load(w, d)
  <2>1. Load(x, d) = (Load(w, d) - (IF d = w.parent[k] THEN Weight(w, k) ELSE 0))
                       + (IF d = x.parent[k] THEN Weight(x, k) ELSE 0)
    BY <1>2, <1>3, LoadDiffers
  <2>2. Load(w, d) \in Int /\ d # Nowhere /\ c # Nowhere
    BY <1>4, LoadFacts
  <2>3. CASE w.parent[k] = c /\ v.parent[k] = Nowhere /\ diff = -Weight(w, k)
    BY <1>1, <1>5, <2>1, <2>2, <2>3
  <2>4. CASE w.parent[k] = Nowhere /\ v.parent[k] = c /\ v.count = w.count /\ diff = Weight(w, k)
    BY <1>1, <1>5, <1>7, <2>1, <2>2, <2>4
  <2>5. CASE w.parent[k] = c /\ v.parent[k] = c /\ k \in Stacks /\ diff = v.count[k] - w.count[k]
    BY <1>1, <1>5, <1>6, <2>1, <2>2, <2>5
  <2> QED BY <2>3, <2>4, <2>5 DEF Changed
<1>10. c \in Bags => Root(x, c) = Root(w, c) /\ Around(x, c) = Around(w, c)
  <2>1. ParentTypes(w) /\ ParentTypes(x)
    BY <1>2 DEF WeightTypes, PlaceTypes
  <2>2. \A j \in Bags : j # k => x.parent[j] = w.parent[j]
    BY <1>3 DEF Items
  <2> QED BY <2>1, <2>2, HolderKept
<1> QED BY <1>2, <1>8, <1>9, <1>10, ToldFacts

(* __removeThing of a whole item.                                           *)
LEMMA RemoveLoads ==
  ASSUME NEW w, Laid(w), WeightTypes(w), BagsWeighed(w), NEW i \in Items,
         NEW c, c = w.parent[i], c # Nowhere, NEW n, i \in Stacks => n = w.count[i],
         NEW v, v = RemoveThing(w, c, i, n)
  PROVE  Loaded(w, v, c, -Weight(w, i))
<1> USE WorldAssumption
<1>1. /\ ItemFields \subseteq DOMAIN w /\ ParentTypes(w) /\ NoKnot(w) /\ c \in Places
      /\ w.count \in [Stacks -> 0..StackMax]
  BY DEF Laid, PlaceTypes, ParentTypes
<1>2. TakenOut(w, v, i)
  BY RemoveFacts
<1>3. Laid(v)
  BY <1>2, TakenOutLaid
<1>4. /\ v.parent[i] = Nowhere /\ v.count = w.count
      /\ \A j \in Items : j # i => v.parent[j] = w.parent[j]
  BY <1>1, <1>2 DEF TakenOut, ParentTypes
<1>5. c \in Bags /\ i \in Bags => Clear(w, c, i)
  BY <1>1, ParentClear
<1>6. \E x : Untold(w, x, v, c, -Weight(w, i))
  <2>1. CASE c \in Bags
    <3> DEFINE u == NotifyRemove(w, c, i)
               k == IndexOf(w, c, i) + 1
               x == [u EXCEPT !.parent[i] = Nowhere, !.list[c] = RemoveAt(@, k)]
    <3>1. v = UpdateItemWeight(x, c, -Weight(w, i))
      <4>1. c \notin Players
        BY <2>1 DEF Items
      <4> QED BY <2>1, <4>1 DEF RemoveThing, BagRemoveThing
    <3>2. SameItems(w, u)
      BY <1>1, NotifySame
    <3> HIDE DEF u, k
    <3>3. /\ ItemFields \subseteq DOMAIN x
          /\ x.weight = w.weight /\ x.carried = w.carried
      BY <3>2 DEF SameItems, SamePlaces, ItemFields
    <3> HIDE DEF x
    <3>4. SamePlaces(x, v)
      BY <3>1, <3>3, WeightSame
    <3>5. SameItems(UpdateItemWeight(x, c, -Weight(w, i)), v)
      BY <3>1, <3>4 DEF SameItems, SamePlaces
    <3> QED BY <2>1, <3>3, <3>4, <3>5 DEF Untold
  <2>2. CASE c \notin Bags
    <3>1. v.weight = w.weight /\ v.carried = w.carried
      <4>1. CASE c \in Players
        <5> DEFINE u == NotifyRemove(w, c, i)
                   s == IndexOf(w, c, i)
        <5>1. v = [u EXCEPT !.parent[i] = Nowhere, !.slot[c][s] = NoItem]
          BY <4>1 DEF RemoveThing, PlayerRemoveThing
        <5>2. SameItems(w, u)
          BY <1>1, NotifySame
        <5> HIDE DEF u, s
        <5> QED BY <5>1, <5>2 DEF SameItems, SamePlaces, ItemFields
      <4>2. CASE c \notin Players
        <5> DEFINE k == IndexOf(w, c, i) + 1
                   x == [w EXCEPT !.parent[i] = Nowhere, !.list[c] = RemoveAt(@, k)]
        <5>1. v = NotifyRemove(x, c, i)
          BY <2>2, <4>2 DEF RemoveThing, TileRemoveThing
        <5> HIDE DEF k
        <5>2. /\ ItemFields \subseteq DOMAIN x
              /\ x.weight = w.weight /\ x.carried = w.carried
          BY <1>1 DEF ItemFields
        <5> HIDE DEF x
        <5> QED BY <5>1, <5>2, NotifySame DEF SameItems
      <4> QED BY <4>1, <4>2
    <3> QED BY <1>2, <2>2, <3>1 DEF Untold, SameItems, SamePlaces, TakenOut
  <2> QED BY <2>1, <2>2
<1>7. Changed(w, v, c, i, -Weight(w, i))
  BY <1>4 DEF Changed
<1> QED BY <1>1, <1>3, <1>4, <1>5, <1>6, <1>7, ChangeLoaded

(* __addThing, where there is room.                                         *)
LEMMA AddLoads ==
  ASSUME NEW w, Laid(w), WeightTypes(w), BagsWeighed(w), NEW i \in Items, w.parent[i] = Nowhere,
         NEW c \in Places, c \in Bags /\ i \in Bags => Clear(w, c, i),
         NEW index \in Int, FreeAt(w, c, index),
         NEW v, v = AddThing(w, c, index, i)
  PROVE  Loaded(w, v, c, Weight(w, i))
<1> USE WorldAssumption
<1>1. ItemFields \subseteq DOMAIN w /\ ParentTypes(w)
  BY DEF Laid, PlaceTypes
<1>2. PutIn(w, v, c, index, i)
  BY AddFacts
<1>3. Laid(v)
  BY <1>2, PutInLaid
<1>4. /\ v.parent[i] = c /\ v.count = w.count
      /\ \A j \in Items : j # i => v.parent[j] = w.parent[j]
  BY <1>1, <1>2 DEF PutIn, ParentTypes
<1>5. \E x : Untold(w, x, v, c, Weight(w, i))
  <2>1. CASE c \in Bags
    <3> DEFINE x == [w EXCEPT !.parent[i] = c, !.list[c] = <<i>> \o @]
               y == UpdateItemWeight(x, c, Weight(w, i))
    <3>1. v = NotifyAdd(y, c, i)
      <4>1. c \notin Players /\ ~(index >= Room)
        BY <2>1 DEF FreeAt, Items
      <4> QED BY <2>1, <4>1 DEF AddThing, BagAddThing
    <3>2. /\ ItemFields \subseteq DOMAIN x
          /\ x.weight = w.weight /\ x.carried = w.carried
      BY <1>1 DEF ItemFields
    <3> HIDE DEF x
    <3>3. SamePlaces(x, y)
      BY <3>2, WeightSame
    <3>4. SameItems(y, v)
      BY <3>1, <3>3, NotifySame DEF SamePlaces
    <3>5. SamePlaces(x, v)
      BY <3>3, <3>4 DEF SamePlaces, SameItems
    <3> QED BY <2>1, <3>2, <3>4, <3>5 DEF Untold
  <2>2. CASE c \notin Bags
    <3>1. v.weight = w.weight /\ v.carried = w.carried
      <4>1. CASE c \in Players
        <5>1. v = w \/ v = [w EXCEPT !.parent[i] = c, !.slot[c][index] = i]
          BY <4>1 DEF AddThing, PlayerAddThing
        <5> QED BY <1>1, <5>1 DEF ItemFields
      <4>2. CASE c \notin Players
        <5>1. v = [w EXCEPT !.parent[i] = c, !.list[c] = <<i>> \o @]
          BY <2>2, <4>2 DEF AddThing, TileAddThing
        <5> QED BY <1>1, <5>1 DEF ItemFields
      <4> QED BY <4>1, <4>2
    <3> QED BY <1>2, <2>2, <3>1 DEF Untold, SameItems, SamePlaces, PutIn
  <2> QED BY <2>1, <2>2
<1>6. Changed(w, v, c, i, Weight(w, i))
  BY <1>4 DEF Changed
<1> QED BY <1>3, <1>4, <1>5, <1>6, ChangeLoaded

(* __updateThing, and the removal of a part of a stack.                     *)
LEMMA UpdateLoads ==
  ASSUME NEW w, Laid(w), WeightTypes(w), BagsWeighed(w), NEW i \in Stacks,
         NEW c, c = w.parent[i], c # Nowhere, NEW n \in 0..StackMax,
         NEW v, v = UpdateThing(w, c, i, n)
  PROVE  Loaded(w, v, c, n - w.count[i])
<1> USE WorldAssumption
<1>1. /\ ItemFields \subseteq DOMAIN w /\ ParentTypes(w) /\ i \in Items /\ c \in Places
      /\ w.count \in [Stacks -> 0..StackMax] /\ i \notin Bags
  BY DEF Laid, PlaceTypes, ParentTypes, Items
<1>2. Recounted(w, v, i, n)
  BY <1>1, UpdateFacts
<1>3. v.count \in [Stacks -> 0..StackMax] /\ v.count[i] = n
      /\ \A j \in Stacks : j # i => v.count[j] = w.count[j]
  BY <1>1, <1>2 DEF Recounted
<1>4. Laid(v)
  BY <1>2, <1>3, CountLaid DEF Recounted
<1> DEFINE diff == n - w.count[i]
<1>5. \E x : Untold(w, x, v, c, diff)
  <2> DEFINE x == [w EXCEPT !.count[i] = n]
             y == UpdateItemWeight(x, c, diff)
  <2>1. v = IF c \in Bags THEN NotifyUpdate(y, c, i) ELSE NotifyUpdate(x, c, i)
    BY DEF UpdateThing, BagUpdateThing
  <2> HIDE DEF diff
  <2>2. /\ ItemFields \subseteq DOMAIN x
        /\ x.weight = w.weight /\ x.carried = w.carried
    BY <1>1 DEF ItemFields
  <2> HIDE DEF x
  <2>3. SamePlaces(x, y)
    BY <2>2, WeightSame
  <2> HIDE DEF y
  <2>4. CASE c \in Bags
    <3>1. SameItems(y, v)
      BY <2>1, <2>3, <2>4, NotifySame DEF SamePlaces
    <3>2. SamePlaces(x, v)
      BY <2>3, <3>1 DEF SamePlaces, SameItems
    <3> QED BY <2>2, <2>4, <3>1, <3>2 DEF Untold, y
  <2>5. CASE c \notin Bags
    <3>1. SameItems(x, v)
      BY <2>1, <2>2, <2>5, NotifySame
    <3> QED BY <2>2, <2>5, <3>1 DEF Untold, SameItems
  <2> QED BY <2>4, <2>5
<1>6. /\ v.parent[i] = c
      /\ \A j \in Items : j # i => v.parent[j] = w.parent[j]
  BY <1>2 DEF Recounted
<1>7. Changed(w, v, c, i, diff)
  BY <1>3, <1>6 DEF Changed
<1> HIDE DEF diff
<1>8. Loaded(w, v, c, diff)
  BY <1>1, <1>3, <1>4, <1>5, <1>6, <1>7, ChangeLoaded
<1> QED BY <1>8 DEF diff


-----------------------------------------------------------------------------
(* The steps of a transfer, and the loads.                                  *)

(* The size of a stack that is nowhere does not matter.                     *)
LEMMA RecountNowhere ==
  ASSUME NEW w, WeightTypes(w), NEW v, WeightTypes(v), NEW o \in Stacks, w.parent[o] = Nowhere,
         v.parent = w.parent, v.weight = w.weight,
         \A j \in Stacks : j # o => v.count[j] = w.count[j], NEW c \in Places
  PROVE  Load(v, c) = Load(w, c)
<1> USE WorldAssumption
<1>1. o \in Items /\ c # Nowhere
  BY DEF Items, Places
<1>2. \A j \in Items : j # o => v.parent[j] = w.parent[j] /\ Weight(v, j) = Weight(w, j)
  BY DEF Weight
<1>3. Load(v, c) = (Load(w, c) - (IF c = w.parent[o] THEN Weight(w, o) ELSE 0))
                     + (IF c = v.parent[o] THEN Weight(v, o) ELSE 0)
  BY <1>1, <1>2, LoadDiffers
<1>4. Load(w, c) \in Int
  BY LoadFacts
<1> QED BY <1>1, <1>3, <1>4

(* Nor does what keeps all loads.                                           *)
LEMMA LoadedSame ==
  ASSUME NEW w, NEW u, NEW c, NEW diff, Loaded(w, u, c, diff), NEW v, WeightTypes(v),
         v.weight = u.weight, v.carried = u.carried, \A d \in Places : Load(v, d) = Load(u, d)
  PROVE  Loaded(w, v, c, diff)
<1>1. \A p \in Players : Load(v, p) = Load(u, p)
  BY DEF Places
<1>2. \A b \in Bags : Load(v, b) = Load(u, b)
  BY DEF Places
<1> QED BY <1>1, <1>2 DEF Loaded, BagsWeighed

(* The weight of m of i.                                                    *)
Moving(w, i, m) == IF i \in Stacks THEN m ELSE Weight(w, i)

(* What departs is no load of where it was.                                 *)
LEMMA DepartLoads ==
  ASSUME NEW w, Laid(w), WeightTypes(w), BagsWeighed(w), NEW i \in Items,
         NEW c, c = w.parent[i], c # Nowhere, NEW m \in 1..ItemCount(w, i),
         NEW u, u = Depart(w, c, i, m)
  PROVE  Loaded(w, u, c, -Moving(w, i, m))
<1> USE WorldAssumption
<1> DEFINE r == RemoveThing(w, c, i, m)
<1>1. /\ w.count \in [Stacks -> 0..StackMax] /\ ItemFields \subseteq DOMAIN w
      /\ StackMax \in Nat
  BY DEF Laid, PlaceTypes
<1>2. u = [r EXCEPT !.count = IF i \in Stacks /\ m = w.count[i]
                              THEN [r.count EXCEPT ![i] = 0] ELSE r.count]
  BY DEF Depart
<1>3. CASE Whole(w, i, m)
  <2>1. TakenOut(w, r, i)
    BY <1>3, RemoveFacts DEF Whole
  <2>2. r.count = w.count /\ ItemFields \subseteq DOMAIN r /\ r.parent[i] = Nowhere
    BY <2>1 DEF TakenOut, Laid, PlaceTypes, ParentTypes
  <2>3. Loaded(w, r, c, -Weight(w, i))
    BY <1>3, RemoveLoads DEF Whole
  <2>4. Weight(w, i) = Moving(w, i, m)
    BY <1>3 DEF Weight, Moving, Whole, Items
  <2> HIDE DEF r
  <2>5. /\ ItemFields \subseteq DOMAIN u
        /\ u.parent = r.parent /\ u.list = r.list /\ u.slot = r.slot
        /\ u.weight = r.weight /\ u.carried = r.carried
        /\ u.count = IF i \in Stacks THEN [w.count EXCEPT ![i] = 0] ELSE w.count
    BY <1>2, <1>3, <2>2 DEF ItemFields, Whole
  <2>6. WeightTypes(r)
    BY <2>3 DEF Loaded
  <2>7. u.count \in [Stacks -> 0..StackMax]
    BY <1>1, <2>5
  <2>8. WeightTypes(u)
    BY <2>5, <2>6, <2>7 DEF WeightTypes, PlaceTypes, ParentTypes
  <2>9. ASSUME NEW d \in Places  PROVE Load(u, d) = Load(r, d)
    <3>1. CASE i \in Stacks
      <4>1. \A j \in Stacks : j # i => u.count[j] = r.count[j]
        BY <1>1, <2>2, <2>5, <3>1
      <4>2. /\ WeightTypes(r) /\ WeightTypes(u) /\ r.parent[i] = Nowhere
            /\ u.parent = r.parent /\ u.weight = r.weight
        BY <2>2, <2>5, <2>6, <2>8
      <4> QED BY <3>1, <4>1, <4>2, RecountNowhere
    <3>2. CASE i \notin Stacks
      <4>1. SamePlaces(r, u)
        BY <2>2, <2>5, <3>2 DEF SamePlaces
      <4> QED BY <2>5, <4>1, LoadSame
    <3> QED BY <3>1, <3>2
  <2>10. Loaded(w, u, c, -Weight(w, i))
    <3> DEFINE diff == -Weight(w, i)
    <3>1. Loaded(w, r, c, diff)
      BY <2>3
    <3> HIDE DEF diff
    <3>2. Loaded(w, u, c, diff)
      BY <2>5, <2>8, <2>9, <3>1, LoadedSame
    <3> QED BY <3>2 DEF diff
  <2> QED BY <2>4, <2>10
<1>4. CASE ~Whole(w, i, m)
  <2>1. i \in Stacks /\ m # w.count[i] /\ m \in 1..w.count[i]
    BY <1>4 DEF Whole, ItemCount
  <2> DEFINE n == w.count[i] - m
  <2>2. n \in 0..StackMax
    BY <1>1, <2>1
  <2>3. r = UpdateThing(w, c, i, n)
    BY <2>1 DEF RemoveThing
  <2>4. Moving(w, i, m) = m /\ n - w.count[i] = -m
    BY <1>1, <2>1 DEF Moving
  <2>5. Recounted(w, r, i, n)
    BY <1>1, <2>3, UpdateFacts
  <2> HIDE DEF r, n
  <2>6. Loaded(w, r, c, n - w.count[i])
    BY <2>1, <2>2, <2>3, UpdateLoads
  <2>7. SameItems(r, u)
    BY <1>2, <2>1, <2>5 DEF SameItems, SamePlaces, ItemFields, Recounted
  <2>8. WeightTypes(u)
    BY <2>6, <2>7 DEF Loaded, WeightTypes, PlaceTypes, ParentTypes, SameItems, SamePlaces
  <2>9. \A d : Load(u, d) = Load(r, d)
    BY <2>7, LoadSame DEF SameItems
  <2>10. Loaded(w, u, c, -m)
    BY <2>4, <2>6, <2>7, <2>8, <2>9, LoadedSame DEF SameItems
  <2> QED BY <2>4, <2>10
<1> QED BY <1>3, <1>4


(* What is around a cylinder depends on parents only.                       *)
LEMMA SameAround ==
  ASSUME NEW w, NEW v, v.parent = w.parent, NEW c
  PROVE  Holder(v, c) = Holder(w, c) /\ Around(v, c) = Around(w, c)
  BY DEF Holder, Root, Around, Holds, Above

(* Nothing happened.                                                        *)
LEMMA LoadedNothing ==
  ASSUME NEW w, WeightTypes(w), BagsWeighed(w), NEW c
  PROVE  Loaded(w, w, c, 0)
<1>1. \A p \in Players : Load(w, p) \in Int
  BY LoadFacts
<1> QED BY <1>1 DEF Loaded

(* Or nothing that matters did, before.                                     *)
LEMMA LoadedFrom ==
  ASSUME NEW w, NEW u, NEW c, NEW diff, NEW v, Loaded(u, v, c, diff),
         u.parent = w.parent, u.weight = w.weight, u.carried = w.carried,
         \A d \in Places : Load(u, d) = Load(w, d)
  PROVE  Loaded(w, v, c, diff)
<1>1. Holder(u, c) = Holder(w, c) /\ Around(u, c) = Around(w, c)
  BY SameAround
<1>2. \A p \in Players : Load(u, p) = Load(w, p)
  BY DEF Places
<1> QED BY <1>1, <1>2 DEF Loaded

(* n pieces of i may join the stack at d.                                   *)
MayJoin(w, d, i, n) ==
  /\ SameType(i, d.item) => w.parent[d.item] = d.to /\ d.to # Nowhere
                            /\ w.count[d.item] + n \in 0..StackMax
  /\ ~SameType(i, d.item) => n = 0

(* They are load of d then.                                                 *)
LEMMA JoinLoads ==
  ASSUME NEW w, Laid(w), WeightTypes(w), BagsWeighed(w), NEW i \in Items, NEW d,
         NEW n \in Int, MayJoin(w, d, i, n), NEW v, v = Join(w, d, i, n)
  PROVE  /\ Laid(v) /\ Loaded(w, v, d.to, n) /\ v.parent = w.parent /\ v.list = w.list
         /\ v.slot = w.slot /\ \A j \in Stacks : j # d.item => v.count[j] = w.count[j]
<1>1. w.count \in [Stacks -> 0..StackMax] /\ ItemFields \subseteq DOMAIN w /\ StackMax \in Nat
  BY WorldAssumption DEF Laid, PlaceTypes
<1>2. CASE SameType(i, d.item)
  <2> DEFINE j == d.item
             k == w.count[j] + n
             c == d.to
  <2>1. /\ j \in Stacks /\ w.parent[j] = c /\ c # Nowhere /\ k \in 0..StackMax
        /\ k - w.count[j] = n
    BY <1>1, <1>2 DEF MayJoin, SameType
  <2>2. v = UpdateThing(w, c, j, k)
    BY <1>2 DEF Join
  <2>3. Recounted(w, v, j, k)
    BY <1>1, <2>2, UpdateFacts
  <2> HIDE DEF j, k, c
  <2>4. Loaded(w, v, c, k - w.count[j])
    BY <2>1, <2>2, UpdateLoads
  <2>5. v.count = [w.count EXCEPT ![j] = k]
    BY <2>3 DEF Recounted
  <2>6. v.count \in [Stacks -> 0..StackMax]
    BY <1>1, <2>1, <2>5
  <2>7. Laid(v)
    BY <2>3, <2>6, CountLaid DEF Recounted
  <2>8. \A x \in Stacks : x # j => v.count[x] = w.count[x]
    BY <1>1, <2>5
  <2> QED BY <2>1, <2>3, <2>4, <2>7, <2>8 DEF Recounted, j, c
<1>3. CASE ~SameType(i, d.item)
  <2>1. v = w /\ n = 0
    BY <1>3 DEF Join, MayJoin
  <2> QED BY <2>1, LoadedNothing
<1> QED BY <1>2, <1>3

(* The rest has a place at d, if there is one.                              *)
MayArrive(w, d, i, o, rest) ==
  \/ i \in Stacks /\ rest = 0
  \/ /\ o \in Items /\ w.parent[o] = Nowhere
     /\ IF i \in Stacks THEN o \in Stacks /\ rest \in 1..StackMax ELSE o = i
     /\ d.to \in Places /\ d.index \in Int /\ FreeAt(w, d.to, d.index)
     /\ d.to \in Bags /\ o \in Bags => Clear(w, d.to, o)

(* It is load of d then.                                                    *)
LEMMA ArriveLoads ==
  ASSUME NEW w, Laid(w), WeightTypes(w), BagsWeighed(w), NEW i \in Items, NEW d, NEW o,
         NEW rest, MayArrive(w, d, i, o, rest), NEW v, v = Arrive(w, d, i, o, rest)
  PROVE  /\ Laid(v) /\ Loaded(w, v, d.to, Moving(w, i, rest))
         /\ \A j \in Bags : j # i => v.parent[j] = w.parent[j]
<1> USE WorldAssumption
<1>1. w.count \in [Stacks -> 0..StackMax] /\ ItemFields \subseteq DOMAIN w /\ StackMax \in Nat
      /\ ParentTypes(w)
  BY DEF Laid, PlaceTypes
<1>2. CASE i \in Stacks /\ rest = 0
  <2>1. v = w /\ Moving(w, i, rest) = 0
    BY <1>2 DEF Arrive, Moving
  <2> QED BY <2>1, LoadedNothing
<1>3. CASE ~(i \in Stacks /\ rest = 0)
  <2> DEFINE x == IF i \in Stacks THEN [w EXCEPT !.count[o] = rest] ELSE w
             c == d.to
             index == d.index
  <2>1. /\ o \in Items /\ w.parent[o] = Nowhere
        /\ IF i \in Stacks THEN o \in Stacks /\ rest \in 1..StackMax ELSE o = i
        /\ c \in Places /\ index \in Int /\ FreeAt(w, c, index)
        /\ c \in Bags /\ o \in Bags => Clear(w, c, o)
    BY <1>3 DEF MayArrive
  <2>2. v = AddThing(x, c, index, o)
    BY <1>3, <2>1 DEF Arrive
  <2> HIDE DEF c, index
  <2>3. /\ ItemFields \subseteq DOMAIN x
        /\ x.parent = w.parent /\ x.list = w.list /\ x.slot = w.slot
        /\ x.weight = w.weight /\ x.carried = w.carried
        /\ x.count = IF i \in Stacks THEN [w.count EXCEPT ![o] = rest] ELSE w.count
    BY <1>1 DEF ItemFields
  <2> HIDE DEF x
  <2>4. x.count \in [Stacks -> 0..StackMax]
    BY <1>1, <2>1, <2>3
  <2>5. Laid(x)
    BY <2>3, <2>4, CountLaid
  <2>6. WeightTypes(x)
    BY <2>3, <2>4 DEF WeightTypes, PlaceTypes, ParentTypes
  <2>7. ASSUME NEW y \in Places  PROVE Load(x, y) = Load(w, y)
    <3>1. CASE i \in Stacks
      <4>1. /\ o \in Stacks /\ w.parent[o] = Nowhere /\ x.parent = w.parent
            /\ x.weight = w.weight /\ \A j \in Stacks : j # o => x.count[j] = w.count[j]
        BY <1>1, <2>1, <2>3, <3>1
      <4> QED BY <2>6, <4>1, RecountNowhere
    <3>2. CASE i \notin Stacks
      <4>1. SamePlaces(w, x)
        BY <2>3, <3>2 DEF SamePlaces
      <4> QED BY <2>3, <4>1, LoadSame
    <3> QED BY <3>1, <3>2
  <2>8. BagsWeighed(x)
    BY <2>3, <2>7 DEF BagsWeighed, Places
  <2>9. FreeAt(x, c, index) /\ (c \in Bags /\ o \in Bags => Clear(x, c, o)) /\ x.parent[o] = Nowhere
    BY <2>1, <2>3 DEF FreeAt, Clear
  <2>10. Loaded(x, v, c, Weight(x, o))
    BY <2>1, <2>2, <2>5, <2>6, <2>8, <2>9, AddLoads
  <2>11. Weight(x, o) = Moving(w, i, rest)
    <3>1. CASE i \in Stacks
      <4>1. o \notin Bags /\ x.count[o] = rest /\ o \in Stacks
        BY <1>1, <2>1, <2>3, <3>1
      <4> QED BY <3>1, <4>1 DEF Weight, Moving
    <3>2. CASE i \notin Stacks
      BY <2>1, <2>3, <3>2 DEF Weight, Moving
    <3> QED BY <3>1, <3>2
  <2>12. Loaded(x, v, c, Moving(w, i, rest))
    BY <2>10, <2>11
  <2>13. Loaded(w, v, c, Moving(w, i, rest))
    <3> DEFINE diff == Moving(w, i, rest)
    <3>1. Loaded(x, v, c, diff)
      BY <2>12
    <3> HIDE DEF diff
    <3>2. Loaded(w, v, c, diff)
      BY <2>3, <2>7, <3>1, LoadedFrom
    <3> QED BY <3>2 DEF diff
  <2>14. PutIn(x, v, c, index, o)
    BY <2>1, <2>2, <2>5, <2>9, AddFacts
  <2>15. v.parent = [w.parent EXCEPT ![o] = c]
    BY <2>3, <2>14 DEF PutIn
  <2>16. \A j \in Bags : j # i => v.parent[j] = w.parent[j]
    BY <1>1, <2>1, <2>15 DEF ParentTypes, Items
  <2>17. Laid(v)
    BY <2>1, <2>5, <2>9, <2>14, PutInLaid
  <2> QED BY <2>13, <2>16, <2>17 DEF c
<1> QED BY <1>2, <1>3


-----------------------------------------------------------------------------
(* A player weighs his inventory again.                                     *)

(* Sums of weights.                                                         *)
LEMMA WeightSum ==
  ASSUME NEW w, WeightTypes(w), NEW S \in SUBSET Items
  PROVE  MapThenSumSet(LAMBDA j : Weight(w, j), S) = Total(Heft(w), S)
<1> DEFINE f == Heft(w)
           Eq(h) == h = [s \in SUBSET S |->
             IF s = {} THEN 0
             ELSE Weight(w, CHOOSE x \in s : TRUE) + h[s \ {CHOOSE x \in s : TRUE}]]
<1>0. IsFiniteSet(S) /\ \A x \in S : f[x] \in Int
  <2>1. IsFiniteSet(S)
    BY WorldAssumption, FS_Subset
  <2>2. \A x \in S : f[x] \in Int
    BY LoadFacts
  <2> QED BY <2>1, <2>2
<1>1. MapThenSumSet(LAMBDA j : Weight(w, j), S) = (CHOOSE h : Eq(h))[S]
  BY DEF MapThenSumSet, MapThenFoldSet
<1>2. \A s \in SUBSET S : s # {} => f[Some(s)] = Weight(w, CHOOSE x \in s : TRUE)
  <2> SUFFICES ASSUME NEW s \in SUBSET S, s # {}
               PROVE  f[Some(s)] = Weight(w, CHOOSE x \in s : TRUE)
    OBVIOUS
  <2>1. Some(s) = CHOOSE x \in s : TRUE
    BY DEF Some
  <2>2. Some(s) \in Items
    BY <2>1
  <2> QED BY <2>1, <2>2 DEF Heft
<1>3. \A h : Eq(h) <=> Adds(f, S, h)
  <2> HIDE DEF f
  <2> QED BY <1>2 DEF Adds, Some
<1> HIDE DEF f
<1>4. \E h : Adds(f, S, h)
  BY <1>0, AddsExists
<1> DEFINE h == CHOOSE e : Eq(e)
           k == CHOOSE e : Adds(f, S, e)
<1>5. Adds(f, S, h) /\ Adds(f, S, k)
  <2> HIDE DEF Eq
  <2>1. Eq(h)
    BY <1>3, <1>4
  <2> QED BY <1>3, <1>4, <2>1
<1> HIDE DEF h, k, Eq
<1>6. S \in SUBSET S
  OBVIOUS
<1>7. \A s \in SUBSET S : h[s] = k[s]
  BY <1>0, <1>5, <1>6, AddsSame
<1> QED BY <1>1, <1>6, <1>7 DEF Total, h, k, f

(* What is in a list or an inventory is what points back to it.             *)
LEMMA ContentsInside ==
  ASSUME NEW w, Laid(w), NEW c \in Places
  PROVE  Contents(w, c) = Inside(w, c)
<1>1. CASE c \in Players
  <2>1. SlotsFit(w, c) /\ \A s \in Slots : w.slot[c][s] \in Items \cup {NoItem}
    BY <1>1 DEF PlaceTypes, Laid
  <2>2. NoItem \notin Items
    BY WorldAssumption
  <2> QED BY <1>1, <2>1, <2>2 DEF SlotsFit, Inventory, Contents, Inside
<1>2. CASE c \notin Players
  <2>1. c \in Tiles \cup Bags
    BY <1>2 DEF Places
  <2>2. w.list[c] \in Seq(Items) /\ ListFits(w, c)
    BY <2>1 DEF PlaceTypes, Laid
  <2> DEFINE here == w.list[c]
  <2>3. /\ DOMAIN here = 1..Len(here)
        /\ \A n \in 1..Len(here) : here[n] \in Items /\ w.parent[here[n]] = c
        /\ \A j \in Items : w.parent[j] = c => \E n \in 1..Len(here) : here[n] = j
    BY <2>2 DEF ListFits
  <2> HIDE DEF here
  <2>4. {here[n] : n \in DOMAIN here} = {i \in Items : w.parent[i] = c}
    BY <2>3
  <2>5. ToSet(here) = Inside(w, c)
    BY <2>4 DEF ToSet, Inside
  <2> QED BY <1>2, <2>5 DEF Contents, here
<1> QED BY <1>1, <1>2

(* All players but some have the right weight.                              *)
Carrying(w, P) == \A p \in Players \ P : w.carried[p] = Load(w, p)

(* Who holds c has it after he was told.                                    *)
LEMMA PostLoads ==
  ASSUME NEW w, Laid(w), WeightTypes(w), NEW c, NEW P, Carrying(w, P),
         NEW v, v = PostNotification(w, c)
  PROVE  /\ WeightTypes(v) /\ SamePlaces(w, v) /\ v.weight = w.weight
         /\ Carrying(v, P \ {Holder(w, c)})
<1> DEFINE p == Holder(w, c)
           n == MapThenSumSet(LAMBDA j : Weight(w, j), Inventory(w, p))
<1>1. ItemFields \subseteq DOMAIN w /\ w.carried \in [Players -> Int]
  BY DEF Laid, PlaceTypes, WeightTypes
<1>2. SamePlaces(w, v)
  BY <1>1, PostSame
<1>3. v = IF p = NoPlayer THEN w ELSE [w EXCEPT !.carried[p] = n]
  BY DEF PostNotification
<1>4. p \in Players \cup {NoPlayer}
  BY DEF Holder
<1>5. p \in Players => n = Load(w, p)
  <2> SUFFICES ASSUME p \in Players  PROVE n = Load(w, p)
    OBVIOUS
  <2>1. Inventory(w, p) = Inside(w, p)
    <3>1. p \in Places
      BY DEF Places
    <3> HIDE DEF p
    <3>2. Contents(w, p) = Inside(w, p)
      BY <3>1, ContentsInside
    <3> QED BY <3>2 DEF Contents
  <2>2. Inventory(w, p) \in SUBSET Items
    BY <2>1 DEF Inside
  <2> DEFINE S == Inventory(w, p)
  <2>3. n = MapThenSumSet(LAMBDA j : Weight(w, j), S)
    OBVIOUS
  <2> HIDE DEF S, n
  <2>4. n = Total(Heft(w), S)
    BY <2>2, <2>3, WeightSum DEF S
  <2> QED BY <2>1, <2>4 DEF S, Load
<1>6. \A q \in Players : Load(w, q) \in Int
  BY LoadFacts
<1> HIDE DEF p, n
<1>7. v.weight = w.weight
  BY <1>1, <1>3 DEF ItemFields
<1>8. v.carried = IF p = NoPlayer THEN w.carried ELSE [w.carried EXCEPT ![p] = n]
  BY <1>1, <1>3 DEF ItemFields
<1>9. v.carried \in [Players -> Int]
  BY <1>1, <1>4, <1>5, <1>6, <1>8
<1>10. WeightTypes(v)
  BY <1>2, <1>7, <1>9 DEF WeightTypes, PlaceTypes, SamePlaces, ParentTypes
<1>11. \A q : Load(v, q) = Load(w, q)
  BY <1>2, <1>7, LoadSame
<1>12. ASSUME NEW q \in Players \ (P \ {p})  PROVE v.carried[q] = Load(v, q)
  <2>1. CASE q = p
    <3>1. p # NoPlayer
      BY <2>1, WorldAssumption
    <3> QED BY <1>1, <1>5, <1>8, <1>11, <2>1, <3>1
  <2>2. CASE q # p
    <3>1. w.carried[q] = Load(w, q)
      BY <2>2 DEF Carrying
    <3> QED BY <1>1, <1>8, <1>11, <2>2, <3>1
  <2> QED BY <2>1, <2>2
<1> QED BY <1>2, <1>7, <1>10, <1>12 DEF Carrying, p

(* So after both ends of a move were told.                                  *)
LEMMA PostTwice ==
  ASSUME NEW w, Laid(w), WeightTypes(w), BagsWeighed(w), NEW c, NEW d,
         Carrying(w, {Holder(w, c), Holder(w, d)}),
         NEW v, v = PostNotification(PostNotification(w, c), d)
  PROVE  /\ Laid(v) /\ WeightTypes(v) /\ BagsWeighed(v) /\ Carrying(v, {})
         /\ SamePlaces(w, v) /\ \A x : Load(v, x) = Load(w, x)
<1> DEFINE u == PostNotification(w, c)
           P == {Holder(w, c), Holder(w, d)}
           Q == P \ {Holder(w, c)}
<1>1. /\ WeightTypes(u) /\ SamePlaces(w, u) /\ u.weight = w.weight /\ Carrying(u, Q)
  <2> HIDE DEF u, P
  <2> QED BY PostLoads DEF u, P
<1>2. v = PostNotification(u, d)
  OBVIOUS
<1> HIDE DEF u, Q
<1>3. Laid(u)
  BY <1>1, SameLaid
<1>4. /\ WeightTypes(v) /\ SamePlaces(u, v) /\ v.weight = u.weight
      /\ Carrying(v, Q \ {Holder(u, d)})
  BY <1>1, <1>2, <1>3, PostLoads
<1>5. Holder(u, d) = Holder(w, d)
  BY <1>1, SameAround DEF SamePlaces
<1>6. Q \ {Holder(u, d)} = {}
  BY <1>5 DEF Q
<1>7. SamePlaces(w, v) /\ v.weight = w.weight
  BY <1>1, <1>4 DEF SamePlaces
<1>8. \A x : Load(v, x) = Load(w, x)
  BY <1>7, LoadSame
<1>9. Laid(v)
  BY <1>7, SameLaid
<1>10. BagsWeighed(v)
  BY <1>7, <1>8 DEF BagsWeighed
<1> QED BY <1>4, <1>6, <1>7, <1>8, <1>9, <1>10


-----------------------------------------------------------------------------
(* The whole transfer.                                                      *)

(* All weights are right.                                                   *)
Weighed(w) == Placed(w) /\ WeightTypes(w) /\ BagsWeighed(w) /\ Carrying(w, {})

(* p has weight more to carry if he holds c.                                *)
Share(w, p, c, weight) == IF p = Holder(w, c) THEN weight ELSE 0

(* weight went from c to d.                                                 *)
Hauled(w, v, c, d, weight) ==
  \A p \in Players :
    Load(v, p) = (Load(w, p) - Share(w, p, c, weight)) + Share(w, p, d, weight)

(* What a transfer does after i departed, may be done then: the pieces that  *)
(* join the stack at d fit there, and there is a place for the rest.        *)
LEMMA TransferMay ==
  ASSUME NEW w, Placed(w), NEW i \in Items, NEW d, NEW m, MayTransfer(w, d, i, m),
         NEW c, c = w.parent[i], NEW n, n = Joining(w, d, i, m),
         NEW o, o = Arriving(w, i, m), NEW u1, u1 = Depart(w, c, i, m)
  PROVE  /\ MayJoin(u1, d, i, n)
         /\ \A u2 : u2.parent = u1.parent /\ u2.slot = u1.slot => MayArrive(u2, d, i, o, m - n)
<1> USE WorldAssumption
<1>1. /\ Laid(w) /\ ParentTypes(w) /\ w.count \in [Stacks -> 0..StackMax] /\ StackMax \in Nat
  BY DEF Placed, Laid, PlaceTypes
<1>2. /\ d.to \in Places /\ d.index \in Int /\ d.item # i
      /\ d.item # NoItem => w.parent[d.item] = d.to
      /\ d.to # Nowhere /\ NoItem \notin Stacks
      /\ c # Nowhere /\ m \in 1..ItemCount(w, i)
      /\ d.to \in Bags /\ i \in Bags => Clear(w, d.to, i)
  BY DEF MayTransfer, Spot, Places, Items
<1>3. /\ m \in Nat /\ (i \in Stacks => m \in 1..w.count[i])
      /\ n \in Nat /\ n <= m
      /\ SameType(i, d.item) => /\ i \in Stacks /\ d.item \in Stacks
                                /\ w.count[d.item] + n \in 0..StackMax
                                /\ m <= Remainder(w, d.item) => n = m
      /\ ~SameType(i, d.item) => n = 0
  BY <1>1, JoiningFacts
<1>4. /\ Whole(w, i, m) => o = i
      /\ ~Whole(w, i, m) /\ Arrives(w, d, i, m) =>
           o \in Stacks /\ w.count[o] = 0 /\ w.parent[o] = Nowhere /\ o # i
  BY <1>1, ArrivingFacts
<1>5. Arrives(w, d, i, m) <=> (i \in Stacks => m # n)
  BY DEF Arrives
<1>6. /\ u1.parent = IF Whole(w, i, m) THEN [w.parent EXCEPT ![i] = Nowhere] ELSE w.parent
      /\ u1.count = IF i \in Stacks THEN [w.count EXCEPT ![i] = @ - m] ELSE w.count
      /\ \A to \in Places : \A index : FreeAt(w, to, index) => FreeAt(u1, to, index)
  <2>1. /\ Laid(w) /\ w.parent[i] # Nowhere /\ m \in 1..ItemCount(w, i)
        /\ u1 = Depart(w, w.parent[i], i, m)
    BY <1>1, <1>2
  <2> QED BY <2>1, DepartFacts
<1>7. \A j \in Items : j # i => u1.parent[j] = w.parent[j]
  BY <1>1, <1>6 DEF ParentTypes
<1>8. MayJoin(u1, d, i, n)
  <2>1. ASSUME SameType(i, d.item)
        PROVE  u1.parent[d.item] = d.to /\ u1.count[d.item] = w.count[d.item]
    <3>1. d.item \in Stacks /\ d.item \in Items /\ i \in Stacks
      BY <1>3, <2>1 DEF Items
    <3>2. d.item # NoItem
      BY <1>2, <3>1
    <3> QED BY <1>1, <1>2, <1>6, <1>7, <3>1, <3>2
  <2> QED BY <1>2, <1>3, <2>1 DEF MayJoin
<1>9. ASSUME NEW u2, u2.parent = u1.parent, u2.slot = u1.slot
      PROVE  MayArrive(u2, d, i, o, m - n)
  <2>1. CASE i \in Stacks /\ m = n
    BY <1>3, <2>1 DEF MayArrive
  <2>2. CASE ~(i \in Stacks /\ m = n)
    <3>1. Arrives(w, d, i, m)
      BY <1>5, <2>2
    <3>2. i \in Stacks => m - n \in 1..StackMax
      BY <1>1, <1>3, <2>2
    <3>3. /\ o \in Items /\ u2.parent[o] = Nowhere
          /\ IF i \in Stacks THEN o \in Stacks ELSE o = i
      <4>1. CASE Whole(w, i, m)
        BY <1>1, <1>4, <1>6, <1>9, <4>1 DEF ParentTypes
      <4>2. CASE ~Whole(w, i, m)
        BY <1>4, <1>7, <1>9, <3>1, <4>2 DEF Items, Whole
      <4> QED BY <4>1, <4>2
    <3>4. FreeAt(u2, d.to, d.index)
      <4>1. ~(SameType(i, d.item) /\ m <= Remainder(w, d.item))
        BY <1>3, <2>2
      <4>2. FreeAt(w, d.to, d.index)
        BY <4>1 DEF MayTransfer, Roomy
      <4>3. FreeAt(u1, d.to, d.index)
        BY <1>2, <1>6, <4>2
      <4> QED BY <1>9, <4>3 DEF FreeAt
    <3>5. d.to \in Bags /\ o \in Bags => Clear(u2, d.to, o)
      <4> SUFFICES ASSUME d.to \in Bags, o \in Bags  PROVE Clear(u2, d.to, o)
        OBVIOUS
      <4>1. o = i
        BY <3>3
      <4>2. PICK U \in SUBSET Bags : /\ d.to \in U /\ i \notin U
                                     /\ \A x \in U : w.parent[x] \in Bags => w.parent[x] \in U
        BY <1>2, <4>1 DEF Clear
      <4>3. \A x \in U : u2.parent[x] = w.parent[x]
        BY <1>7, <1>9, <4>2 DEF Items
      <4> QED BY <4>1, <4>2, <4>3 DEF Clear
    <3> QED BY <1>2, <3>2, <3>3, <3>4, <3>5 DEF MayArrive
  <2> QED BY <2>1, <2>2
<1> QED BY <1>8, <1>9

(* What leaves one end of the transfer arrives at the other.                *)
LEMMA TransferLoads ==
  ASSUME NEW w, Weighed(w), NEW i \in Items, NEW d, NEW m, MayTransfer(w, d, i, m),
         NEW c, c = w.parent[i], NEW v, v = Transfer(w, c, d, i, m)
  PROVE  Weighed(v) /\ Hauled(w, v, c, d.to, Moving(w, i, m))
<1> USE WorldAssumption
<1> DEFINE n == Joining(w, d, i, m)
           o == Arriving(w, i, m)
           u1 == Depart(w, c, i, m)
           u2 == Join(u1, d, i, n)
           u3 == Arrive(u2, d, i, o, m - n)
<1>1. /\ Placed(w) /\ Laid(w) /\ WeightTypes(w) /\ BagsWeighed(w) /\ Carrying(w, {})
      /\ ParentTypes(w) /\ NoKnot(w) /\ w.count \in [Stacks -> 0..StackMax] /\ StackMax \in Nat
  BY DEF Weighed, Placed, Laid, PlaceTypes
<1>2. /\ d.to \in Places /\ d.index \in Int /\ d.item # i
      /\ d.item # NoItem => w.parent[d.item] = d.to
      /\ d.to # Nowhere /\ NoItem \notin Stacks
      /\ c # Nowhere /\ m \in 1..ItemCount(w, i)
      /\ d.to \in Bags /\ i \in Bags => Clear(w, d.to, i)
  BY DEF MayTransfer, Spot, Places, Items
<1>3. /\ m \in Nat /\ (i \in Stacks => m \in 1..w.count[i])
      /\ n \in Nat /\ n <= m
      /\ SameType(i, d.item) => /\ i \in Stacks /\ d.item \in Stacks
                                /\ w.count[d.item] + n \in 0..StackMax
                                /\ m <= Remainder(w, d.item) => n = m
      /\ ~SameType(i, d.item) => n = 0
  BY <1>1, JoiningFacts
<1>4. /\ Whole(w, i, m) => o = i
      /\ ~Whole(w, i, m) /\ Arrives(w, d, i, m) =>
           o \in Stacks /\ w.count[o] = 0 /\ w.parent[o] = Nowhere /\ o # i
  BY <1>1, ArrivingFacts
<1>5. Arrives(w, d, i, m) <=> (i \in Stacks => m # n)
  BY DEF Arrives
<1>6. v = PostNotification(PostNotification(u3, c), d.to)
  BY DEF Transfer, Joining, Arriving
<1>7. /\ Laid(u1)
      /\ u1.parent = IF Whole(w, i, m) THEN [w.parent EXCEPT ![i] = Nowhere] ELSE w.parent
      /\ u1.count = IF i \in Stacks THEN [w.count EXCEPT ![i] = @ - m] ELSE w.count
      /\ \A to \in Places : \A index : FreeAt(w, to, index) => FreeAt(u1, to, index)
  BY <1>1, <1>2, DepartFacts
<1> HIDE DEF n, o
<1>8. Loaded(w, u1, c, -Moving(w, i, m))
  BY <1>1, <1>2, DepartLoads
<1> HIDE DEF u1
<1>9. WeightTypes(u1) /\ BagsWeighed(u1) /\ u1.carried = w.carried
  BY <1>8 DEF Loaded
<1>10. \A j \in Items : j # i => u1.parent[j] = w.parent[j]
  BY <1>1, <1>7 DEF ParentTypes
<1>11. /\ MayJoin(u1, d, i, n)
       /\ \A u : u.parent = u1.parent /\ u.slot = u1.slot => MayArrive(u, d, i, o, m - n)
  <2>1. u1 = Depart(w, c, i, m) /\ n = Joining(w, d, i, m) /\ o = Arriving(w, i, m)
    BY DEF u1, n, o
  <2> HIDE DEF u2, u3
  <2> QED BY <1>1, <2>1, TransferMay
<1>12. /\ Laid(u2) /\ Loaded(u1, u2, d.to, n) /\ u2.parent = u1.parent /\ u2.list = u1.list
       /\ u2.slot = u1.slot
  BY <1>3, <1>7, <1>9, <1>11, JoinLoads
<1>13. i \notin Stacks => u2 = u1 /\ n = 0
  BY <1>3 DEF Join, SameType
<1> HIDE DEF u2
<1>14. WeightTypes(u2) /\ BagsWeighed(u2) /\ u2.carried = w.carried
  BY <1>9, <1>12 DEF Loaded
<1>15. MayArrive(u2, d, i, o, m - n)
  BY <1>11, <1>12
<1>16. /\ Laid(u3) /\ Loaded(u2, u3, d.to, Moving(u2, i, m - n))
       /\ \A j \in Bags : j # i => u3.parent[j] = u2.parent[j]
  <2> DEFINE rest == m - n
  <2>1. MayArrive(u2, d, i, o, rest) /\ u3 = Arrive(u2, d, i, o, rest)
    BY <1>15
  <2> HIDE DEF rest, u3
  <2>2. /\ Laid(u3) /\ Loaded(u2, u3, d.to, Moving(u2, i, rest))
        /\ \A j \in Bags : j # i => u3.parent[j] = u2.parent[j]
    BY <1>12, <1>14, <2>1, ArriveLoads
  <2> QED BY <2>2 DEF rest
<1> HIDE DEF u3
<1>17. Moving(u2, i, m - n) + n = Moving(w, i, m) /\ Moving(w, i, m) \in Int
       /\ Moving(u2, i, m - n) \in Int
  <2>1. CASE i \in Stacks
    BY <1>3, <2>1 DEF Moving
  <2>2. CASE i \notin Stacks
    <3>1. Weight(u2, i) = Weight(w, i)
      <4>1. CASE i \in Bags
        <5>1. c \in Bags => i \notin Around(w, c)
          <6>1. c \in Bags => \A j \in Around(w, c) : w.parent[j] # c
            BY <1>1, AroundFacts
          <6> QED BY <6>1
        <5>2. u1.weight[i] = w.weight[i]
          BY <1>8, <4>1, <5>1 DEF Loaded
        <5> QED BY <1>13, <2>2, <4>1, <5>2 DEF Weight
      <4>2. CASE i \notin Bags
        BY <2>2, <4>2 DEF Weight
      <4> QED BY <4>1, <4>2
    <3>2. Weight(w, i) \in Int
      BY <1>1, LoadFacts
    <3> QED BY <1>13, <2>2, <3>1, <3>2 DEF Moving
  <2> QED BY <2>1, <2>2
<1>18. /\ Holder(u1, d.to) = Holder(w, d.to) /\ Holder(u2, d.to) = Holder(w, d.to)
       /\ Holder(u3, d.to) = Holder(w, d.to) /\ Holder(u3, c) = Holder(w, c)
  <2>1. /\ ParentTypes(u1) /\ ParentTypes(u3)
        /\ \A j \in Bags : j # i => u1.parent[j] = w.parent[j]
        /\ \A j \in Bags : j # i => u3.parent[j] = w.parent[j]
    BY <1>7, <1>10, <1>12, <1>16 DEF Laid, PlaceTypes, Items
  <2>2. Holder(u1, d.to) = Holder(w, d.to)
    <3> DEFINE to == d.to
    <3>1. to \in Places /\ (to \in Bags /\ i \in Bags => Clear(w, to, i))
      BY <1>2
    <3> HIDE DEF to
    <3>2. Holder(u1, to) = Holder(w, to)
      BY <1>1, <2>1, <3>1, HolderKept
    <3> QED BY <3>2 DEF to
  <2>3. Holder(u3, d.to) = Holder(w, d.to)
    <3> DEFINE to == d.to
    <3>1. to \in Places /\ (to \in Bags /\ i \in Bags => Clear(w, to, i))
      BY <1>2
    <3> HIDE DEF to
    <3>2. Holder(u3, to) = Holder(w, to)
      BY <1>1, <2>1, <3>1, HolderKept
    <3> QED BY <3>2 DEF to
  <2>4. Holder(u3, c) = Holder(w, c)
    <3>1. c \in Places
      BY <1>1, <1>2 DEF ParentTypes
    <3>2. c \in Bags /\ i \in Bags => Clear(w, c, i)
      BY <1>1, ParentClear
    <3> QED BY <1>1, <2>1, <3>1, <3>2, HolderKept
  <2>5. Holder(u2, d.to) = Holder(u1, d.to)
    BY <1>12, SameAround
  <2> QED BY <2>2, <2>3, <2>4, <2>5
<1>19. ASSUME NEW p \in Players
       PROVE  Load(u3, p) = (Load(w, p) - Share(w, p, c, Moving(w, i, m)))
                              + Share(w, p, d.to, Moving(w, i, m))
  <2> DEFINE l == Load(w, p)
             l1 == Load(u1, p)
             l2 == Load(u2, p)
             l3 == Load(u3, p)
             rest == Moving(u2, i, m - n)
             all == Moving(w, i, m)
             from == p = Holder(w, c)
             to == p = Holder(w, d.to)
  <2>1. l \in Int /\ rest \in Int /\ all \in Int /\ rest + n = all /\ n \in Int
    BY <1>1, <1>3, <1>17, LoadFacts
  <2>2. l1 = IF from THEN l + -all ELSE l
    BY <1>8 DEF Loaded
  <2>3. l2 = IF to THEN l1 + n ELSE l1
    BY <1>12, <1>18 DEF Loaded
  <2>4. l3 = IF to THEN l2 + rest ELSE l2
    BY <1>16, <1>18 DEF Loaded
  <2>5. /\ Share(w, p, c, Moving(w, i, m)) = IF from THEN all ELSE 0
        /\ Share(w, p, d.to, Moving(w, i, m)) = IF to THEN all ELSE 0
    BY DEF Share
  <2> HIDE DEF l, l1, l2, l3, rest, all, from, to
  <2>6. l3 = (l - (IF from THEN all ELSE 0)) + (IF to THEN all ELSE 0)
    BY <2>1, <2>2, <2>3, <2>4
  <2> QED BY <2>5, <2>6 DEF l, l3
<1>20. WeightTypes(u3) /\ BagsWeighed(u3) /\ u3.carried = w.carried
  BY <1>14, <1>16 DEF Loaded
<1>21. Carrying(u3, {Holder(u3, c), Holder(u3, d.to)})
  <2> SUFFICES ASSUME NEW p \in Players, p # Holder(w, c), p # Holder(w, d.to)
               PROVE  u3.carried[p] = Load(u3, p)
    BY <1>18 DEF Carrying
  <2>1. Load(u3, p) = (Load(w, p) - 0) + 0
    BY <1>19 DEF Share
  <2>2. Load(w, p) \in Int /\ w.carried[p] = Load(w, p)
    BY <1>1, LoadFacts DEF Carrying
  <2> QED BY <1>20, <2>1, <2>2
<1>22. /\ Laid(v) /\ WeightTypes(v) /\ BagsWeighed(v) /\ Carrying(v, {})
       /\ SamePlaces(u3, v) /\ \A x : Load(v, x) = Load(u3, x)
  <2> DEFINE to == d.to
  <2>1. Carrying(u3, {Holder(u3, c), Holder(u3, to)})
        /\ v = PostNotification(PostNotification(u3, c), to)
    BY <1>6, <1>21
  <2> HIDE DEF to
  <2> QED BY <1>16, <1>20, <2>1, PostTwice
<1>23. Placed(v)
  BY <1>1, TransferFacts
<1>24. Hauled(w, v, c, d.to, Moving(w, i, m))
  BY <1>19, <1>22 DEF Hauled
<1> QED BY <1>22, <1>23, <1>24 DEF Weighed

(* The worn item that makes room for another one weighs as much where it    *)
(* goes to as it did in its slot.                                           *)
LEMMA ExchangedLoads ==
  ASSUME NEW w, Weighed(w), NEW i \in Items, NEW c, NEW d, MakesRoom(w, c, d, i),
         NEW p, p = d.to, NEW old, old = d.item, NEW x, x = Exchanged(w, c, p, old)
  PROVE  Weighed(x) /\ Hauled(w, x, p, c, Weight(w, old))
<1> USE WorldAssumption
<1> DEFINE n == ItemCount(w, old)
           u == RemoveThing(w, p, old, n)
           v == AddThing(u, c, 0, old)
<1>1. /\ Placed(w) /\ Laid(w) /\ WeightTypes(w) /\ BagsWeighed(w) /\ Carrying(w, {})
      /\ ParentTypes(w)
  BY DEF Weighed, Placed, Laid, PlaceTypes
<1>2. old \in Stacks => n = w.count[old]
  BY DEF ItemCount
<1>3. /\ c \in Tiles \cup Bags /\ c \notin Players /\ p \in Players /\ p # Nowhere
      /\ old \in Items /\ w.parent[old] = p
      /\ TakenOut(w, u, old) /\ Laid(u)
      /\ u.parent = [w.parent EXCEPT ![old] = Nowhere] /\ u.parent[old] = Nowhere
      /\ FreeAt(u, c, 0) /\ (c \in Bags => Clear(w, c, old) /\ Clear(u, c, old))
  <2>1. Laid(w)
    BY <1>1
  <2>2. Unworn(w, u, c, d)
    BY <2>1, RoomMade
  <2> HIDE DEF u
  <2> QED BY <2>2 DEF Unworn
<1> HIDE DEF n
<1>4. Loaded(w, u, p, -Weight(w, old))
  BY <1>1, <1>2, <1>3, RemoveLoads
<1> HIDE DEF u
<1>5. WeightTypes(u) /\ BagsWeighed(u) /\ u.carried = w.carried /\ ParentTypes(u)
  BY <1>3, <1>4 DEF Loaded, Laid, PlaceTypes
<1>6. c \in Places /\ 0 \in Int /\ p \notin Bags
  BY <1>3 DEF Places, Items
<1>7. Loaded(u, v, c, Weight(u, old)) /\ PutIn(u, v, c, 0, old) /\ Laid(v)
  <2>1. Loaded(u, v, c, Weight(u, old))
    BY <1>3, <1>5, <1>6, AddLoads
  <2>2. PutIn(u, v, c, 0, old)
    BY <1>3, <1>6, AddFacts
  <2> HIDE DEF v
  <2>3. c # Nowhere
    BY <1>6 DEF Places, Items
  <2> QED BY <1>3, <1>6, <2>1, <2>2, <2>3, PutInLaid
<1> HIDE DEF v
<1>8. Weight(u, old) = Weight(w, old) /\ Weight(w, old) \in Int
  <2>1. old \in Bags => u.weight[old] = w.weight[old]
    BY <1>4, <1>6 DEF Loaded
  <2>2. u.count = w.count
    BY <1>3 DEF TakenOut
  <2>3. Weight(w, old) \in Int
    BY <1>1, <1>3, LoadFacts
  <2> QED BY <2>1, <2>2, <2>3 DEF Weight
<1>9. Holder(u, c) = Holder(w, c) /\ Holder(v, c) = Holder(w, c)
  <2>1. \A j \in Bags : j # old => u.parent[j] = w.parent[j]
    BY <1>1, <1>3 DEF ParentTypes, Items
  <2>2. c \in Bags /\ old \in Bags => Clear(w, c, old)
    BY <1>3
  <2>3. old \in Items /\ c \in Places /\ ParentTypes(w) /\ ParentTypes(u)
    BY <1>1, <1>3, <1>5, <1>6
  <2>4. Holder(u, c) = Holder(w, c)
    BY <2>1, <2>2, <2>3, HolderKept
  <2>5. ParentTypes(v)
    BY <1>7 DEF Laid, PlaceTypes
  <2>6. \A j \in Bags : j # old => v.parent[j] = u.parent[j]
    BY <1>5, <1>7 DEF PutIn, ParentTypes, Items
  <2>7. c \in Bags /\ old \in Bags => Clear(u, c, old)
    BY <1>3
  <2>8. Holder(v, c) = Holder(u, c)
    BY <2>3, <2>5, <2>6, <2>7, HolderKept
  <2> QED BY <2>4, <2>8
<1>10. Holder(w, p) = p /\ Holder(v, p) = p
  BY <1>3 DEF Holder
<1>11. ASSUME NEW q \in Players
       PROVE  Load(v, q) = (Load(w, q) - Share(w, q, p, Weight(w, old)))
                             + Share(w, q, c, Weight(w, old))
  <2> DEFINE l == Load(w, q)
             l1 == Load(u, q)
             l2 == Load(v, q)
             all == Weight(w, old)
             from == q = Holder(w, p)
             to == q = Holder(w, c)
  <2>1. l \in Int /\ all \in Int
    BY <1>1, <1>8, LoadFacts
  <2>2. l1 = IF from THEN l + -all ELSE l
    BY <1>4 DEF Loaded
  <2>3. l2 = IF to THEN l1 + all ELSE l1
    BY <1>7, <1>8, <1>9 DEF Loaded
  <2>4. /\ Share(w, q, p, all) = IF from THEN all ELSE 0
        /\ Share(w, q, c, all) = IF to THEN all ELSE 0
    BY DEF Share
  <2> HIDE DEF l, l1, l2, all, from, to
  <2>5. l2 = (l - (IF from THEN all ELSE 0)) + (IF to THEN all ELSE 0)
    BY <2>1, <2>2, <2>3
  <2> QED BY <2>4, <2>5 DEF l, l2, all
<1>12. WeightTypes(v) /\ BagsWeighed(v) /\ v.carried = w.carried
  BY <1>5, <1>7 DEF Loaded
<1>13. Carrying(v, {Holder(v, p), Holder(v, c)})
  <2> SUFFICES ASSUME NEW q \in Players, q # Holder(w, p), q # Holder(w, c)
               PROVE  v.carried[q] = Load(v, q)
    BY <1>9, <1>10 DEF Carrying
  <2>1. Load(v, q) = (Load(w, q) - 0) + 0
    BY <1>11 DEF Share
  <2>2. Load(w, q) \in Int /\ w.carried[q] = Load(w, q)
    BY <1>1, LoadFacts DEF Carrying
  <2> QED BY <1>12, <2>1, <2>2
<1>14. x = PostNotification(PostNotification(v, p), c)
  BY <1>3 DEF Exchanged, u, v, n
<1>15. /\ Laid(x) /\ WeightTypes(x) /\ BagsWeighed(x) /\ Carrying(x, {})
       /\ \A y : Load(x, y) = Load(v, y)
  BY <1>7, <1>12, <1>13, <1>14, PostTwice
<1>16. Placed(x)
  BY <1>1, ExchangedPlaces
<1>17. Hauled(w, x, p, c, Weight(w, old))
  BY <1>11, <1>15 DEF Hauled
<1> QED BY <1>15, <1>16, <1>17 DEF Weighed

-----------------------------------------------------------------------------
(* What players carry.                                                      *)

(* No container has a negative weight: it would have to be that of another  *)
(* container in it, and so on in a knot.                                    *)
LEMMA NoDebt ==
  ASSUME NEW w, Weighed(w)
  PROVE  \A b \in Bags : w.weight[b] >= 0
<1> DEFINE S == {b \in Bags : w.weight[b] < 0}
           Inner(b) == CHOOSE x \in S : w.parent[x] = b
           g == [b \in S |-> Inner(b)]
<1>1. /\ WeightTypes(w) /\ BagsWeighed(w) /\ NoKnot(w)
      /\ w.weight \in [Bags -> Int] /\ w.count \in [Stacks -> 0..StackMax] /\ StackMax \in Nat
  BY WorldAssumption DEF Weighed, Placed, Laid, WeightTypes, PlaceTypes
<1>2. ASSUME NEW b \in S  PROVE \E x \in S : w.parent[x] = b
  <2> DEFINE f == Heft(w)
             here == Inside(w, b)
  <2>1. IsFiniteSet(here) /\ \A x \in here : x \in Items /\ f[x] \in Int /\ f[x] = Weight(w, x)
    BY <1>1, LoadFacts DEF Inside
  <2>2. w.weight[b] = Total(f, here) /\ w.weight[b] < 0
    BY <1>1 DEF BagsWeighed, Load
  <2> HIDE DEF f, here
  <2>3. PICK x \in here : f[x] \notin Nat
    <3>1. \A x \in here : f[x] \in Int
      BY <2>1
    <3>2. (\A x \in here : f[x] \in Nat) => Total(f, here) \in Nat
      BY <2>1, <3>1, TotalFacts
    <3> QED BY <2>2, <3>2
  <2>4. Weight(w, x) \in Int /\ Weight(w, x) < 0
    BY <2>1, <2>3
  <2>5. x \in Bags /\ w.weight[x] < 0
    BY <1>1, <2>4 DEF Weight
  <2> QED BY <2>5 DEF here, Inside
<1>3. g \in Injection(S, S)
  <2>1. \A b \in S : g[b] \in S /\ w.parent[g[b]] = b
    BY <1>2
  <2>2. g \in [S -> S]
    BY <2>1
  <2> HIDE DEF g, S
  <2> QED BY <2>1, <2>2 DEF Injection, IsInjective
<1>4. \A b \in S : g[b] \in S /\ w.parent[g[b]] = b
  BY <1>2
<1>5. IsFiniteSet(S) /\ S \in SUBSET Bags
  <2>1. S \subseteq Items
    BY DEF Items
  <2> QED BY <2>1, WorldAssumption, FS_Subset
<1> HIDE DEF S, g
<1>6. g \in Surjection(S, S)
  BY <1>3, <1>5, FS_Injection
<1>7. \A x \in S : w.parent[x] \in S
  <2> SUFFICES ASSUME NEW x \in S  PROVE w.parent[x] \in S
    OBVIOUS
  <2>1. PICK b \in S : g[b] = x
    BY <1>6 DEF Surjection
  <2> QED BY <1>4, <2>1
<1>8. S = {}
  BY <1>1, <1>5, <1>7 DEF NoKnot
<1> QED BY <1>1, <1>8 DEF S

(* What has a player at its root, is in something that he holds.            *)
LEMMA RootHolder ==
  ASSUME NEW w, ParentTypes(w), NoKnot(w), NEW i \in Items, NEW p \in Players, Root(w, i) = p
  PROVE  Holder(w, w.parent[i]) = p
<1> DEFINE a == Above(w, i)
           c == w.parent[i]
<1>1. /\ Depth \in Nat /\ a[0] = c
      /\ \A n \in 1..Depth :
           a[n] = IF a[n - 1] \in Bags THEN w.parent[a[n - 1]] ELSE a[n - 1]
      /\ a[Depth] = p /\ a[Depth] \notin Bags
  <2>1. a[Depth] \notin Bags
    BY TopFacts
  <2>2. a[Depth] = Root(w, i)
    BY DEF Root, Depth
  <2> QED BY <2>1, <2>2, AboveFacts
<1> HIDE DEF a, c
<1>2. CASE c \in Bags
  <2>1. PICK s : Way(w, c, s)
    BY <1>2, WayExists
  <2>2. /\ s[0] = c
        /\ \A n \in 0..Depth : s[n + 1] = IF s[n] \in Bags THEN w.parent[s[n]] ELSE s[n]
    BY <2>1 DEF Way
  <2>3. \A n \in 0..Depth : s[n] \notin Bags => s[n] = Root(w, c)
    BY <1>2, <2>1, WayFacts
  <2> DEFINE T == {n \in 0..Depth : a[n] = s[n]}
  <2>4. 0 \in T
    BY <1>1, <2>2
  <2>5. ASSUME NEW n \in 0 + 1..Depth, n - 1 \in T  PROVE n \in T
    <3>1. n \in 1..Depth /\ n - 1 \in 0..Depth /\ n \in 0..Depth /\ (n - 1) + 1 = n
      BY <1>1
    <3>2. s[n] = IF s[n - 1] \in Bags THEN w.parent[s[n - 1]] ELSE s[n - 1]
      BY <2>2, <3>1
    <3>3. a[n] = s[n]
      BY <1>1, <2>5, <3>1, <3>2
    <3> QED BY <3>1, <3>3
  <2>6. 0 \in Int /\ Depth \in Int /\ Depth \in 0..Depth
    BY <1>1
  <2> HIDE DEF T
  <2>7. 0..Depth \subseteq T
    BY <2>4, <2>5, <2>6, Upward
  <2>8. a[Depth] = s[Depth]
    BY <2>6, <2>7 DEF T
  <2>9. Root(w, c) = p
    BY <1>1, <2>3, <2>6, <2>8
  <2>10. c \notin Players
    BY <1>2, WorldAssumption DEF Items
  <2> QED BY <1>2, <2>9, <2>10 DEF Holder, c
<1>3. CASE c \notin Bags
  <2> DEFINE T == {n \in 0..Depth : a[n] = c}
  <2>1. 0 \in T
    BY <1>1
  <2>2. ASSUME NEW n \in 0 + 1..Depth, n - 1 \in T  PROVE n \in T
    <3>1. n \in 1..Depth /\ n \in 0..Depth
      BY <1>1
    <3> QED BY <1>1, <1>3, <2>2, <3>1
  <2>3. 0 \in Int /\ Depth \in Int /\ Depth \in 0..Depth
    BY <1>1
  <2> HIDE DEF T
  <2>4. 0..Depth \subseteq T
    BY <2>1, <2>2, <2>3, Upward
  <2>5. c = p
    BY <1>1, <2>3, <2>4 DEF T
  <2> QED BY <2>5 DEF Holder, c
<1> QED BY <1>2, <1>3

(* Nobody carries more than he can.                                         *)
Bounded(w) == \A p \in Players : w.carried[p] <= Capacity

(* An item weighs something or nothing.                                     *)
LEMMA WeightNatural ==
  ASSUME NEW w, Weighed(w), NEW i \in Items
  PROVE  Weight(w, i) \in Nat
<1>1. w.weight \in [Bags -> Int] /\ w.count \in [Stacks -> 0..StackMax] /\ StackMax \in Nat
  BY WorldAssumption DEF Weighed, WeightTypes, PlaceTypes
<1>2. i \in Bags => w.weight[i] \in Nat
  BY <1>1, NoDebt
<1>3. i \in Stacks => w.count[i] \in Nat
  BY <1>1
<1> QED BY <1>2, <1>3 DEF Weight

(* This stays so if who gets something could carry it too.                  *)
LEMMA HauledBounded ==
  ASSUME NEW w, Weighed(w), Bounded(w), NEW v, Weighed(v),
         NEW c, NEW d, NEW weight \in Nat, Hauled(w, v, c, d, weight),
         \A p \in Players : p = Holder(w, d) =>
           p = Holder(w, c) \/ w.carried[p] + weight <= Capacity
  PROVE  Bounded(v)
<1> SUFFICES ASSUME NEW p \in Players  PROVE v.carried[p] <= Capacity
  BY DEF Bounded
<1>1. /\ w.carried[p] \in Int /\ v.carried[p] \in Int /\ Capacity \in Int
      /\ w.carried[p] = Load(w, p) /\ v.carried[p] = Load(v, p) /\ w.carried[p] <= Capacity
  BY WorldAssumption DEF Weighed, WeightTypes, Carrying, Bounded
<1>2. Load(v, p) = (Load(w, p) - Share(w, p, c, weight)) + Share(w, p, d, weight)
  BY DEF Hauled
<1>3. /\ Share(w, p, c, weight) = IF p = Holder(w, c) THEN weight ELSE 0
      /\ Share(w, p, d, weight) = IF p = Holder(w, d) THEN weight ELSE 0
  BY DEF Share
<1> DEFINE x == w.carried[p]
           y == v.carried[p]
           from == p = Holder(w, c)
           to == p = Holder(w, d)
<1>4. y = (x - (IF from THEN weight ELSE 0)) + (IF to THEN weight ELSE 0)
  BY <1>1, <1>2, <1>3
<1>5. x \in Int /\ y \in Int /\ x <= Capacity /\ (to => from \/ x + weight <= Capacity)
  BY <1>1
<1> HIDE DEF x, y, from, to
<1>6. y <= Capacity
  BY <1>1, <1>4, <1>5
<1> QED BY <1>6 DEF y

(* The checks before a transfer see to that,                                *)
LEMMA TransferBounded ==
  ASSUME NEW w, Weighed(w), Bounded(w), NEW i \in Items, NEW d, NEW m, MayTransfer(w, d, i, m),
         NEW v, v = Transfer(w, w.parent[i], d, i, m)
  PROVE  Bounded(v)
<1> DEFINE c == w.parent[i]
           weight == Moving(w, i, m)
<1>1. Weighed(v) /\ Hauled(w, v, c, d.to, weight)
  BY TransferLoads
<1>2. /\ Weight(w, i) \in Nat /\ m \in 1..ItemCount(w, i)
      /\ ParentTypes(w) /\ NoKnot(w) /\ w.count \in [Stacks -> 0..StackMax] /\ StackMax \in Nat
      /\ w.carried \in [Players -> Int] /\ NoPlayer \notin Players /\ Capacity \in Int
  <2>1. Weight(w, i) \in Nat
    BY WeightNatural
  <2>2. m \in 1..ItemCount(w, i)
    BY DEF MayTransfer
  <2>3. /\ ParentTypes(w) /\ NoKnot(w) /\ w.count \in [Stacks -> 0..StackMax]
        /\ w.carried \in [Players -> Int]
    BY DEF Weighed, WeightTypes, Placed, Laid, PlaceTypes
  <2> QED BY <2>1, <2>2, <2>3, WorldAssumption
<1>3. weight \in Nat
  <2>1. ItemCount(w, i) \in Nat
    BY <1>2 DEF ItemCount
  <2> QED BY <1>2, <2>1 DEF Moving
<1>4. ASSUME NEW p \in Players, p = Holder(w, d.to)
      PROVE  p = Holder(w, c) \/ w.carried[p] + weight <= Capacity
  <2>1. PICK n \in 0..StackMax : (i \in Stacks => m <= n) /\ HasCapacity(w, p, i, n)
    BY <1>2, <1>4 DEF MayTransfer, Bears
  <2>2. CASE Root(w, i) = p
    BY <1>2, <2>2, RootHolder
  <2>3. CASE w.carried[p] + (IF i \in Stacks THEN n ELSE Weight(w, i)) <= Capacity
    <3> DEFINE x == w.carried[p]
    <3>1. x \in Int /\ n \in Int /\ weight <= IF i \in Stacks THEN n ELSE Weight(w, i)
      BY <1>2, <2>1 DEF Moving
    <3> HIDE DEF x, weight
    <3>2. x + (IF i \in Stacks THEN n ELSE Weight(w, i)) <= Capacity
      BY <2>3 DEF x
    <3>3. x + weight <= Capacity
      BY <1>2, <1>3, <3>1, <3>2
    <3> QED BY <3>3 DEF x
  <2> QED BY <2>1, <2>2, <2>3 DEF HasCapacity
<1> HIDE DEF c, weight
<1> QED BY <1>1, <1>3, <1>4, HauledBounded

(* and so do those before an exchange.                                      *)
LEMMA ExchangedBounded ==
  ASSUME NEW w, Weighed(w), Bounded(w), NEW i, NEW c, NEW d, MakesRoom(w, c, d, i),
         NEW x, Weighed(x), Hauled(w, x, d.to, c, Weight(w, d.item))
  PROVE  Bounded(x)
<1> DEFINE p == d.to
           old == d.item
           weight == Weight(w, old)
<1>1. /\ old \in Items /\ w.parent[old] = p
      /\ Holder(w, c) # NoPlayer => HasCapacity(w, Holder(w, c), old, ItemCount(w, old))
  BY DEF MakesRoom
<1>2. /\ ParentTypes(w) /\ NoKnot(w) /\ NoPlayer \notin Players /\ Bags \cap Stacks = {}
  BY WorldAssumption DEF Weighed, Placed, Laid, PlaceTypes
<1>3. weight \in Nat
  BY <1>1, WeightNatural
<1>4. ASSUME NEW q \in Players, q = Holder(w, c)
      PROVE  q = Holder(w, p) \/ w.carried[q] + weight <= Capacity
  <2>1. HasCapacity(w, q, old, ItemCount(w, old))
    BY <1>1, <1>2, <1>4
  <2>2. CASE Root(w, old) = q
    BY <1>1, <1>2, <2>2, RootHolder
  <2>3. CASE w.carried[q] + (IF old \in Stacks THEN ItemCount(w, old) ELSE Weight(w, old))
               <= Capacity
    <3>1. (IF old \in Stacks THEN ItemCount(w, old) ELSE Weight(w, old)) = weight
      BY <1>2 DEF ItemCount, Weight
    <3> QED BY <2>3, <3>1
  <2> QED BY <2>1, <2>2, <2>3 DEF HasCapacity
<1>5. Hauled(w, x, p, c, weight)
  OBVIOUS
<1> HIDE DEF p, weight
<1> QED BY <1>3, <1>4, <1>5, HauledBounded

-----------------------------------------------------------------------------
(* The pieces of stacks.                                                    *)

(* If one value of a function changes, its sum changes by as much.          *)
LEMMA TotalPut ==
  ASSUME NEW S, IsFiniteSet(S), NEW k \in S, NEW f, NEW g,
         \A y \in S : f[y] \in Int /\ g[y] \in Int /\ (y # k => f[y] = g[y])
  PROVE  Total(g, S) = (Total(f, S) - f[k]) + g[k]
<1> DEFINE A == S
           B == S
<1>1. A \in SUBSET S /\ B \in SUBSET S /\ A \ {k} = B \ {k}
  OBVIOUS
<1>2. Part(f, A, k) = f[k] /\ Part(g, B, k) = g[k]
  BY DEF Part
<1> HIDE DEF A, B
<1>3. Total(g, B) = (Total(f, A) - Part(f, A, k)) + Part(g, B, k)
  BY <1>1, TotalDiffers
<1> QED BY <1>2, <1>3 DEF A, B

(* The pieces in w.                                                         *)
Pieces(w) == Total(w.count, Stacks)

(* A transfer neither makes nor loses one.                                  *)
LEMMA TransferPieces ==
  ASSUME NEW w, Placed(w), NEW i \in Items, NEW d, NEW m, MayTransfer(w, d, i, m),
         NEW v, v = Transfer(w, w.parent[i], d, i, m)
  PROVE  Pieces(v) = Pieces(w)
<1> DEFINE n == Joining(w, d, i, m)
           o == Arriving(w, i, m)
           here == SameType(i, d.item)
           new == Arrives(w, d, i, m)
           f0 == w.count
<1>1. v.count = [j \in Stacks |->
                  IF new /\ j = o THEN m - n
                  ELSE IF j = i THEN f0[i] - m
                  ELSE IF j = d.item /\ here THEN f0[j] + n
                  ELSE f0[j]]
  <2>1. Transferred(w, v, d, i, m)
    BY TransferFacts
  <2> QED BY <2>1 DEF Transferred
<1>2. Laid(w) /\ f0 \in [Stacks -> 0..StackMax] /\ StackMax \in Nat
  BY WorldAssumption DEF Placed, Laid, PlaceTypes
<1>3. /\ m \in Nat /\ n \in Nat /\ n <= m
      /\ i \in Stacks => m \in 1..f0[i]
      /\ here => i \in Stacks /\ d.item \in Stacks
      /\ ~here => n = 0
  BY <1>2, JoiningFacts
<1>4. /\ Whole(w, i, m) => o = i
      /\ ~Whole(w, i, m) /\ new => o \in Stacks /\ f0[o] = 0 /\ w.parent[o] = Nowhere /\ o # i
  BY <1>2, ArrivingFacts
<1>5. /\ d.item # i /\ NoItem \notin Stacks
      /\ here => w.parent[d.item] # Nowhere
      /\ new <=> (i \in Stacks => m # n)
  <2>1. d.item # i /\ (d.item # NoItem => w.parent[d.item] = d.to) /\ d.to \in Places
    BY DEF MayTransfer, Spot
  <2>2. NoItem \notin Stacks /\ d.to # Nowhere
    BY <2>1, WorldAssumption DEF Items, Places
  <2>3. here => d.item # NoItem
    BY <1>3, <2>2
  <2> QED BY <2>1, <2>2, <2>3 DEF Arrives
<1> HIDE DEF n, o, here, new
<1>6. CASE i \notin Stacks
  <2>1. ~here /\ o = i
    BY <1>3, <1>4, <1>6 DEF Whole
  <2>2. \A j \in Stacks : v.count[j] = f0[j]
    BY <1>1, <1>6, <2>1
  <2>3. v.count = f0
    BY <1>1, <1>2, <2>2
  <2> QED BY <2>3 DEF Pieces
<1>7. CASE i \in Stacks
  <2> DEFINE f1 == [f0 EXCEPT ![i] = f0[i] - m]
             f2 == IF here THEN [f1 EXCEPT ![d.item] = f1[d.item] + n] ELSE f1
             f3 == IF new THEN [f2 EXCEPT ![o] = m - n] ELSE f2
  <2>1. IsFiniteSet(Stacks) /\ f0 \in [Stacks -> Int] /\ f0[i] \in Int /\ m \in Int /\ n \in Int
    <3>1. IsFiniteSet(Stacks)
      BY WorldAssumption, FS_Subset DEF Items
    <3> QED BY <1>2, <1>3, <1>7, <3>1
  <2>2. f1 \in [Stacks -> Int]
    <3>1. f0[i] - m \in Int
      BY <2>1
    <3> HIDE DEF f0
    <3> QED BY <2>1, <3>1
  <2>3. /\ f1[i] = f0[i] - m
        /\ \A j \in Stacks : j # i => f1[j] = f0[j]
    BY <1>7, <2>1
  <2> HIDE DEF f0, f1
  <2>11. Total(f1, Stacks) = (Total(f0, Stacks) - f0[i]) + (f0[i] - m)
    <3>1. \A j \in Stacks : f0[j] \in Int /\ f1[j] \in Int /\ (j # i => f0[j] = f1[j])
      BY <2>1, <2>2, <2>3
    <3>2. Total(f1, Stacks) = (Total(f0, Stacks) - f0[i]) + f1[i]
      BY <1>7, <2>1, <3>1, TotalPut
    <3> QED BY <2>3, <3>2
  <2>4. f2 \in [Stacks -> Int] /\ Total(f2, Stacks) = Total(f1, Stacks) + n
    <3>1. Total(f1, Stacks) \in Int
      BY <2>1, <2>2, TotalFacts
    <3>2. CASE here
      <4> DEFINE k == d.item
                 x == f1[k] + n
                 g == [f1 EXCEPT ![k] = x]
      <4>1. k \in Stacks /\ f1[k] \in Int /\ x \in Int
        BY <1>3, <2>1, <2>2, <3>2
      <4>2. /\ g \in [Stacks -> Int] /\ g[k] = x
            /\ \A j \in Stacks : f1[j] \in Int /\ g[j] \in Int /\ (j # k => f1[j] = g[j])
        BY <2>2, <4>1
      <4> HIDE DEF k, x, g
      <4>5. Total(g, Stacks) = (Total(f1, Stacks) - f1[k]) + g[k]
        BY <2>1, <4>1, <4>2, TotalPut
      <4>3. Total(g, Stacks) = Total(f1, Stacks) + n
        BY <2>1, <3>1, <4>1, <4>2, <4>5 DEF x
      <4>4. f2 = g
        BY <3>2 DEF f2, g, k, x
      <4> QED BY <4>2, <4>3, <4>4
    <3>3. CASE ~here
      BY <1>3, <2>2, <3>1, <3>3
    <3> QED BY <3>2, <3>3
  <2>5. /\ here => f2[d.item] = f1[d.item] + n
        /\ \A j \in Stacks : (here => j # d.item) => f2[j] = f1[j]
    BY <1>3, <2>2
  <2> HIDE DEF f2
  <2>6. new => o \in Stacks /\ f2[o] = 0
    <3>1. CASE Whole(w, i, m)
      <4>1. o = i /\ m = f0[i]
        BY <1>4, <1>7, <3>1 DEF Whole, f0
      <4>2. f2[i] = f1[i]
        BY <1>5, <1>7, <2>5
      <4> QED BY <1>7, <2>1, <2>3, <4>1, <4>2
    <3>2. CASE ~Whole(w, i, m)
      <4> SUFFICES ASSUME new  PROVE o \in Stacks /\ f2[o] = 0
        OBVIOUS
      <4>1. o \in Stacks /\ f0[o] = 0 /\ o # i /\ (here => o # d.item)
        BY <1>4, <1>5, <3>2
      <4> QED BY <2>3, <2>5, <4>1
    <3> QED BY <3>1, <3>2
  <2>7. Total(f3, Stacks) = Total(f2, Stacks) + (m - n)
    <3>1. Total(f2, Stacks) \in Int
      BY <2>1, <2>4, TotalFacts
    <3>2. CASE new
      <4> DEFINE x == m - n
                 g == [f2 EXCEPT ![o] = x]
      <4>1. x \in Int
        BY <2>1
      <4>2. /\ g[o] = x
            /\ \A j \in Stacks : f2[j] \in Int /\ g[j] \in Int /\ (j # o => f2[j] = g[j])
        BY <2>4, <2>6, <3>2, <4>1
      <4> HIDE DEF x, g
      <4>5. Total(g, Stacks) = (Total(f2, Stacks) - f2[o]) + g[o]
        BY <2>1, <2>6, <3>2, <4>2, TotalPut
      <4>3. Total(g, Stacks) = Total(f2, Stacks) + x
        BY <2>6, <3>1, <3>2, <4>1, <4>2, <4>5
      <4>4. f3 = g
        BY <3>2 DEF g, x
      <4> QED BY <4>3, <4>4 DEF x
    <3>3. CASE ~new
      <4>1. m - n = 0
        BY <1>5, <1>7, <2>1, <3>3
      <4> QED BY <3>1, <3>3, <4>1
    <3> QED BY <3>2, <3>3
  <2>8. v.count = f3
    <3>1. DOMAIN f3 = Stacks /\ f3 = [j \in Stacks |-> f3[j]]
      BY <2>4
    <3>2. ASSUME NEW j \in Stacks  PROVE v.count[j] = f3[j]
      <4>1. CASE new /\ j = o
        BY <1>1, <2>4, <4>1
      <4>2. CASE ~(new /\ j = o)
        <5>1. f3[j] = f2[j]
          BY <2>4, <2>6, <4>2
        <5>2. v.count[j] = IF j = i THEN f0[i] - m
                           ELSE IF j = d.item /\ here THEN f0[j] + n ELSE f0[j]
          BY <1>1, <4>2
        <5>3. f2[j] = IF j = i THEN f0[i] - m
                      ELSE IF j = d.item /\ here THEN f0[j] + n ELSE f0[j]
          BY <1>5, <2>3, <2>5
        <5> QED BY <5>1, <5>2, <5>3
      <4> QED BY <4>1, <4>2
    <3>3. v.count = [j \in Stacks |-> v.count[j]]
      BY <1>1
    <3> HIDE DEF f3
    <3> QED BY <3>1, <3>2, <3>3
  <2> HIDE DEF f3
  <2>9. Total(f0, Stacks) \in Int
    BY <2>1, TotalFacts
  <2>10. Total(f3, Stacks) = Total(f0, Stacks)
    <3> DEFINE t0 == Total(f0, Stacks)
               t1 == Total(f1, Stacks)
               t2 == Total(f2, Stacks)
               t3 == Total(f3, Stacks)
               x == f0[i]
    <3>1. t0 \in Int /\ x \in Int /\ m \in Int /\ n \in Int
      BY <2>1, <2>9
    <3>2. t1 = (t0 - x) + (x - m) /\ t2 = t1 + n /\ t3 = t2 + (m - n)
      BY <2>4, <2>7, <2>11
    <3> HIDE DEF t0, t1, t2, t3, x
    <3>3. t3 = t0
      BY <3>1, <3>2
    <3> QED BY <3>3 DEF t0, t3
  <2> QED BY <2>8, <2>10 DEF Pieces, f0
<1> QED BY <1>6, <1>7

-----------------------------------------------------------------------------
(* Weights, loads and pieces at every moment.                               *)

(* The weights are right, nobody carries too much, no piece was made or     *)
(* lost.                                                                    *)
Sound(w) == Weighed(w) /\ Bounded(w) /\ Pieces(w) = Total(StartCount, Stacks)

(* A transfer leaves it so,                                                 *)
LEMMA TransferSound ==
  ASSUME NEW w, Sound(w), NEW i \in Items, NEW d, NEW m, MayTransfer(w, d, i, m),
         NEW v, v = Transfer(w, w.parent[i], d, i, m)
  PROVE  Sound(v)
<1>1. Weighed(w) /\ Bounded(w) /\ Placed(w)
  BY DEF Sound, Weighed
<1>2. Weighed(v)
  BY <1>1, TransferLoads
<1>3. Bounded(v)
  BY <1>1, TransferBounded
<1>4. Pieces(v) = Pieces(w)
  BY <1>1, TransferPieces
<1> QED BY <1>2, <1>3, <1>4 DEF Sound

(* an exchange too,                                                         *)
LEMMA ExchangedSound ==
  ASSUME NEW w, Sound(w), NEW i \in Items, NEW c, NEW d, MakesRoom(w, c, d, i),
         NEW x, x = Exchanged(w, c, d.to, d.item)
  PROVE  Sound(x)
<1> DEFINE p   == d.to
           old == d.item
<1>1. Weighed(w) /\ Bounded(w) /\ Placed(w)
  BY DEF Sound, Weighed
<1>2. p = d.to /\ old = d.item /\ x = Exchanged(w, c, p, old)
  OBVIOUS
<1> HIDE DEF p, old
<1>3. Weighed(x) /\ Hauled(w, x, p, c, Weight(w, old))
  BY <1>1, <1>2, ExchangedLoads
<1>4. Bounded(x)
  BY <1>1, <1>2, <1>3, ExchangedBounded
<1>5. Pieces(x) = Pieces(w)
  <2>1. MovedAway(w, x, c, d)
    BY <1>1, <1>2, ExchangedPlaces
  <2> QED BY <2>1 DEF MovedAway, Pieces
<1> QED BY <1>3, <1>4, <1>5 DEF Sound

(* and so does Game::internalMoveItem.                                      *)
LEMMA StepsSound ==
  ASSUME NEW w, Sound(w), NEW i \in Items, NEW c, NEW n, NEW index, NEW r,
         Steps(w, c, i, n, index, r)
  PROVE  Sound(r.w)
<1>1. CASE r.w = w
  BY <1>1
<1>2. ASSUME NEW d, NEW e, NEW m, Exchanging(w, c, d, i, e),
             \/ r.w = e.w
             \/ MayTransfer(e.w, e.d, i, m) /\ r.w = Transfer(e.w, e.w.parent[i], e.d, i, m)
      PROVE  Sound(r.w)
  <2> DEFINE v == e.w
             x == e.d
             u == r.w
  <2>1. Sound(v)
    <3>1. CASE v = w
      BY <3>1
    <3>2. CASE MakesRoom(w, c, d, i) /\ v = Exchanged(w, c, d.to, d.item)
      <4> HIDE DEF v
      <4> QED BY <3>2, ExchangedSound
    <3> QED BY <1>2, <3>1, <3>2 DEF Exchanging
  <2>2. u = v \/ (MayTransfer(v, x, i, m) /\ u = Transfer(v, v.parent[i], x, i, m))
    BY <1>2
  <2> HIDE DEF u, v, x
  <2>3. Sound(u)
    BY <2>1, <2>2, TransferSound
  <2> QED BY <2>3 DEF u
<1> QED BY <1>1, <1>2 DEF Steps

(* What does not concern items does not matter.                             *)
LEMMA SameSound ==
  ASSUME NEW w, Sound(w), NEW v, SameItems(w, v)
  PROVE  Sound(v)
<1>1. /\ v.parent = w.parent /\ v.count = w.count /\ v.weight = w.weight
      /\ v.carried = w.carried /\ SamePlaces(w, v)
  BY DEF SameItems, SamePlaces
<1>2. Placed(v) /\ PlaceTypes(v)
  BY <1>1, SamePlaced DEF Sound, Weighed, Placed, Laid
<1>3. ASSUME NEW x  PROVE Load(v, x) = Load(w, x)
  BY <1>1 DEF Load, Heft, Inside, Weight
<1>4. Weighed(v)
  BY <1>1, <1>2, <1>3 DEF Sound, Weighed, WeightTypes, BagsWeighed, Carrying
<1> QED BY <1>1, <1>4 DEF Sound, Bounded, Pieces

(* Nothing an action does to items matters either.                          *)
LEMMA HandlesSound ==
  ASSUME NEW w, Sound(w), NEW v, Handles(w, v)
  PROVE  Sound(v)
<1>1. ASSUME NEW u, Sound(u), NEW i \in Items, NEW c, NEW n, NEW index, NEW r,
             Steps(u, c, i, n, index, r)
      PROVE  Sound(r.w)
  BY <1>1, StepsSound
<1>2. ASSUME NEW u, Sound(u), NEW x, Swaps(u, x)  PROVE Sound(x)
  <2>1. ASSUME NEW i \in Items, NEW c, NEW n, NEW r, Steps(u, c, i, n, Wherever, r),
               NEW j \in Items, NEW e, NEW k, NEW s, Steps(r.w, e, j, k, Wherever, s)
        PROVE  Sound(s.w)
    BY <1>1, <1>2, <2>1
  <2> QED BY <1>1, <1>2, <2>1 DEF Swaps
<1>3. ASSUME NEW u, NEW x, SameItems(w, u), Swaps(u, x), SameItems(x, v)  PROVE Sound(v)
  <2>1. Sound(x)
    BY <1>2, <1>3, SameSound
  <2> QED BY <1>3, <2>1, SameSound
<1>4. ASSUME SameItems(w, v)  PROVE Sound(v)
  BY <1>4, SameSound
<1> QED BY <1>1, <1>3, <1>4 DEF Handles

(* The same sum, of a function's values.                                    *)
LEMMA FunctionSum ==
  ASSUME NEW S, IsFiniteSet(S), NEW f, \A x \in S : f[x] \in Int
  PROVE  MapThenSumSet(LAMBDA j : f[j], S) = Total(f, S)
<1> DEFINE Eq(h) == h = [s \in SUBSET S |->
             IF s = {} THEN 0
             ELSE f[CHOOSE x \in s : TRUE] + h[s \ {CHOOSE x \in s : TRUE}]]
<1>1. MapThenSumSet(LAMBDA j : f[j], S) = (CHOOSE h : Eq(h))[S]
  BY DEF MapThenSumSet, MapThenFoldSet
<1>2. \A h : Eq(h) <=> Adds(f, S, h)
  BY DEF Adds, Some
<1>3. \E h : Adds(f, S, h)
  BY AddsExists
<1> DEFINE h == CHOOSE e : Eq(e)
           k == CHOOSE e : Adds(f, S, e)
<1>4. Adds(f, S, h) /\ Adds(f, S, k)
  <2> HIDE DEF Eq
  <2>1. Eq(h)
    BY <1>2, <1>3
  <2> QED BY <1>2, <1>3, <2>1
<1> HIDE DEF h, k, Eq
<1>5. S \in SUBSET S
  OBVIOUS
<1>6. \A s \in SUBSET S : h[s] = k[s]
  BY <1>4, <1>5, AddsSame
<1> QED BY <1>1, <1>5, <1>6 DEF Total, h, k

(* At first nobody carries anything and all containers are empty.           *)
LEMMA InitSound == Init => Sound(world)
<1> SUFFICES ASSUME Init  PROVE Sound(world)
  OBVIOUS
<1> USE WorldAssumption, StartAssumption
<1>1. Placed(world) /\ PlaceTypes(world)
  BY InitPlaced DEF Placed, Laid
<1>2. /\ world.parent = [i \in Items |-> IF Exists([count |-> StartCount], i)
                                         THEN StartTile[i] ELSE Nowhere]
      /\ world.count = StartCount
      /\ world.weight = [b \in Bags |-> 0] /\ world.carried = [p \in Players |-> 0]
  BY DEF Init
<1>3. WeightTypes(world)
  BY <1>1, <1>2 DEF WeightTypes
<1>4. ASSUME NEW c \in Players \cup Bags  PROVE Load(world, c) = 0
  <2>1. c \notin Tiles /\ c # Nowhere
    BY DEF Items
  <2>2. \A i \in Items : world.parent[i] # c
    BY <1>2, <2>1
  <2> DEFINE f == Heft(world)
             S == Inside(world, c)
  <2>3. S = {} /\ IsFiniteSet(S)
    BY <2>2, FS_EmptySet DEF Inside
  <2> HIDE DEF f, S
  <2>4. Total(f, S) = 0
    <3>1. \A x \in S : f[x] \in Int
      BY <2>3
    <3> QED BY <2>3, <3>1, TotalFacts
  <2> QED BY <2>4 DEF Load, f, S
<1>5. BagsWeighed(world) /\ Carrying(world, {})
  BY <1>2, <1>4 DEF BagsWeighed, Carrying
<1>6. Bounded(world)
  BY <1>2 DEF Bounded
<1>7. Pieces(world) = Total(StartCount, Stacks)
  BY <1>2 DEF Pieces
<1> QED BY <1>1, <1>3, <1>5, <1>6, <1>7 DEF Sound, Weighed

(* That says what WeightsAgree                                              *)
LEMMA SoundAgrees ==
  ASSUME Sound(world)
  PROVE  WeightsAgree
<1>1. /\ WeightTypes(world) /\ BagsWeighed(world) /\ Carrying(world, {}) /\ Laid(world)
  BY DEF Sound, Weighed, Placed
<1>2. ASSUME NEW c \in Players \cup Bags
      PROVE  MapThenSumSet(LAMBDA i : Weight(world, i), Contents(world, c)) = Load(world, c)
  <2> DEFINE S == Contents(world, c)
  <2>1. c \in Places
    BY DEF Places
  <2>2. S = Inside(world, c)
    BY <1>1, <2>1, ContentsInside
  <2>3. S \in SUBSET Items
    BY <2>2 DEF Inside
  <2> HIDE DEF S
  <2>4. MapThenSumSet(LAMBDA i : Weight(world, i), S) = Total(Heft(world), S)
    BY <1>1, <2>3, WeightSum
  <2> QED BY <2>2, <2>4 DEF Load, S
<1> QED BY <1>1, <1>2 DEF WeightsAgree, BagsWeighed, Carrying

(* and WithinLimits say.                                                    *)
LEMMA SoundLimits ==
  ASSUME Sound(world)
  PROVE  WithinLimits
<1> USE StartAssumption
<1>1. /\ world.count \in [Stacks -> 0..StackMax] /\ StackMax \in Nat /\ IsFiniteSet(Stacks)
  <2>1. IsFiniteSet(Stacks)
    BY WorldAssumption, FS_Subset DEF Items
  <2> QED BY <2>1, WorldAssumption DEF Sound, Weighed, WeightTypes, PlaceTypes
<1>2. ASSUME NEW f \in [Stacks -> 0..StackMax]
      PROVE  MapThenSumSet(LAMBDA i : f[i], Stacks) = Total(f, Stacks)
  <2>1. \A x \in Stacks : f[x] \in Int
    BY <1>1
  <2> QED BY <1>1, <2>1, FunctionSum
<1>3. MapThenSumSet(LAMBDA i : StartCount[i], Stacks) = Total(StartCount, Stacks)
  BY <1>2
<1>4. MapThenSumSet(LAMBDA i : world.count[i], Stacks) = Total(world.count, Stacks)
  BY <1>1, <1>2
<1>5. Total(world.count, Stacks) = Total(StartCount, Stacks)
  BY DEF Sound, Pieces
<1>6. \A p \in Players : world.carried[p] <= Capacity
  BY DEF Sound, Bounded
<1> QED BY <1>3, <1>4, <1>5, <1>6 DEF WithinLimits

(* The inductive invariant: what is cached is right, and trades are in order.*)
Balanced == Sound(world) /\ Trading(world, {})

(* It holds at every moment.                                                *)
LEMMA BalancedHolds == Spec => []Balanced
<1>1. Init => Balanced
  BY InitSound, InitTrading DEF Balanced
<1>2. Balanced /\ [Next]_world => Balanced'
  <2>1. Balanced /\ [Next]_world => Sound(world')
    <3> SUFFICES ASSUME Sound(world), Trading(world, {}), [Next]_world  PROVE Sound(world')
      BY DEF Balanced
    <3>1. Handles(world, world')
      BY NextSteps DEF Sound, Weighed
    <3> QED BY <3>1, HandlesSound
  <2>2. Balanced /\ [Next]_world => Trading(world', {})
    BY TradingStep DEF Balanced
  <2>3. Balanced' <=> Sound(world') /\ Trading(world', {})
    BY DEF Balanced
  <2> QED BY <2>1, <2>2, <2>3
<1> QED BY <1>1, <1>2, PTL DEF Spec

(* For any players, items and containers: the cached weight of a container,   *)
(* and that of a player's inventory, is always that of what is in it at any  *)
(* depth, however items are moved, stacked, split, exchanged and swapped.    *)
THEOREM WeightsAgreeHolds == Spec => []WeightsAgree
<1>1. Balanced => WeightsAgree
  BY SoundAgrees DEF Balanced
<1> QED BY <1>1, BalancedHolds, PTL

(* Pieces of stacks are neither made nor lost when stacks are split, merged,  *)
(* moved and swapped, and nobody ever carries more than he can.              *)
THEOREM WithinLimitsHolds == Spec => []WithinLimits
<1>1. Balanced => WithinLimits
  BY SoundLimits DEF Balanced
<1> QED BY <1>1, BalancedHolds, PTL

-----------------------------------------------------------------------------
(* The lengths of lists.                                                    *)

(* A list is as long as there are items that point back to it.              *)
LEMMA ListLength ==
  ASSUME NEW w, Laid(w), NEW c \in Tiles \cup Bags
  PROVE  /\ IsFiniteSet(Inside(w, c)) /\ Len(w.list[c]) = Cardinality(Inside(w, c))
         /\ Len(w.list[c]) \in Nat
<1> DEFINE l == w.list[c]
           n == Len(l)
           S == Inside(w, c)
           D == 1..n
           f == [k \in D |-> l[k]]
<1>1. l \in Seq(Items) /\ ListFits(w, c)
  BY DEF Laid, PlaceTypes
<1>2. n \in Nat /\ \A k \in D : l[k] \in Items
  BY <1>1
<1>3. /\ \A k \in D : w.parent[l[k]] = c
      /\ \A i \in Items : w.parent[i] = c => \E k \in D : l[k] = i
      /\ \A k, m \in D : l[k] = l[m] => k = m
  BY <1>1 DEF ListFits
<1>4. S = {i \in Items : w.parent[i] = c}
  BY DEF Inside
<1>5. IsFiniteSet(D) /\ Cardinality(D) = n
  <2>1. 1 \in Int /\ n \in Int
    BY <1>2
  <2>2. IsFiniteSet(1..n) /\ Cardinality(1..n) = IF 1 > n THEN 0 ELSE n - 1 + 1
    BY <2>1, FS_Interval
  <2> HIDE DEF n
  <2> QED BY <1>2, <2>2
<1> HIDE DEF l, n, S, D
<1>6. f \in Bijection(D, S)
  <2>1. f \in [D -> S] /\ \A k \in D : f[k] = l[k]
    BY <1>2, <1>3, <1>4
  <2> HIDE DEF f
  <2>2. f \in Injection(D, S)
    BY <1>3, <2>1 DEF Injection, IsInjective
  <2>3. f \in Surjection(D, S)
    BY <1>3, <1>4, <2>1 DEF Surjection
  <2> QED BY <2>2, <2>3 DEF Bijection
<1>7. ExistsBijection(D, S)
  BY <1>6 DEF ExistsBijection
<1>8. IsFiniteSet(S) /\ Cardinality(S) = n
  BY <1>5, <1>7, FS_Bijection
<1> QED BY <1>2, <1>8 DEF l, n, S

(* The list of b is not fuller than it was, or not too full.                 *)
NotFuller(w, v, b) == Len(v.list[b]) <= Room \/ Len(v.list[b]) <= Len(w.list[b])

(* A transfer to a list with room in it fills it by one,                    *)
LEMMA TransferLists ==
  ASSUME NEW w, Placed(w), NEW i \in Items, NEW d, NEW m, MayTransfer(w, d, i, m),
         NEW v, v = Transfer(w, w.parent[i], d, i, m), NEW b \in Bags
  PROVE  /\ NotFuller(w, v, b)
         /\ d.to \in Players => Len(v.list[b]) <= Len(w.list[b])
         /\ d.to \in Players /\ b = w.parent[i] /\ Whole(w, i, m) =>
              Len(v.list[b]) <= Len(w.list[b]) - 1
<1> USE WorldAssumption
<1> DEFINE A == Inside(w, b)
           B == Inside(v, b)
           o == Arriving(w, i, m)
           new == Arrives(w, d, i, m)
           k == Len(w.list[b])
           l == Len(v.list[b])
<1>1. Laid(w) /\ Laid(v) /\ Transferred(w, v, d, i, m)
  <2>1. Placed(v) /\ Transferred(w, v, d, i, m)
    BY TransferFacts
  <2> QED BY <2>1 DEF Placed
<1>2. \A j \in Items : v.parent[j] = IF new /\ j = o THEN d.to
                                     ELSE IF j = i /\ Whole(w, i, m) THEN Nowhere
                                     ELSE w.parent[j]
  BY <1>1 DEF Transferred
<1>3. /\ IsFiniteSet(A) /\ k = Cardinality(A) /\ k \in Nat
      /\ IsFiniteSet(B) /\ l = Cardinality(B) /\ l \in Nat
  <2>1. b \in Tiles \cup Bags
    OBVIOUS
  <2>2. IsFiniteSet(A) /\ k = Cardinality(A) /\ k \in Nat
    BY <1>1, <2>1, ListLength
  <2>3. IsFiniteSet(B) /\ l = Cardinality(B) /\ l \in Nat
    BY <1>1, <2>1, ListLength
  <2> QED BY <2>2, <2>3
<1>4. b # Nowhere /\ b \notin Players /\ Room \in Nat
  BY DEF Items
<1>5. new /\ b = d.to => k < Room
  <2>1. Roomy(w, d) \/ (SameType(i, d.item) /\ m <= Remainder(w, d.item))
    BY DEF MayTransfer
  <2>2. SameType(i, d.item) /\ m <= Remainder(w, d.item) => ~new
    BY <1>1, JoiningFacts DEF Arrives
  <2> QED BY <2>1, <2>2 DEF Roomy
<1> HIDE DEF k, l, new, o
<1>6. B \subseteq IF new /\ b = d.to THEN A \cup {o} ELSE A
  BY <1>2, <1>4 DEF Inside
<1>7. ~(new /\ b = d.to) /\ b = w.parent[i] /\ Whole(w, i, m) => i \in A /\ B \subseteq A \ {i}
  BY <1>2, <1>4 DEF Inside
<1> HIDE DEF A, B
<1>8. ASSUME new, b = d.to  PROVE l <= Room
  <2> DEFINE C == A \cup {o}
  <2>1. IsFiniteSet(C) /\ Cardinality(C) <= k + 1 /\ Cardinality(C) \in Nat
    <3>1. IsFiniteSet(C) /\ Cardinality(C) = IF o \in A THEN Cardinality(A) ELSE Cardinality(A) + 1
      BY <1>3, FS_AddElement
    <3> HIDE DEF C
    <3> QED BY <1>3, <3>1
  <2>2. B \in SUBSET C
    BY <1>6, <1>8
  <2> HIDE DEF C
  <2>3. Cardinality(B) <= Cardinality(C)
    BY <2>1, <2>2, FS_Subset
  <2> QED BY <1>3, <1>4, <1>5, <1>8, <2>1, <2>3
<1>9. ASSUME ~(new /\ b = d.to)  PROVE l <= k
  <2>1. B \in SUBSET A
    BY <1>6, <1>9
  <2>2. Cardinality(B) <= Cardinality(A)
    BY <1>3, <2>1, FS_Subset
  <2> QED BY <1>3, <2>2
<1>10. ASSUME ~(new /\ b = d.to), b = w.parent[i], Whole(w, i, m)  PROVE l <= k - 1
  <2> DEFINE C == A \ {i}
  <2>1. IsFiniteSet(C) /\ Cardinality(C) = k - 1
    BY <1>3, <1>7, <1>10, FS_RemoveElement
  <2>2. B \in SUBSET C
    BY <1>7, <1>10
  <2> HIDE DEF C
  <2>3. Cardinality(B) <= Cardinality(C)
    BY <2>1, <2>2, FS_Subset
  <2> QED BY <1>3, <2>1, <2>3
<1>11. d.to \in Players => b # d.to
  BY <1>4
<1> QED BY <1>8, <1>9, <1>10, <1>11 DEF NotFuller, k, l

(* A stack that p wore is at the head of b now, and its slot empty.          *)
LaysOff(w, v, p, b) ==
  LET i == Head(v.list[b])
  IN \E s \in Slots : i \in Stacks /\ w.slot[p][s] = i /\ v.slot[p][s] = NoItem

(* What internalMoveItem does to a list.                                    *)
LEMMA StepsLists ==
  ASSUME NEW w, Placed(w), NEW i \in Items, NEW c, NEW n, NEW index, NEW r,
         Steps(w, c, i, n, index, r), index = Wherever \/ c = w.parent[i], NEW b \in Bags
  PROVE  \/ NotFuller(w, r.w, b)
         \/ index # Wherever /\ \E p \in Players : LaysOff(w, r.w, p, b)
<1> USE WorldAssumption
<1>1. ASSUME NEW u, Laid(u)  PROVE Len(u.list[b]) \in Nat
  BY <1>1, ListLength
<1>2. Laid(w) /\ Room \in Nat
  BY DEF Placed
<1>3. CASE r.w = w
  BY <1>1, <1>2, <1>3 DEF NotFuller
<1>4. ASSUME NEW d, NEW e, NEW m, d \in Answers(w), Exchanging(w, c, d, i, e), Placed(e.w),
             index = Wherever => e.w = w,
             \/ r.w = e.w
             \/ /\ MayTransfer(e.w, e.d, i, m)
                /\ r.w = Transfer(e.w, e.w.parent[i], e.d, i, m)
      PROVE  \/ NotFuller(w, r.w, b)
             \/ index # Wherever /\ \E p \in Players : LaysOff(w, r.w, p, b)
  <2> DEFINE x == e.w
             f == e.d
             v == r.w
  <2>1. Placed(x) /\ Laid(x) /\ (v # x => MayTransfer(x, f, i, m) /\ v = Transfer(x, x.parent[i], f, i, m))
    BY <1>4 DEF Placed
  <2>2. CASE x = w
    <3> HIDE DEF x, f, v
    <3>1. v # x => NotFuller(x, v, b)
      BY <2>1, TransferLists
    <3> QED BY <1>1, <1>2, <2>1, <2>2, <3>1 DEF NotFuller, v
  <2>3. CASE x # w
    <3> DEFINE p == d.to
               old == d.item
               l == w.list[c]
    <3>1. MakesRoom(w, c, d, i) /\ x = Exchanged(w, c, d.to, d.item) /\ f = [d EXCEPT !.item = NoItem]
          /\ index # Wherever
      BY <1>4, <2>3 DEF Exchanging
    <3>2. f.to = p
      BY <1>4, <3>1 DEF Answers
    <3> HIDE DEF x, f, v
    <3>3. MovedAway(w, x, c, d)
      BY <3>1, ExchangedPlaces
    <3>4. /\ p \in Players /\ d.index \in Slots /\ old = w.slot[p][d.index]
          /\ old \in Items /\ old # i /\ ~SameType(old, i) /\ c \in Places \ Players
          /\ c \in Bags => old \in Stacks \/ Len(w.list[c]) < Room
      BY <3>1 DEF MakesRoom
    <3>5. /\ x.parent = [w.parent EXCEPT ![old] = c]
          /\ x.slot = [w.slot EXCEPT ![p] = [w.slot[p] EXCEPT ![d.index] = NoItem]]
          /\ x.list = [w.list EXCEPT ![c] = <<old>> \o l]
      BY <3>3 DEF MovedAway
    <3>6. /\ PlaceTypes(w) /\ c = w.parent[i] /\ c \in Tiles \cup Bags /\ l \in Seq(Items)
          /\ DOMAIN w.list = Tiles \cup Bags
      BY <1>2, <3>1, <3>4 DEF Laid, PlaceTypes, Places
    <3>7. x.parent[i] = c /\ x.slot[p][d.index] = NoItem
      <4>1. DOMAIN w.parent = Items /\ DOMAIN w.slot = Players /\ DOMAIN w.slot[p] = Slots
        BY <3>4, <3>6 DEF PlaceTypes, ParentTypes
      <4>2. x.parent[i] = c
        <5>1. x.parent = [w.parent EXCEPT ![old] = c] /\ old # i
          BY <3>4, <3>5
        <5>2. DOMAIN w.parent = Items /\ w.parent[i] = c
          BY <3>6, <4>1
        <5> QED BY <5>1, <5>2
      <4>3. x.slot[p][d.index] = NoItem
        BY <3>4, <3>5, <4>1
      <4> QED BY <4>2, <4>3
    <3> HIDE DEF p, old, l
    <3>8. /\ b # c => x.list[b] = w.list[b]
          /\ b = c => x.list[b] = <<old>> \o l /\ Head(x.list[b]) = old
                      /\ Len(x.list[b]) = Len(w.list[b]) + 1
      <4>1. DOMAIN w.list = Tiles \cup Bags
        BY <3>6
      <4>2. b # c => x.list[b] = w.list[b]
        BY <3>5, <4>1
      <4>3. x.list[c] = <<old>> \o l
        BY <3>5, <3>6, <4>1
      <4>4. Head(<<old>> \o l) = old /\ Len(<<old>> \o l) = Len(l) + 1
        BY <3>4, <3>6
      <4> QED BY <4>2, <4>3, <4>4 DEF l
    <3>9. Len(w.list[b]) \in Nat /\ Len(x.list[b]) \in Nat
      BY <1>1, <1>2, <2>1
    <3>10. CASE v = x
      <4>1. CASE b # c
        BY <3>8, <3>9, <3>10, <4>1 DEF NotFuller, v
      <4>2. CASE b = c /\ Len(w.list[c]) < Room
        <5> DEFINE first == Len(w.list[b])
                   last == Len(v.list[b])
        <5>1. first \in Nat /\ last = first + 1 /\ first < Room /\ Room \in Nat
          BY <1>2, <3>8, <3>9, <3>10, <4>2
        <5> HIDE DEF first, last
        <5>2. last <= Room
          BY <5>1
        <5>3. NotFuller(w, v, b)
          BY <5>2 DEF NotFuller, last
        <5> QED BY <5>3 DEF v
      <4>3. CASE b = c /\ old \in Stacks
        <5>1. /\ Head(v.list[b]) = old /\ v.slot[p][d.index] = NoItem
              /\ w.slot[p][d.index] = old /\ d.index \in Slots /\ p \in Players
          BY <3>4, <3>7, <3>8, <3>10, <4>3
        <5>2. LaysOff(w, v, p, b)
          BY <4>3, <5>1 DEF LaysOff
        <5>3. LaysOff(w, r.w, p, b)
          BY <5>2 DEF v
        <5>4. \E q \in Players : LaysOff(w, r.w, q, b)
          BY <5>1, <5>3
        <5>5. index # Wherever
          BY <3>1
        <5> QED BY <5>4, <5>5
      <4> QED BY <3>4, <4>1, <4>2, <4>3
    <3>11. CASE v # x
      <4>1. /\ Len(v.list[b]) <= Len(x.list[b])
            /\ b = x.parent[i] /\ Whole(x, i, m) => Len(v.list[b]) <= Len(x.list[b]) - 1
        BY <2>1, <3>2, <3>4, <3>11, TransferLists
      <4>2. Len(v.list[b]) \in Nat
        <5>1. Placed(v)
          BY <2>1, <3>11, TransferFacts
        <5> QED BY <1>1, <5>1 DEF Placed
      <4>3. CASE b # c
        BY <3>8, <3>9, <4>1, <4>2, <4>3 DEF NotFuller, v
      <4>4. CASE b = c /\ Len(w.list[c]) < Room
        <5> DEFINE first == Len(w.list[b])
                   next == Len(x.list[b])
                   last == Len(v.list[b])
        <5>1. first \in Nat /\ last \in Nat /\ next = first + 1 /\ first < Room /\ last <= next
          BY <3>8, <3>9, <4>1, <4>2, <4>4
        <5>2. Room \in Nat
          BY <1>2
        <5> HIDE DEF first, next, last
        <5>3. last <= Room
          BY <5>1, <5>2
        <5>4. NotFuller(w, v, b)
          BY <5>3 DEF NotFuller, last
        <5> QED BY <5>4 DEF v
      <4>5. CASE b = c /\ old \in Stacks
        <5>1. Whole(x, i, m)
          BY <3>4, <4>5 DEF Whole, SameType
        <5> DEFINE first == Len(w.list[b])
                   next == Len(x.list[b])
                   last == Len(v.list[b])
        <5>2. first \in Nat /\ last \in Nat /\ next = first + 1
          BY <3>8, <3>9, <4>2, <4>5
        <5>3. last <= next - 1
          BY <3>7, <4>1, <4>5, <5>1
        <5> HIDE DEF first, next, last
        <5>4. last <= first
          BY <5>2, <5>3
        <5>5. NotFuller(w, v, b)
          BY <5>4 DEF NotFuller, first, last
        <5> QED BY <5>5 DEF v
      <4> QED BY <3>4, <4>3, <4>4, <4>5
    <3> QED BY <3>10, <3>11
  <2> QED BY <2>2, <2>3
<1> QED BY <1>3, <1>4 DEF Steps

(* What an action does to a list.                                           *)
LEMMA HandlesLists ==
  ASSUME NEW w, Placed(w), NEW v, Handles(w, v), NEW b \in Bags
  PROVE  NotFuller(w, v, b) \/ \E p \in Players : LaysOff(w, v, p, b)
<1> USE WorldAssumption
<1>1. ASSUME NEW u, Placed(u)  PROVE Len(u.list[b]) \in Nat
  BY <1>1, ListLength DEF Placed
<1>2. ASSUME NEW u, Placed(u), NEW x, SameItems(u, x)
      PROVE  Placed(x) /\ x.list = u.list
  BY <1>2, SamePlaced DEF SameItems, SamePlaces
<1>3. ASSUME NEW u, Placed(u), NEW i \in Items, NEW c, NEW n, NEW r,
             Steps(u, c, i, n, Wherever, r)
      PROVE  Placed(r.w) /\ NotFuller(u, r.w, b)
  <2> DEFINE index == Wherever
  <2>1. Steps(u, c, i, n, index, r) /\ index = Wherever
    BY <1>3
  <2> HIDE DEF index
  <2>2. Placed(r.w)
    BY <1>3, <2>1, MoveItemFacts
  <2>3. NotFuller(u, r.w, b) \/ index # Wherever
    BY <1>3, <2>1, StepsLists
  <2> QED BY <2>1, <2>2, <2>3
<1>4. ASSUME NEW u, Placed(u), NEW x, Swaps(u, x)  PROVE Placed(x) /\ NotFuller(u, x, b)
  <2>1. CASE x = u
    BY <1>1, <1>4, <2>1 DEF NotFuller
  <2>2. ASSUME NEW i \in Items, NEW c, NEW n, NEW r, Steps(u, c, i, n, Wherever, r),
               NEW j \in Items, NEW e, NEW k, NEW s, Steps(r.w, e, j, k, Wherever, s)
        PROVE  Placed(s.w) /\ NotFuller(u, s.w, b)
    <3> DEFINE y == r.w
               z == s.w
    <3>1. Placed(y) /\ NotFuller(u, y, b)
      BY <1>3, <1>4, <2>2
    <3>2. Placed(z) /\ NotFuller(y, z, b)
      BY <1>3, <2>2, <3>1
    <3> HIDE DEF y, z
    <3>3. Len(u.list[b]) \in Nat /\ Len(y.list[b]) \in Nat /\ Len(z.list[b]) \in Nat /\ Room \in Nat
      BY <1>1, <1>4, <3>1, <3>2
    <3>4. NotFuller(u, z, b)
      <4> DEFINE first == Len(u.list[b])
                 next == Len(y.list[b])
                 last == Len(z.list[b])
      <4>1. first \in Nat /\ next \in Nat /\ last \in Nat /\ Room \in Nat
        BY <3>3
      <4>2. (next <= Room \/ next <= first) /\ (last <= Room \/ last <= next)
        BY <3>1, <3>2 DEF NotFuller
      <4> HIDE DEF first, next, last
      <4>3. last <= Room \/ last <= first
        BY <4>1, <4>2
      <4> QED BY <4>3 DEF NotFuller, first, last
    <3> QED BY <3>2, <3>4 DEF z
  <2>3. CASE x # u
    <3>1. PICK i \in Items, j \in Items :
            \E c, n, r : /\ Steps(u, c, i, n, Wherever, r)
                        /\ \/ x = r.w
                           \/ \E e, k, s : Steps(r.w, e, j, k, Wherever, s) /\ x = s.w
      BY <1>4, <2>3 DEF Swaps
    <3>2. PICK c, n, r : /\ Steps(u, c, i, n, Wherever, r)
                         /\ \/ x = r.w
                            \/ \E e, k, s : Steps(r.w, e, j, k, Wherever, s) /\ x = s.w
      BY <3>1
    <3>3. CASE x = r.w
      <4>1. Placed(r.w) /\ NotFuller(u, r.w, b)
        BY <1>3, <1>4, <3>2
      <4> QED BY <3>3, <4>1
    <3>4. CASE \E e, k, s : Steps(r.w, e, j, k, Wherever, s) /\ x = s.w
      <4>1. PICK e, k, s : Steps(r.w, e, j, k, Wherever, s) /\ x = s.w
        BY <3>4
      <4>2. Placed(s.w) /\ NotFuller(u, s.w, b)
        BY <2>2, <3>2, <4>1
      <4> QED BY <4>1, <4>2
    <3> QED BY <3>2, <3>3, <3>4
  <2> QED BY <2>1, <2>3
<1>5. CASE SameItems(w, v)
  BY <1>1, <1>2, <1>5 DEF NotFuller
<1>6. ASSUME NEW i \in Items, NEW n, NEW index, NEW r, v = r.w,
             Steps(w, w.parent[i], i, n, index, r)
      PROVE  NotFuller(w, v, b) \/ \E p \in Players : LaysOff(w, v, p, b)
  <2> DEFINE c == w.parent[i]
  <2>1. Steps(w, c, i, n, index, r) /\ c = w.parent[i]
    BY <1>6
  <2> HIDE DEF c
  <2>2. NotFuller(w, r.w, b) \/ \E p \in Players : LaysOff(w, r.w, p, b)
    BY <2>1, StepsLists
  <2> QED BY <1>6, <2>2
<1>7. ASSUME NEW u, NEW x, SameItems(w, u), Swaps(u, x), SameItems(x, v)
      PROVE  NotFuller(w, v, b)
  <2>1. Placed(u) /\ u.list = w.list
    BY <1>2, <1>7
  <2>2. Placed(x) /\ NotFuller(u, x, b)
    BY <1>4, <1>7, <2>1
  <2>3. v.list = x.list
    BY <1>2, <1>7, <2>2
  <2> QED BY <2>1, <2>2, <2>3 DEF NotFuller
<1> QED BY <1>5, <1>6, <1>7 DEF Handles

(* For any players, items and containers: no step passes a limit, but for    *)
(* the worn stack that is laid into a full container to make room.          *)
THEOREM LimitsKeptHolds == Spec => LimitsKept
<1> DEFINE Kept == /\ WithinLimits'
                   /\ \A b \in Bags : Len(world'.list[b]) > Max({Room, Len(world.list[b])}) =>
                        \E p \in Players : LaidOff(p, b)
<1>1. Balanced /\ Balanced' /\ [Next]_world /\ WithinLimits' => Kept
  <2> SUFFICES ASSUME Balanced, Balanced', [Next]_world, WithinLimits', NEW b \in Bags,
                      Len(world'.list[b]) > Max({Room, Len(world.list[b])})
               PROVE  \E p \in Players : LaidOff(p, b)
    OBVIOUS
  <2> DEFINE w == world
             v == world'
  <2>1. Placed(w) /\ Placed(v) /\ Handles(w, v)
    BY NextSteps DEF Balanced, Sound, Weighed
  <2>2. Len(w.list[b]) \in Nat /\ Len(v.list[b]) \in Nat /\ Room \in Nat
    <3>1. Laid(w) /\ Laid(v) /\ b \in Tiles \cup Bags
      BY <2>1 DEF Placed
    <3> HIDE DEF w, v
    <3> QED BY <3>1, ListLength, WorldAssumption
  <2>3. ~NotFuller(w, v, b)
    <3>1. Max({Room, Len(w.list[b])}) = IF Room >= Len(w.list[b]) THEN Room ELSE Len(w.list[b])
      <4> DEFINE k == Len(w.list[b])
      <4>1. Room \in Int /\ k \in Int
        BY <2>2
      <4> HIDE DEF k
      <4>2. Max({Room, k}) = IF Room >= k THEN Room ELSE k
        BY <4>1, MaxFacts
      <4> QED BY <4>2 DEF k
    <3> QED BY <2>2, <3>1 DEF NotFuller
  <2>4. \E p \in Players : LaysOff(w, v, p, b)
    <3> HIDE DEF w, v
    <3> QED BY <2>1, <2>3, HandlesLists
  <2> QED BY <2>4 DEF LaysOff, LaidOff
<1>2. Balanced => WithinLimits
  BY SoundLimits DEF Balanced
<1>3. Balanced' => WithinLimits'
  BY <1>2, PTL
<1> QED BY <1>1, <1>3, BalancedHolds, PTL DEF Spec, LimitsKept

-----------------------------------------------------------------------------
(* What is in what.                                                         *)

(* a is the places above x, from the nearest to its root.                   *)
Upwards(w, x, a) ==
  /\ Depth \in Nat
  /\ \A n \in 0..Depth : a[n] \in Places \cup {Nowhere}
  /\ a[0] = w.parent[x]
  /\ \A n \in 1..Depth : a[n] = IF a[n - 1] \in Bags THEN w.parent[a[n - 1]] ELSE a[n - 1]
  /\ a[Depth] = Root(w, x)
  /\ \A b : Holds(w, b, x) <=> \E n \in 0..Depth : a[n] = b

(* That is what Above is.                                                   *)
LEMMA UpwardsFacts ==
  ASSUME NEW w, ParentTypes(w), NEW x \in Items
  PROVE  Upwards(w, x, Above(w, x))
<1> DEFINE a == Above(w, x)
<1>1. /\ Depth \in Nat /\ a \in [0..Depth -> Places \cup {Nowhere}]
      /\ a[0] = w.parent[x]
      /\ \A n \in 1..Depth :
           a[n] = IF a[n - 1] \in Bags THEN w.parent[a[n - 1]] ELSE a[n - 1]
  BY AboveFacts
<1>2. a[Depth] = Root(w, x)
  BY DEF Root, Depth
<1>3. ASSUME NEW b  PROVE Holds(w, b, x) <=> \E n \in 0..Depth : a[n] = b
  BY DEF Holds, Depth
<1> HIDE DEF a
<1>4. \A n \in 0..Depth : a[n] \in Places \cup {Nowhere}
  BY <1>1
<1>5. Upwards(w, x, a)
  BY <1>1, <1>2, <1>3, <1>4 DEF Upwards
<1> QED BY <1>5 DEF a

(* Above a container among them, they are those above that one.             *)
LEMMA UpwardsFrom ==
  ASSUME NEW w, NEW x, NEW a, Upwards(w, x, a), NEW k \in Bags, NEW e, Upwards(w, k, e),
         NEW m \in 0..Depth, a[m] = k
  PROVE  \A n \in m + 1..Depth : a[n] = e[(n - m) - 1]
<1> DEFINE T == {n \in m + 1..Depth : a[n] = e[(n - m) - 1]}
<1>1. Depth \in Nat /\ m \in Int
  BY DEF Upwards
<1>2. CASE m + 1 > Depth
  BY <1>1, <1>2
<1>3. CASE m + 1 <= Depth
  <2>1. m + 1 \in T
    <3>1. m + 1 \in 1..Depth /\ m + 1 \in m + 1..Depth /\ (m + 1) - 1 = m /\ ((m + 1) - m) - 1 = 0
      BY <1>1, <1>3
    <3>2. a[m + 1] = w.parent[k]
      BY <3>1 DEF Upwards
    <3>3. e[0] = w.parent[k]
      BY DEF Upwards
    <3> QED BY <3>1, <3>2, <3>3
  <2>2. ASSUME NEW n \in (m + 1) + 1..Depth, n - 1 \in T  PROVE n \in T
    <3> DEFINE l == (n - m) - 1
    <3>1. n \in 1..Depth /\ n \in m + 1..Depth /\ l \in 1..Depth /\ ((n - 1) - m) - 1 = l - 1
      BY <1>1, <2>2
    <3>2. a[n - 1] = e[l - 1]
      BY <2>2, <3>1
    <3> HIDE DEF l
    <3>3. a[n] = e[l]
      BY <3>1, <3>2 DEF Upwards
    <3> QED BY <3>1, <3>3 DEF l
  <2>3. m + 1 \in Int /\ Depth \in Int
    BY <1>1
  <2> HIDE DEF T
  <2>4. m + 1..Depth \subseteq T
    BY <2>1, <2>2, <2>3, Upward
  <2> QED BY <2>4 DEF T
<1> QED BY <1>1, <1>2, <1>3

(* Above the first that is no container, there is nothing else.             *)
LEMMA UpwardsEnd ==
  ASSUME NEW w, NEW x, NEW a, Upwards(w, x, a), NEW m \in 0..Depth, a[m] \notin Bags
  PROVE  \A n \in m..Depth : a[n] = a[m]
<1> DEFINE T == {n \in m..Depth : a[n] = a[m]}
<1>1. Depth \in Nat /\ m \in Int
  BY DEF Upwards
<1>2. m \in T
  BY <1>1
<1>3. ASSUME NEW n \in m + 1..Depth, n - 1 \in T  PROVE n \in T
  <2>1. n \in 1..Depth /\ n \in m..Depth
    BY <1>1
  <2> QED BY <1>3, <2>1 DEF Upwards
<1> HIDE DEF T
<1>4. m..Depth \subseteq T
  BY <1>1, <1>2, <1>3, Upward
<1> QED BY <1>4 DEF T

(* What is in a container has the same root, and is in whatever that is in;  *)
(* no container is in itself.                                               *)
LEMMA HoldsFacts ==
  ASSUME NEW w, ParentTypes(w), NoKnot(w), NEW k \in Bags
  PROVE  /\ ~Holds(w, k, k)
         /\ \A x \in Items : Holds(w, k, x) =>
              /\ Root(w, x) = Root(w, k)
              /\ Holds(w, w.parent[k], x)
<1>1. k \in Items
  BY DEF Items
<1> DEFINE e == Above(w, k)
<1>2. Upwards(w, k, e)
  BY <1>1, UpwardsFacts
<1> HIDE DEF e
<1>3. ASSUME NEW x \in Items, Holds(w, k, x)
      PROVE  Root(w, x) = Root(w, k) /\ Holds(w, w.parent[k], x)
  <2> DEFINE a == Above(w, x)
  <2>1. Upwards(w, x, a) /\ a[Depth] \notin Bags
    BY UpwardsFacts, TopFacts
  <2> HIDE DEF a
  <2>2. PICK m \in 0..Depth : a[m] = k
    BY <1>3, <2>1 DEF Upwards
  <2>3. Depth \in Nat /\ m # Depth /\ a[Depth] = Root(w, x) /\ e[Depth] = Root(w, k)
    BY <1>2, <2>1, <2>2 DEF Upwards
  <2>4. \A n \in m + 1..Depth : a[n] = e[(n - m) - 1]
    BY <1>2, <2>1, <2>2, UpwardsFrom
  <2> DEFINE l == (Depth - m) - 1
  <2>5. l \in 0..Depth /\ Depth \in m + 1..Depth /\ Depth \in l..Depth
    BY <2>3
  <2>6. a[Depth] = e[l]
    BY <2>4, <2>5
  <2> HIDE DEF l
  <2>7. \A n \in l..Depth : e[n] = e[l]
    BY <1>2, <2>1, <2>5, <2>6, UpwardsEnd
  <2>8. Root(w, x) = Root(w, k)
    BY <2>3, <2>5, <2>6, <2>7
  <2>9. m + 1 \in 1..Depth /\ m + 1 \in 0..Depth /\ (m + 1) - 1 = m
    BY <2>3
  <2>10. a[m + 1] = w.parent[k]
    BY <2>1, <2>2, <2>9 DEF Upwards
  <2> QED BY <2>1, <2>8, <2>9, <2>10 DEF Upwards
<1>4. ~Holds(w, k, k)
  <2> SUFFICES ASSUME Holds(w, k, k)  PROVE FALSE
    OBVIOUS
  <2>1. PICK m \in 0..Depth : e[m] = k
    BY <1>2 DEF Upwards
  <2> DEFINE U == Around(w, k)
  <2>2. k \in U /\ \A j \in U : w.parent[j] # k
    BY AroundFacts
  <2>3. \A b \in Bags : Holds(w, b, k) => b \in U
    BY DEF Around
  <2> HIDE DEF U
  <2>4. Depth \in Nat
    BY <1>2 DEF Upwards
  <2>5. CASE m = 0
    BY <1>2, <2>1, <2>2, <2>5 DEF Upwards
  <2>6. CASE m # 0
    <3>1. m \in 1..Depth /\ m - 1 \in 0..Depth
      BY <2>4, <2>6
    <3>2. e[m] = IF e[m - 1] \in Bags THEN w.parent[e[m - 1]] ELSE e[m - 1]
      BY <1>2, <3>1 DEF Upwards
    <3>3. e[m - 1] \in Bags /\ w.parent[e[m - 1]] = k
      BY <2>1, <3>2
    <3>4. e[m - 1] \in U
      BY <1>2, <2>3, <3>1, <3>3 DEF Upwards
    <3> QED BY <2>2, <3>3, <3>4
  <2> QED BY <2>5, <2>6
<1> QED BY <1>3, <1>4

(* What is directly with a player, on a tile or nowhere is in nothing else.  *)
LEMMA OutermostFacts ==
  ASSUME NEW w, ParentTypes(w), NEW x \in Items, w.parent[x] \notin Bags
  PROVE  Root(w, x) = w.parent[x] /\ \A b : Holds(w, b, x) => b = w.parent[x]
<1> DEFINE a == Above(w, x)
<1>1. Upwards(w, x, a)
  BY UpwardsFacts
<1> HIDE DEF a
<1>2. 0 \in 0..Depth /\ Depth \in 0..Depth /\ a[0] = w.parent[x]
  BY <1>1 DEF Upwards
<1>3. \A n \in 0..Depth : a[n] = a[0]
  BY <1>1, <1>2, UpwardsEnd
<1> QED BY <1>1, <1>2, <1>3 DEF Upwards

(* What is in a container is in whatever that is in, and in nothing else.    *)
LEMMA InnerFacts ==
  ASSUME NEW w, ParentTypes(w), NoKnot(w), NEW x \in Items, NEW c \in Bags, c = w.parent[x]
  PROVE  /\ Root(w, x) = Root(w, c)
         /\ \A b : Holds(w, b, x) <=> b = c \/ Holds(w, b, c)
<1>1. c \in Items
  BY DEF Items
<1> DEFINE a == Above(w, x)
           e == Above(w, c)
<1>2. Upwards(w, x, a) /\ Upwards(w, c, e)
  BY <1>1, UpwardsFacts
<1> HIDE DEF a, e
<1>3. Depth \in Nat /\ 0 \in 0..Depth /\ a[0] = c
  BY <1>2 DEF Upwards
<1>4. Holds(w, c, x)
  BY <1>2, <1>3 DEF Upwards
<1>5. Root(w, x) = Root(w, c)
  BY <1>4, HoldsFacts
<1>6. \A n \in 0 + 1..Depth : a[n] = e[(n - 0) - 1]
  BY <1>2, <1>3, UpwardsFrom
<1>7. ASSUME NEW b, Holds(w, b, x)  PROVE b = c \/ Holds(w, b, c)
  <2>1. PICK n \in 0..Depth : a[n] = b
    BY <1>2, <1>7 DEF Upwards
  <2>2. CASE n = 0
    BY <1>3, <2>1, <2>2
  <2>3. CASE n # 0
    <3>1. n \in 0 + 1..Depth /\ (n - 0) - 1 \in 0..Depth
      BY <1>3, <2>3
    <3> QED BY <1>2, <1>6, <2>1, <3>1 DEF Upwards
  <2> QED BY <2>2, <2>3
<1>8. ASSUME NEW b, Holds(w, b, c)  PROVE Holds(w, b, x)
  <2>1. PICK n \in 0..Depth : e[n] = b
    BY <1>2, <1>8 DEF Upwards
  <2>2. CASE n = Depth
    <3>1. a[Depth] = b /\ Depth \in 0..Depth
      BY <1>2, <1>3, <1>5, <2>1, <2>2 DEF Upwards
    <3> QED BY <1>2, <3>1 DEF Upwards
  <2>3. CASE n # Depth
    <3>1. n + 1 \in 0 + 1..Depth /\ n + 1 \in 0..Depth /\ ((n + 1) - 0) - 1 = n
      BY <1>3, <2>3
    <3>2. a[n + 1] = b
      BY <1>6, <2>1, <3>1
    <3> QED BY <1>2, <3>1, <3>2 DEF Upwards
  <2> QED BY <2>2, <2>3
<1> QED BY <1>4, <1>5, <1>7, <1>8

(* Only containers and what they are in are ever above something.           *)
LEMMA HolderPlace ==
  ASSUME NEW w, ParentTypes(w), NEW b, NEW x \in Items, Holds(w, b, x)
  PROVE  b \in Places \cup {Nowhere}
<1>1. Upwards(w, x, Above(w, x))
  BY UpwardsFacts
<1> QED BY <1>1 DEF Upwards

-----------------------------------------------------------------------------
(* What the change of one parent leaves alone.                              *)

(* The parents in w and v are the same but for that of k.                    *)
MovesOnly(w, v, k) ==
  /\ ParentTypes(w) /\ ParentTypes(v) /\ NoKnot(w) /\ NoKnot(v)
  /\ \A x \in Items : x # k => v.parent[x] = w.parent[x]

(* What is in i stays in i, unless k was, above it or itself.               *)
LEMMA HoldsKept ==
  ASSUME NEW w, NEW v, NEW k \in Items, MovesOnly(w, v, k), NEW i, NEW j \in Items,
         j # k, ~Holds(w, i, k), Holds(w, i, j)
  PROVE  Holds(v, i, j)
<1> DEFINE a == Above(w, j)
           b == Above(v, j)
           e == Above(w, k)
<1>1. Upwards(w, j, a) /\ Upwards(v, j, b) /\ Upwards(w, k, e) /\ Depth \in Nat
  BY UpwardsFacts DEF MovesOnly, Upwards
<1> HIDE DEF a, b, e
<1>2. PICK m \in 0..Depth : a[m] = i
  BY <1>1 DEF Upwards
<1>3. ASSUME NEW l \in 0..Depth, l < m, a[l] \in Bags  PROVE a[l] # k
  <2> SUFFICES ASSUME a[l] = k  PROVE FALSE
    OBVIOUS
  <2>1. m \in l + 1..Depth /\ (m - l) - 1 \in 0..Depth
    BY <1>1, <1>3
  <2>2. a[m] = e[(m - l) - 1]
    BY <1>1, <1>3, <2>1, UpwardsFrom
  <2> QED BY <1>1, <1>2, <2>1, <2>2 DEF Upwards
<1> DEFINE T == {n \in 0..m : b[n] = a[n]}
<1>4. 0 \in T
  BY <1>1 DEF Upwards, MovesOnly
<1>5. ASSUME NEW n \in 0 + 1..m, n - 1 \in T  PROVE n \in T
  <2>1. n \in 1..Depth /\ n \in 0..m /\ n - 1 \in 0..Depth /\ n - 1 < m
    BY <1>1
  <2>2. /\ b[n] = IF b[n - 1] \in Bags THEN v.parent[b[n - 1]] ELSE b[n - 1]
        /\ a[n] = IF a[n - 1] \in Bags THEN w.parent[a[n - 1]] ELSE a[n - 1]
    BY <1>1, <2>1 DEF Upwards
  <2>3. b[n - 1] = a[n - 1]
    BY <1>5
  <2>4. a[n - 1] \in Bags => v.parent[a[n - 1]] = w.parent[a[n - 1]]
    BY <1>3, <2>1 DEF MovesOnly, Items
  <2> QED BY <2>1, <2>2, <2>3, <2>4
<1> HIDE DEF T
<1>6. 0 \in Int /\ m \in Int /\ m \in 0..m
  BY <1>1
<1>7. 0..m \subseteq T
  BY <1>4, <1>5, <1>6, Upward
<1>8. b[m] = i
  BY <1>2, <1>6, <1>7 DEF T
<1> QED BY <1>1, <1>8 DEF Upwards

(* What is above i stays there, unless k was among it or i itself.          *)
LEMMA AboveKept ==
  ASSUME NEW w, NEW v, NEW k \in Items, MovesOnly(w, v, k), NEW i \in Items,
         i # k, ~Holds(w, k, i)
  PROVE  Root(v, i) = Root(w, i) /\ ~Holds(v, k, i)
<1> DEFINE a == Above(w, i)
           b == Above(v, i)
<1>1. Upwards(w, i, a) /\ Upwards(v, i, b) /\ Depth \in Nat
  BY UpwardsFacts DEF MovesOnly, Upwards
<1> HIDE DEF a, b
<1> DEFINE T == {n \in 0..Depth : b[n] = a[n]}
<1>2. 0 \in T
  BY <1>1 DEF Upwards, MovesOnly
<1>3. ASSUME NEW n \in 0 + 1..Depth, n - 1 \in T  PROVE n \in T
  <2>1. n \in 1..Depth /\ n - 1 \in 0..Depth /\ n \in 0..Depth
    BY <1>1
  <2>2. /\ b[n] = IF b[n - 1] \in Bags THEN v.parent[b[n - 1]] ELSE b[n - 1]
        /\ a[n] = IF a[n - 1] \in Bags THEN w.parent[a[n - 1]] ELSE a[n - 1]
    BY <1>1, <2>1 DEF Upwards
  <2>3. b[n - 1] = a[n - 1] /\ a[n - 1] # k
    BY <1>1, <1>3, <2>1 DEF Upwards
  <2>4. a[n - 1] \in Bags => v.parent[a[n - 1]] = w.parent[a[n - 1]]
    BY <2>3 DEF MovesOnly, Items
  <2> QED BY <2>1, <2>2, <2>3, <2>4
<1> HIDE DEF T
<1>4. 0 \in Int /\ Depth \in Int
  BY <1>1
<1>5. 0..Depth \subseteq T
  BY <1>2, <1>3, <1>4, Upward
<1>6. \A n \in 0..Depth : b[n] = a[n]
  BY <1>5 DEF T
<1> QED BY <1>1, <1>6 DEF Upwards

(* i is in the same place at the top, and has the same in it.               *)
SameInside(w, v, i) ==
  /\ Root(v, i) = Root(w, i)
  /\ \A j \in Items : Holds(v, i, j) <=> Holds(w, i, j)

(* That is so if k is not i, was not around it, and is not in it.           *)
LEMMA InsideKept ==
  ASSUME NEW w, NEW v, NEW k \in Items, MovesOnly(w, v, k), NEW i \in Items,
         i # k, ~Holds(w, k, i), ~Holds(w, i, k), ~Holds(v, i, k)
  PROVE  SameInside(w, v, i)
<1>1. MovesOnly(v, w, k)
  BY DEF MovesOnly
<1>2. ASSUME NEW j \in Items  PROVE Holds(v, i, j) <=> Holds(w, i, j)
  <2>1. CASE j = k
    BY <2>1
  <2>2. CASE j # k
    BY <1>1, <2>2, HoldsKept
  <2> QED BY <2>1, <2>2
<1>3. Root(v, i) = Root(w, i)
  BY AboveKept
<1> QED BY <1>2, <1>3 DEF SameInside

-----------------------------------------------------------------------------
(* Offers, while items move; xs are swapping theirs now.                    *)

(* i lies where p can get at it, or he has it.                              *)
Near(w, p, i) ==
  \/ Root(w, i) \in Tiles /\ InRange(w.at[p], Root(w, i), 1)
  \/ Root(w, i) = p /\ w.at[p] \in Tiles

(* So lies everything on offer.                                             *)
Held(w, xs) ==
  \A p \in Players \ xs : w.tradeItem[p] # NoItem => Near(w, p, w.tradeItem[p])

(* p's trade came to an end.                                                *)
Ended(v, p) == v.tradeItem[p] = NoItem /\ v.tradePartner[p] = NoPlayer

(* p's trade is what it was.                                                *)
SameTrade(w, v, p) ==
  v.tradeItem[p] = w.tradeItem[p] /\ v.tradePartner[p] = w.tradePartner[p]

(* Nothing of what i is or has in it is taken, added or another number.     *)
SameOffer(w, v, i) ==
  /\ SameInside(w, v, i)
  /\ \A j \in Stacks : j = i \/ Holds(w, i, j) => v.count[j] = w.count[j]

(* Whoever offered something offers just the same, or nothing any more.     *)
Spared(w, v, xs) ==
  \A p \in Players \ xs :
    \/ Ended(v, p)
    \/ SameTrade(w, v, p) /\ (w.tradeItem[p] # NoItem => SameOffer(w, v, w.tradeItem[p]))

(* One step after the other.                                                *)
LEMMA SparedTwice ==
  ASSUME NEW w, NEW u, NEW v, NEW xs, Spared(w, u, xs), Spared(u, v, xs)
  PROVE  Spared(w, v, xs)
<1> SUFFICES ASSUME NEW p \in Players \ xs, ~Ended(v, p)
             PROVE  /\ SameTrade(w, v, p)
                    /\ w.tradeItem[p] # NoItem => SameOffer(w, v, w.tradeItem[p])
  BY DEF Spared
<1>1. SameTrade(u, v, p) /\ (u.tradeItem[p] # NoItem => SameOffer(u, v, u.tradeItem[p]))
  BY DEF Spared
<1>2. ~Ended(u, p)
  BY <1>1 DEF Ended, SameTrade
<1>3. SameTrade(w, u, p) /\ (w.tradeItem[p] # NoItem => SameOffer(w, u, w.tradeItem[p]))
  BY <1>2 DEF Spared
<1>4. SameTrade(w, v, p) /\ u.tradeItem[p] = w.tradeItem[p]
  BY <1>1, <1>3 DEF SameTrade
<1> DEFINE i == w.tradeItem[p]
<1>5. i # NoItem => SameOffer(w, u, i) /\ SameOffer(u, v, i)
  BY <1>1, <1>3, <1>4
<1> HIDE DEF i
<1>6. i # NoItem => SameOffer(w, v, i)
  <2> SUFFICES ASSUME i # NoItem  PROVE SameOffer(w, v, i)
    OBVIOUS
  <2>1. SameInside(w, v, i)
    BY <1>5 DEF SameOffer, SameInside
  <2>2. ASSUME NEW j \in Stacks, j = i \/ Holds(w, i, j)  PROVE v.count[j] = w.count[j]
    <3>1. j \in Items
      BY DEF Items
    <3>2. j = i \/ Holds(u, i, j)
      BY <1>5, <2>2, <3>1 DEF SameOffer, SameInside
    <3> QED BY <1>5, <2>2, <3>2 DEF SameOffer
  <2> QED BY <2>1, <2>2 DEF SameOffer
<1> QED BY <1>4, <1>6 DEF i

(* What is offered stays near.                                              *)
LEMMA SparedHeld ==
  ASSUME NEW w, NEW v, NEW xs, Held(w, xs), Spared(w, v, xs), v.at = w.at
  PROVE  Held(v, xs)
  BY DEF Held, Spared, Ended, SameTrade, SameOffer, SameInside, Near

(* No offer is inside another one.                                          *)
Separate(w) ==
  \A p, q \in Players : p # q /\ w.tradeItem[p] # NoItem /\ w.tradeItem[q] # NoItem =>
    ~Holds(w, w.tradeItem[p], w.tradeItem[q])

(* It does not come into one.                                               *)
LEMMA SparedSeparate ==
  ASSUME NEW w, TradeTypes(w, {}), NEW v, Separate(w), Spared(w, v, {})
  PROVE  Separate(v)
<1> SUFFICES ASSUME NEW p \in Players, NEW q \in Players, p # q,
                    v.tradeItem[p] # NoItem, v.tradeItem[q] # NoItem
             PROVE  ~Holds(v, v.tradeItem[p], v.tradeItem[q])
  BY DEF Separate
<1>1. /\ v.tradeItem[p] = w.tradeItem[p] /\ v.tradeItem[q] = w.tradeItem[q]
      /\ SameOffer(w, v, w.tradeItem[p])
  BY DEF Spared, Ended, SameTrade
<1>2. w.tradeItem[q] \in Items
  BY <1>1 DEF TradeTypes
<1> QED BY <1>1, <1>2 DEF Separate, SameOffer, SameInside

(* v is w after the trades of ps were closed.                               *)
Closed(w, v, xs, ps) ==
  /\ SameItems(w, v) /\ TradeTypes(v, xs) /\ v.at = w.at
  /\ \A p \in Players \ xs : Ended(v, p) \/ (p \notin ps /\ SameTrade(w, v, p))

(* Game::internalCloseTrade.                                                *)
LEMMA CloseFacts ==
  ASSUME NEW w, ItemFields \subseteq DOMAIN w, NEW xs, TradeTypes(w, xs), NEW ps
  PROVE  Closed(w, CloseTrades(w, ps), xs, ps)
<1> USE WorldAssumption
<1> DEFINE both == {p \in Players : /\ p \in ps \/ w.tradePartner[p] \in ps
                                    /\ w.tradeState[p] # "transfer"}
           v == CloseTrades(w, ps)
<1>1. SameItems(w, v)
  BY CloseSame
<1>2. \A p \in Players \ xs : p \in ps => p \in both
  BY DEF TradeTypes
<1>3. CASE both = {}
  <2>1. v = w
    BY <1>3 DEF CloseTrades
  <2> QED BY <1>1, <1>2, <1>3, <2>1 DEF Closed, SameTrade
<1>4. CASE both # {}
  <2>1. v = CloseOwnTrades(w, both)
    BY <1>4 DEF CloseTrades
  <2>2. \A p \in both : p \notin xs
    BY DEF TradeTypes
  <2> HIDE DEF v, both
  <2>3. /\ TradeFields \subseteq DOMAIN v
        /\ v.tradeState = [p \in Players |-> IF p \in both THEN "none" ELSE w.tradeState[p]]
        /\ v.tradePartner = [p \in Players |-> IF p \in both THEN NoPlayer ELSE w.tradePartner[p]]
        /\ v.tradeItem = [p \in Players |-> IF p \in both THEN NoItem ELSE w.tradeItem[p]]
        /\ v.at = w.at
    BY <2>1 DEF TradeTypes, TradeFields, CloseOwnTrades
  <2>4. TradeTypes(v, xs)
    BY <2>2, <2>3 DEF TradeTypes
  <2>5. \A p \in Players \ xs : Ended(v, p) \/ (p \notin ps /\ SameTrade(w, v, p))
    BY <1>2, <2>3 DEF Ended, SameTrade
  <2> QED BY <1>1, <2>3, <2>4, <2>5 DEF Closed, v
<1> QED BY <1>3, <1>4

(* v differs from w in items, not in trades.                                *)
SameDeals(w, v) ==
  /\ TradeFields \subseteq DOMAIN v
  /\ v.tradeState = w.tradeState /\ v.tradePartner = w.tradePartner
  /\ v.tradeItem = w.tradeItem /\ v.at = w.at

(* At the top of cylinder c.                                                *)
Seat(w, c) == IF c \in Bags THEN Root(w, c) ELSE c

(* Who offers something that is in c or around it is told of changes in c.   *)
LEMMA NearWatches ==
  ASSUME NEW w, NEW xs, TradeTypes(w, xs), NEW p \in Players, NEW i \in Items,
         Near(w, p, i), NEW c \in Places, Seat(w, c) = Root(w, i)
  PROVE  p \in Watching(w, c)
<1> USE WorldAssumption
<1>1. Tiles \subseteq Nat /\ w.at \in [Players -> Tiles \cup {Nowhere}]
  BY DEF TradeTypes
<1>2. CASE c \in Players
  <2>1. Root(w, i) = c /\ c \notin Tiles
    BY <1>2 DEF Seat, Items
  <2> QED BY <1>2, <2>1 DEF Near, Watching
<1>3. CASE c \in Tiles
  <2>1. c \notin Players /\ w.at[p] \in Tiles
    BY <1>3 DEF Near, InRange
  <2>2. w.at[p] # Nowhere
    BY <2>1
  <2> QED BY <1>3, <2>1, <2>2 DEF Watching
<1>4. CASE c \in Bags
  <2>1. c \notin Players /\ c \notin Tiles /\ Root(w, c) = Root(w, i)
    BY <1>4 DEF Seat, Items
  <2>2. PositionOf(w, c) = IF Root(w, i) \in Players THEN w.at[Root(w, i)] ELSE Root(w, i)
    BY <1>4, <2>1 DEF PositionOf
  <2>3. InRange(w.at[p], PositionOf(w, c), 2)
    <3>1. CASE Root(w, i) \in Tiles /\ InRange(w.at[p], Root(w, i), 1)
      <4> DEFINE a == w.at[p]
                 b == Root(w, i)
      <4>1. a \in Tiles /\ b \in Tiles /\ a - b \in -1..1
        BY <3>1 DEF InRange
      <4>2. PositionOf(w, c) = b
        BY <2>2, <3>1
      <4> HIDE DEF a, b
      <4>3. a \in Int /\ b \in Int
        BY <1>1, <4>1
      <4>4. a - b \in -2..2
        BY <4>1, <4>3
      <4> QED BY <4>1, <4>2, <4>4 DEF InRange, a
    <3>2. CASE Root(w, i) = p /\ w.at[p] \in Tiles
      <4> DEFINE a == w.at[p]
      <4>1. a \in Tiles /\ PositionOf(w, c) = a
        BY <2>2, <3>2
      <4> HIDE DEF a
      <4>2. a - a \in -2..2
        BY <1>1, <4>1
      <4> QED BY <4>1, <4>2 DEF InRange, a
    <3> QED BY <3>1, <3>2 DEF Near
  <2> QED BY <2>1, <2>3 DEF Watching
<1> QED BY <1>2, <1>3, <1>4 DEF Places

-----------------------------------------------------------------------------
(* What is told of one change.                                              *)

(* Trades are as they should be while xs swap.                              *)
Dealing(w, xs) == TradeTypes(w, xs) /\ Held(w, xs)

(* No offer was changed on the way from w to v.                             *)
Fair(w, v, xs) == TradeTypes(v, xs) /\ v.at = w.at /\ Spared(w, v, xs)

(* One step after the other.                                                *)
LEMMA FairTwice ==
  ASSUME NEW w, NEW u, NEW v, NEW xs, Fair(w, u, xs), Fair(u, v, xs)
  PROVE  Fair(w, v, xs)
  BY SparedTwice DEF Fair

(* So it can go on.                                                         *)
LEMMA FairDealing ==
  ASSUME NEW w, NEW v, NEW xs, Dealing(w, xs), Fair(w, v, xs)
  PROVE  Dealing(v, xs)
  BY SparedHeld DEF Fair, Dealing

(* What is where depends on parents only.                                   *)
LEMMA SameParents ==
  ASSUME NEW w, NEW v, v.parent = w.parent
  PROVE  /\ \A x : Root(v, x) = Root(w, x) /\ Seat(v, x) = Seat(w, x)
         /\ \A b, x : Holds(v, b, x) <=> Holds(w, b, x)
  BY DEF Root, Seat, Holds, Above

(* What has something to do with each other has the same root.              *)
LEMMA RelatedRoots ==
  ASSUME NEW w, ParentTypes(w), NoKnot(w), NEW i \in Items, NEW k \in Items,
         i = k \/ Holds(w, k, i) \/ Holds(w, i, k)
  PROVE  Root(w, i) = Root(w, k)
<1> USE WorldAssumption
<1>1. ASSUME NEW a \in Items, NEW b \in Items, Holds(w, b, a)  PROVE Root(w, a) = Root(w, b)
  <2>1. b \in Bags
    <3>1. b \in Places \cup {Nowhere}
      BY <1>1, HolderPlace
    <3> QED BY <3>1 DEF Places
  <2> QED BY <1>1, <2>1, HoldsFacts
<1> QED BY <1>1

(* A cylinder is at the root of what is in it.                              *)
LEMMA SeatFacts ==
  ASSUME NEW w, ParentTypes(w), NoKnot(w), NEW k \in Items, NEW c, c = w.parent[k]
  PROVE  Seat(w, c) = Root(w, k)
  BY OutermostFacts, InnerFacts DEF Seat

(* What is nowhere is no offer, in none, and has none in it.                *)
LEMMA NowhereOffered ==
  ASSUME NEW w, ParentTypes(w), NoKnot(w), NEW p \in Players, NEW i \in Items, Near(w, p, i),
         NEW k \in Items, w.parent[k] = Nowhere
  PROVE  i # k /\ ~Holds(w, k, i) /\ ~Holds(w, i, k)
<1> USE WorldAssumption
<1>1. Nowhere \notin Bags
  BY DEF Items
<1>2. Root(w, k) = Nowhere /\ \A b : Holds(w, b, k) => b = Nowhere
  BY <1>1, OutermostFacts
<1>3. Root(w, i) # Nowhere
  BY DEF Near
<1>4. i # k /\ ~Holds(w, k, i)
  BY <1>2, <1>3, RelatedRoots
<1> QED BY <1>2, <1>4

(* Nothing happened to what is on offer in i when k went or came.           *)
Missed(w, v, i, k) == i # k /\ ~Holds(w, k, i) /\ ~Holds(w, i, k) /\ ~Holds(v, i, k)

(* If that is so of all offers still made, they were spared.                *)
LEMMA MoveSpares ==
  ASSUME NEW w, NEW v, NEW k \in Items, MovesOnly(w, v, k),
         \A j \in Stacks : j # k => v.count[j] = w.count[j],
         NEW xs, TradeTypes(w, xs),
         \A p \in Players \ xs :
           \/ Ended(v, p)
           \/ SameTrade(w, v, p) /\ (w.tradeItem[p] # NoItem => Missed(w, v, w.tradeItem[p], k))
  PROVE  Spared(w, v, xs)
<1> SUFFICES ASSUME NEW p \in Players \ xs, NEW i, i = w.tradeItem[p], i # NoItem,
                    Missed(w, v, i, k)
             PROVE  SameOffer(w, v, i)
  BY DEF Spared
<1>1. i \in Items
  BY DEF TradeTypes
<1>2. SameInside(w, v, i)
  BY <1>1, InsideKept DEF Missed
<1> QED BY <1>2 DEF SameOffer, Missed

(* The same when k changes its number.                                      *)
LEMMA RecountSpares ==
  ASSUME NEW w, NEW v, NEW k, v.parent = w.parent,
         \A j \in Stacks : j # k => v.count[j] = w.count[j], NEW xs,
         \A p \in Players \ xs :
           \/ Ended(v, p)
           \/ /\ SameTrade(w, v, p)
              /\ w.tradeItem[p] # NoItem => w.tradeItem[p] # k /\ ~Holds(w, w.tradeItem[p], k)
  PROVE  Spared(w, v, xs)
<1> SUFFICES ASSUME NEW p \in Players \ xs, NEW i, i = w.tradeItem[p], i # NoItem,
                    i # k, ~Holds(w, i, k)
             PROVE  SameOffer(w, v, i)
  BY DEF Spared
<1>1. SameInside(w, v, i)
  BY SameParents DEF SameInside
<1> QED BY <1>1 DEF SameOffer

(* The number of a stack that is nowhere does not matter.                   *)
LEMMA NowhereFair ==
  ASSUME NEW w, ParentTypes(w), NoKnot(w), NEW xs, Dealing(w, xs),
         NEW k \in Stacks, w.parent[k] = Nowhere,
         NEW v, SameDeals(w, v), v.parent = w.parent,
         \A j \in Stacks : j # k => v.count[j] = w.count[j]
  PROVE  Fair(w, v, xs)
<1>1. k \in Items
  BY DEF Items
<1>2. ASSUME NEW p \in Players \ xs, w.tradeItem[p] # NoItem
      PROVE  w.tradeItem[p] # k /\ ~Holds(w, w.tradeItem[p], k)
  <2> DEFINE i == w.tradeItem[p]
  <2>1. i \in Items /\ Near(w, p, i)
    BY <1>2 DEF Dealing, Held, TradeTypes
  <2> HIDE DEF i
  <2>2. i # k /\ ~Holds(w, i, k)
    BY <1>1, <2>1, NowhereOffered
  <2> QED BY <2>2 DEF i
<1>3. \A p \in Players : SameTrade(w, v, p)
  BY DEF SameDeals, SameTrade
<1>4. Spared(w, v, xs)
  BY <1>2, <1>3, RecountSpares
<1>5. TradeTypes(v, xs) /\ v.at = w.at
  BY DEF Dealing, SameDeals, TradeTypes
<1> QED BY <1>4, <1>5 DEF Fair

(* What differs from w in items only is as fair as w.                       *)
LEMMA DealsFair ==
  ASSUME NEW w, NEW xs, TradeTypes(w, xs), NEW v, SameDeals(w, v), v.parent = w.parent,
         v.count = w.count
  PROVE  Fair(w, v, xs)
<1>1. \A p \in Players : SameTrade(w, v, p)
  BY DEF SameDeals, SameTrade
<1>2. \A i : SameOffer(w, v, i)
  BY SameParents DEF SameOffer, SameInside
<1>3. Spared(w, v, xs)
  BY <1>1, <1>2 DEF Spared
<1>4. TradeTypes(v, xs) /\ v.at = w.at
  BY DEF SameDeals, TradeTypes
<1> QED BY <1>3, <1>4 DEF Fair

(* __updateThing: a player with the stack on offer, or with what it is in,    *)
(* sees that its number changes.                                            *)
LEMMA UpdateFair ==
  ASSUME NEW w, Laid(w), NEW xs, Dealing(w, xs), NEW k \in Stacks,
         NEW c, c = w.parent[k], c # Nowhere, NEW n, NEW v, v = UpdateThing(w, c, k, n)
  PROVE  Fair(w, v, xs)
<1> USE WorldAssumption
<1>1. /\ ParentTypes(w) /\ NoKnot(w) /\ ItemFields \subseteq DOMAIN w /\ k \in Items
      /\ TradeTypes(w, xs) /\ TradeFields \subseteq DOMAIN w /\ w.count \in [Stacks -> 0..StackMax]
  BY DEF Laid, PlaceTypes, Dealing, TradeTypes, Items
<1>2. c \in Places
  BY <1>1 DEF ParentTypes
<1> DEFINE y == [w EXCEPT !.count[k] = n]
           x == IF c \in Bags THEN UpdateItemWeight(y, c, n - w.count[k]) ELSE y
           ps == {p \in Watching(x, c) :
                   IF c \in Tiles THEN x.tradeItem[p] = k ELSE Concerns(x, p, k)}
<1>3. v = CloseTrades(x, ps)
  BY DEF UpdateThing, BagUpdateThing, NotifyUpdate
<1>4. /\ ItemFields \subseteq DOMAIN x /\ x.parent = w.parent /\ SameDeals(w, x)
      /\ x.count = [w.count EXCEPT ![k] = n]
  BY <1>1 DEF ItemFields, TradeFields, SameDeals, UpdateItemWeight
<1> HIDE DEF x, ps
<1>5. TradeTypes(x, xs)
  BY <1>1, <1>4 DEF SameDeals, TradeTypes
<1>6. Closed(x, v, xs, ps)
  BY <1>3, <1>4, <1>5, CloseFacts
<1>7. ASSUME NEW p \in Players \ xs, ~Ended(v, p), NEW i, i = w.tradeItem[p], i # NoItem
      PROVE  i # k /\ ~Holds(w, i, k)
  <2> SUFFICES ASSUME i = k \/ Holds(w, i, k)  PROVE p \in ps
    BY <1>6, <1>7 DEF Closed
  <2>1. i \in Items /\ Near(w, p, i)
    BY <1>7 DEF Dealing, Held, TradeTypes
  <2>2. Root(w, i) = Root(w, k) /\ Seat(w, c) = Root(w, k)
    BY <1>1, <2>1, RelatedRoots, SeatFacts
  <2>3. /\ Root(x, i) = Root(w, i) /\ Seat(x, c) = Seat(w, c)
        /\ \A b, z : Holds(x, b, z) <=> Holds(w, b, z)
    BY <1>4, SameParents
  <2>4. Near(x, p, i)
    BY <1>4, <2>1, <2>3 DEF Near, SameDeals
  <2>5. p \in Watching(x, c)
    BY <1>2, <1>5, <2>1, <2>2, <2>3, <2>4, NearWatches
  <2>6. x.tradeItem[p] = i
    BY <1>4, <1>7 DEF SameDeals
  <2>7. Concerns(x, p, k)
    BY <1>7, <2>3, <2>6 DEF Concerns
  <2>8. c \in Tiles => i = k
    <3>1. c \in Tiles => c \notin Bags /\ c \notin Items
      BY DEF Items
    <3>2. c \in Tiles => (Holds(w, i, k) => i = c)
      BY <1>1, <3>1, OutermostFacts
    <3> QED BY <2>1, <3>1, <3>2
  <2> QED BY <2>5, <2>6, <2>7, <2>8 DEF ps
<1>8. \A p \in Players \ xs :
        \/ Ended(v, p)
        \/ /\ SameTrade(w, v, p)
           /\ w.tradeItem[p] # NoItem => w.tradeItem[p] # k /\ ~Holds(w, w.tradeItem[p], k)
  BY <1>4, <1>6, <1>7 DEF Closed, SameDeals, SameTrade
<1>9. v.parent = w.parent /\ \A j \in Stacks : j # k => v.count[j] = w.count[j]
  BY <1>1, <1>4, <1>6 DEF Closed, SameItems, SamePlaces
<1>10. Spared(w, v, xs)
  BY <1>8, <1>9, RecountSpares
<1>11. TradeTypes(v, xs) /\ v.at = w.at
  BY <1>4, <1>6 DEF Closed, SameDeals
<1> QED BY <1>10, <1>11 DEF Fair

(* What is in k, which is in c, is in c and not directly.                   *)
LEMMA FurtherDown ==
  ASSUME NEW w, ParentTypes(w), NoKnot(w), NEW k \in Items, NEW c \in Bags, c = w.parent[k],
         NEW i \in Items, Holds(w, k, i)
  PROVE  w.parent[i] # c /\ Holds(w, c, i)
<1> USE WorldAssumption
<1>1. k \in Bags
  <2>1. k \in Places \cup {Nowhere}
    BY HolderPlace
  <2> QED BY <2>1 DEF Places
<1>2. Holds(w, c, i)
  BY <1>1, HoldsFacts
<1>3. w.parent[i] # c
  <2> SUFFICES ASSUME w.parent[i] = c  PROVE FALSE
    OBVIOUS
  <2>1. k = c \/ Holds(w, k, c)
    BY InnerFacts
  <2>2. c \in Items
    BY DEF Items
  <2>3. CASE k = c
    <3>1. Holds(w, c, c)
      BY <2>2, <2>3, InnerFacts
    <3> QED BY <3>1, HoldsFacts
  <2>4. CASE Holds(w, k, c)
    <3>1. Holds(w, c, c)
      BY <1>1, <2>2, <2>4, HoldsFacts
    <3> QED BY <3>1, HoldsFacts
  <2> QED BY <2>1, <2>3, <2>4
<1> QED BY <1>2, <1>3

(* __removeThing of a whole item: a player with it on offer, or with          *)
(* something in it or around it, sees that it goes.                         *)
LEMMA RemoveFair ==
  ASSUME NEW w, Laid(w), NEW xs, Dealing(w, xs), NEW k \in Items,
         NEW c, c = w.parent[k], c # Nowhere, NEW n, k \in Stacks => n = w.count[k],
         NEW v, v = RemoveThing(w, c, k, n)
  PROVE  Fair(w, v, xs)
<1> USE WorldAssumption
<1>1. /\ ParentTypes(w) /\ NoKnot(w) /\ ItemFields \subseteq DOMAIN w
      /\ TradeTypes(w, xs) /\ TradeFields \subseteq DOMAIN w
  BY DEF Laid, PlaceTypes, Dealing, TradeTypes
<1>2. c \in Places
  BY <1>1 DEF ParentTypes
<1>3. TakenOut(w, v, k) /\ Laid(v)
  <2>1. TakenOut(w, v, k)
    BY RemoveFacts
  <2> QED BY <2>1, TakenOutLaid
<1>4. /\ v.parent = [w.parent EXCEPT ![k] = Nowhere] /\ v.count = w.count
      /\ ParentTypes(v) /\ NoKnot(v)
  BY <1>3 DEF TakenOut, Laid, PlaceTypes
<1>5. MovesOnly(w, v, k) /\ v.parent[k] = Nowhere
  BY <1>1, <1>4 DEF MovesOnly, ParentTypes
<1>6. ASSUME NEW p \in Players \ xs, NEW i, i = w.tradeItem[p], i # NoItem
      PROVE  i \in Items /\ Near(w, p, i) /\ ~Holds(v, i, k)
  <2>1. i \in Items /\ Near(w, p, i)
    BY <1>6 DEF Dealing, Held, TradeTypes
  <2>2. Nowhere \notin Bags /\ i # Nowhere
    BY <2>1 DEF Items
  <2>3. ~Holds(v, i, k)
    BY <1>4, <1>5, <2>2, OutermostFacts
  <2> QED BY <2>1, <2>3
<1>7. ASSUME NEW p \in Players \ xs, NEW i, i = w.tradeItem[p], i # NoItem,
             ~Missed(w, v, i, k)
      PROVE  /\ i = k \/ Holds(w, k, i) \/ Holds(w, i, k)
             /\ p \in Watching(w, c)
  <2>1. i \in Items /\ Near(w, p, i) /\ (i = k \/ Holds(w, k, i) \/ Holds(w, i, k))
    BY <1>6, <1>7 DEF Missed
  <2>2. Root(w, i) = Root(w, k) /\ Seat(w, c) = Root(w, k)
    BY <1>1, <2>1, RelatedRoots, SeatFacts
  <2> QED BY <1>1, <1>2, <2>1, <2>2, NearWatches
(* Players and containers tell it before, *)
<1>8. ASSUME c \notin Tiles
      PROVE  /\ v.at = w.at /\ TradeTypes(v, xs)
             /\ \A p \in Players \ xs :
                  \/ Ended(v, p)
                  \/ SameTrade(w, v, p)
                     /\ (w.tradeItem[p] # NoItem => Missed(w, v, w.tradeItem[p], k))
  <2> DEFINE y == NotifyRemove(w, c, k)
             ps == {p \in Watching(w, c) :
                     IF c \in Bags THEN TradeLeavesBag(w, p, c, k) ELSE TradeLeaves(w, p, k)}
  <2>1. Closed(w, y, xs, ps)
    <3>1. y = CloseTrades(w, ps)
      BY DEF NotifyRemove
    <3> HIDE DEF y, ps
    <3> QED BY <1>1, <3>1, CloseFacts
  <2>2. SameDeals(y, v)
    <3>1. TradeFields \subseteq DOMAIN y
      BY <2>1 DEF Closed, TradeTypes
    <3> HIDE DEF y
    <3>2. \/ c \in Players /\ v = PlayerRemoveThing(w, c, k)
          \/ c \in Bags /\ v = BagRemoveThing(w, c, k)
      BY <1>2, <1>8 DEF RemoveThing, Places, Items
    <3>3. CASE v = PlayerRemoveThing(w, c, k)
      BY <3>1, <3>3 DEF PlayerRemoveThing, SameDeals, TradeFields, y
    <3>4. CASE v = BagRemoveThing(w, c, k)
      BY <3>1, <3>4 DEF BagRemoveThing, UpdateItemWeight, SameDeals, TradeFields, y
    <3> QED BY <3>2, <3>3, <3>4
  <2> HIDE DEF y
  <2>3. v.at = w.at /\ TradeTypes(v, xs)
    BY <2>1, <2>2 DEF Closed, SameDeals, TradeTypes
  <2>4. ASSUME NEW p \in Players \ xs, NEW i, i = w.tradeItem[p], i # NoItem,
               ~Missed(w, v, i, k)
        PROVE  p \in ps
    <3>1. i \in Items /\ p \in Watching(w, c) /\ (i = k \/ Holds(w, k, i) \/ Holds(w, i, k))
      BY <1>6, <1>7, <2>4
    <3>2. CASE c \in Bags
      <4>1. TradeLeavesBag(w, p, c, k)
        <5>1. CASE i = k \/ Holds(w, i, k)
          BY <2>4, <5>1 DEF TradeLeavesBag, Concerns
        <5>2. CASE Holds(w, k, i)
          <6>1. w.parent[i] # c /\ Holds(w, c, i)
            BY <1>1, <3>1, <3>2, <5>2, FurtherDown
          <6> QED BY <2>4, <6>1 DEF TradeLeavesBag
        <5> QED BY <3>1, <5>1, <5>2
      <4> QED BY <3>1, <3>2, <4>1
    <3>3. CASE c \notin Bags
      <4>1. TradeLeaves(w, p, k)
        BY <2>4, <3>1 DEF TradeLeaves, Concerns
      <4> QED BY <3>1, <3>3, <4>1
    <3> QED BY <3>2, <3>3
  <2> HIDE DEF ps
  <2>5. \A p \in Players \ xs :
          \/ Ended(v, p)
          \/ SameTrade(w, v, p)
             /\ (w.tradeItem[p] # NoItem => Missed(w, v, w.tradeItem[p], k))
    BY <2>1, <2>2, <2>4 DEF Closed, SameDeals, Ended, SameTrade
  <2> QED BY <2>3, <2>5
(* tiles after the fact. *)
<1>9. ASSUME c \in Tiles
      PROVE  /\ v.at = w.at /\ TradeTypes(v, xs)
             /\ \A p \in Players \ xs :
                  \/ Ended(v, p)
                  \/ SameTrade(w, v, p)
                     /\ (w.tradeItem[p] # NoItem => Missed(w, v, w.tradeItem[p], k))
  <2> DEFINE x == [w EXCEPT !.parent[k] = Nowhere,
                            !.list[c] = RemoveAt(@, IndexOf(w, c, k) + 1)]
             ps == {p \in Watching(x, c) : TradeLeaves(x, p, k)}
  <2>0. c \notin Players /\ c \notin Bags /\ c \notin Items
    BY <1>9 DEF Items
  <2>1. v = CloseTrades(x, ps)
    <3>1. v = TileRemoveThing(w, c, k)
      BY <2>0 DEF RemoveThing
    <3> QED BY <2>0, <3>1 DEF TileRemoveThing, NotifyRemove
  <2>2. /\ ItemFields \subseteq DOMAIN x /\ x.parent = [w.parent EXCEPT ![k] = Nowhere]
        /\ SameDeals(w, x)
    BY <1>1 DEF ItemFields, TradeFields, SameDeals
  <2> HIDE DEF x, ps
  <2>3. TradeTypes(x, xs) /\ MovesOnly(w, x, k)
    BY <1>1, <1>4, <1>5, <2>2 DEF SameDeals, TradeTypes, MovesOnly, ParentTypes, NoKnot
  <2>4. Closed(x, v, xs, ps)
    BY <2>1, <2>2, <2>3, CloseFacts
  <2>5. v.at = w.at /\ TradeTypes(v, xs)
    BY <2>2, <2>4 DEF Closed, SameDeals
  <2>6. ASSUME NEW p \in Players \ xs, NEW i, i = w.tradeItem[p], i # NoItem,
               ~Missed(w, v, i, k)
        PROVE  p \in ps
    <3>1. i \in Items /\ p \in Watching(w, c) /\ (i = k \/ Holds(w, k, i) \/ Holds(w, i, k))
      BY <1>6, <1>7, <2>6
    <3>2. p \in Watching(x, c) /\ x.tradeItem[p] = i
      BY <1>9, <2>0, <2>2, <2>6, <3>1 DEF Watching, SameDeals
    <3>3. ~Holds(w, i, k) /\ ~Holds(w, k, k)
      BY <1>1, <2>0, <3>1, OutermostFacts
    <3>4. CASE i = k
      BY <2>6, <3>2, <3>4 DEF TradeLeaves, Concerns, ps
    <3>5. CASE Holds(w, k, i)
      <4>1. i # k
        BY <3>3, <3>5
      <4>2. Holds(x, k, i)
        BY <2>3, <3>1, <3>3, <3>5, <4>1, HoldsKept
      <4> QED BY <2>6, <3>2, <4>2 DEF TradeLeaves, ps
    <3> QED BY <3>1, <3>3, <3>4, <3>5
  <2>7. \A p \in Players \ xs :
          \/ Ended(v, p)
          \/ SameTrade(w, v, p)
             /\ (w.tradeItem[p] # NoItem => Missed(w, v, w.tradeItem[p], k))
    BY <2>2, <2>4, <2>6 DEF Closed, SameDeals, Ended, SameTrade
  <2> QED BY <2>5, <2>7
<1>10. Spared(w, v, xs)
  BY <1>1, <1>4, <1>5, <1>8, <1>9, MoveSpares
<1> QED BY <1>8, <1>9, <1>10 DEF Fair

(* __addThing: a player with the container on offer, or with what it is in,   *)
(* sees that something comes into it; who offers nothing there is not       *)
(* concerned.                                                               *)
LEMMA AddFair ==
  ASSUME NEW w, Laid(w), NEW xs, Dealing(w, xs), NEW k \in Items, w.parent[k] = Nowhere,
         NEW c \in Places, c \in Bags /\ k \in Bags => Clear(w, c, k),
         NEW index \in Int, FreeAt(w, c, index),
         NEW v, v = AddThing(w, c, index, k)
  PROVE  Fair(w, v, xs)
<1> USE WorldAssumption
<1>1. /\ ParentTypes(w) /\ NoKnot(w) /\ ItemFields \subseteq DOMAIN w
      /\ TradeTypes(w, xs) /\ TradeFields \subseteq DOMAIN w
  BY DEF Laid, PlaceTypes, Dealing, TradeTypes
<1>2. PutIn(w, v, c, index, k) /\ Laid(v)
  <2>1. PutIn(w, v, c, index, k)
    BY AddFacts
  <2> QED BY <2>1, PutInLaid
<1>3. /\ v.parent = [w.parent EXCEPT ![k] = c] /\ v.count = w.count
      /\ ParentTypes(v) /\ NoKnot(v)
  BY <1>2 DEF PutIn, Laid, PlaceTypes
<1>4. MovesOnly(w, v, k) /\ v.parent[k] = c
  BY <1>1, <1>3 DEF MovesOnly, ParentTypes
<1>5. ASSUME NEW p \in Players \ xs, NEW i, i = w.tradeItem[p], i # NoItem
      PROVE  i \in Items /\ Near(w, p, i) /\ i # k /\ ~Holds(w, k, i) /\ ~Holds(w, i, k)
  <2>1. i \in Items /\ Near(w, p, i)
    BY <1>5 DEF Dealing, Held, TradeTypes
  <2> QED BY <1>1, <2>1, NowhereOffered
<1>6. CASE c \notin Bags
  <2>1. SameDeals(w, v)
    <3>1. CASE c \in Players
      <4>1. v = [w EXCEPT !.parent[k] = c, !.slot[c][index] = k]
        BY <3>1 DEF AddThing, PlayerAddThing, FreeAt
      <4> QED BY <1>1, <4>1 DEF SameDeals, TradeFields
    <3>2. CASE c \notin Players
      <4>1. v = [w EXCEPT !.parent[k] = c, !.list[c] = <<k>> \o @]
        BY <1>6, <3>2 DEF AddThing, TileAddThing
      <4> QED BY <1>1, <4>1 DEF SameDeals, TradeFields
    <3> QED BY <3>1, <3>2
  <2>2. TradeTypes(v, xs) /\ v.at = w.at /\ \A p \in Players : SameTrade(w, v, p)
    BY <1>1, <2>1 DEF SameDeals, TradeTypes, SameTrade
  <2>3. ASSUME NEW p \in Players \ xs, NEW i, i = w.tradeItem[p], i # NoItem
        PROVE  Missed(w, v, i, k)
    <3>1. i # c
      BY <1>5, <1>6, <2>3 DEF Places
    <3>2. ~Holds(v, i, k)
      BY <1>3, <1>4, <1>6, <3>1, OutermostFacts
    <3> QED BY <1>5, <2>3, <3>2 DEF Missed
  <2>4. Spared(w, v, xs)
    BY <1>1, <1>3, <1>4, <2>2, <2>3, MoveSpares
  <2> QED BY <2>2, <2>4 DEF Fair
<1>7. CASE c \in Bags
  <2> DEFINE x == [w EXCEPT !.parent[k] = c, !.list[c] = <<k>> \o @]
             y == UpdateItemWeight(x, c, Weight(w, k))
             ps == {p \in Watching(y, c) : Concerns(y, p, k)}
  <2>1. v = CloseTrades(y, ps)
    <3>1. c \notin Players /\ ~(index >= Room)
      BY <1>7 DEF FreeAt, Items
    <3> QED BY <1>7, <3>1 DEF AddThing, BagAddThing, NotifyAdd
  <2>2. /\ ItemFields \subseteq DOMAIN y /\ y.parent = [w.parent EXCEPT ![k] = c]
        /\ SameDeals(w, y)
    BY <1>1 DEF ItemFields, TradeFields, SameDeals, UpdateItemWeight
  <2> HIDE DEF x, y, ps
  <2>3. TradeTypes(y, xs)
    BY <1>1, <2>2 DEF SameDeals, TradeTypes
  <2>4. Closed(y, v, xs, ps)
    BY <2>1, <2>2, <2>3, CloseFacts
  <2>5. v.at = w.at /\ TradeTypes(v, xs)
    BY <2>2, <2>4 DEF Closed, SameDeals
  <2>6. ASSUME NEW p \in Players \ xs, NEW i, i = w.tradeItem[p], i # NoItem,
               ~Missed(w, v, i, k)
        PROVE  p \in ps
    <3>1. i \in Items /\ Near(w, p, i) /\ i # k /\ ~Holds(w, k, i) /\ Holds(v, i, k)
      BY <1>5, <2>6 DEF Missed
    <3>2. /\ Root(y, i) = Root(v, i) /\ Seat(y, c) = Seat(v, c)
          /\ \A b, z : Holds(y, b, z) <=> Holds(v, b, z)
      BY <1>3, <2>2, SameParents
    <3>3. Root(v, i) = Root(w, i)
      BY <1>4, <3>1, AboveKept
    <3>4. Root(v, i) = Root(v, k) /\ Seat(v, c) = Root(v, k)
      BY <1>3, <1>4, <3>1, RelatedRoots, SeatFacts
    <3>5. Near(y, p, i)
      BY <2>2, <3>1, <3>2, <3>3 DEF Near, SameDeals
    <3>6. p \in Watching(y, c)
      BY <2>3, <3>1, <3>2, <3>4, <3>5, NearWatches
    <3>7. Concerns(y, p, k)
      BY <2>2, <2>6, <3>1, <3>2 DEF Concerns, SameDeals
    <3> QED BY <3>6, <3>7 DEF ps
  <2>7. \A p \in Players \ xs :
          \/ Ended(v, p)
          \/ SameTrade(w, v, p)
             /\ (w.tradeItem[p] # NoItem => Missed(w, v, w.tradeItem[p], k))
    BY <2>2, <2>4, <2>6 DEF Closed, SameDeals, Ended, SameTrade
  <2>8. Spared(w, v, xs)
    BY <1>1, <1>3, <1>4, <2>7, MoveSpares
  <2> QED BY <2>5, <2>8 DEF Fair
<1> QED BY <1>6, <1>7

-----------------------------------------------------------------------------
(* What is told of a whole move.                                            *)

(* All of i departs, or a part of a stack.                                  *)
LEMMA DepartFair ==
  ASSUME NEW w, Laid(w), NEW xs, Dealing(w, xs), NEW i \in Items,
         NEW c, c = w.parent[i], c # Nowhere, NEW m \in 1..ItemCount(w, i),
         NEW u, u = Depart(w, c, i, m)
  PROVE  Fair(w, u, xs)
<1> USE WorldAssumption
<1> DEFINE r == RemoveThing(w, c, i, m)
<1>1. u = [r EXCEPT !.count = IF i \in Stacks /\ m = w.count[i] THEN [@ EXCEPT ![i] = 0] ELSE @]
  BY DEF Depart
<1>2. CASE Whole(w, i, m)
  <2>1. i \in Stacks => m = w.count[i]
    BY <1>2 DEF Whole
  <2>2. Fair(w, r, xs)
    BY <2>1, RemoveFair
  <2>3. TakenOut(w, r, i) /\ Laid(r)
    <3>1. TakenOut(w, r, i)
      BY <2>1, RemoveFacts
    <3> HIDE DEF r
    <3> QED BY <3>1, TakenOutLaid
  <2> HIDE DEF r
  <2>4. /\ ParentTypes(r) /\ NoKnot(r) /\ ItemFields \subseteq DOMAIN r
        /\ r.count \in [Stacks -> 0..StackMax] /\ ParentTypes(w)
        /\ r.parent = [w.parent EXCEPT ![i] = Nowhere]
    BY <2>3 DEF Laid, PlaceTypes, TakenOut
  <2>5. r.parent[i] = Nowhere /\ TradeTypes(r, xs) /\ Dealing(r, xs)
    BY <2>2, <2>4, FairDealing DEF Fair, ParentTypes
  <2>6. /\ SameDeals(r, u) /\ u.parent = r.parent
        /\ u.count = IF i \in Stacks /\ m = w.count[i] THEN [r.count EXCEPT ![i] = 0] ELSE r.count
    BY <1>1, <2>4, <2>5 DEF TradeTypes, TradeFields, SameDeals, ItemFields
  <2>7. Fair(r, u, xs)
    <3>1. CASE i \in Stacks
      <4>1. \A j \in Stacks : j # i => u.count[j] = r.count[j]
        BY <2>4, <2>6
      <4> QED BY <2>4, <2>5, <2>6, <3>1, <4>1, NowhereFair
    <3>2. CASE i \notin Stacks
      BY <2>5, <2>6, <3>2, DealsFair
    <3> QED BY <3>1, <3>2
  <2> QED BY <2>2, <2>7, FairTwice
<1>3. CASE ~Whole(w, i, m)
  <2>1. i \in Stacks /\ m # w.count[i]
    BY <1>3 DEF Whole
  <2>2. r = UpdateThing(w, c, i, w.count[i] - m)
    BY <2>1 DEF RemoveThing
  <2>3. Fair(w, r, xs)
    BY <2>1, <2>2, UpdateFair
  <2>4. Recounted(w, r, i, w.count[i] - m)
    BY <2>2, UpdateFacts DEF Laid, PlaceTypes
  <2> HIDE DEF r
  <2>5. ItemFields \subseteq DOMAIN r /\ TradeTypes(r, xs)
    BY <2>3, <2>4 DEF Recounted, Fair
  <2>6. SameDeals(r, u) /\ u.parent = r.parent /\ u.count = r.count
    BY <1>1, <2>1, <2>5 DEF TradeTypes, TradeFields, SameDeals, ItemFields
  <2>7. Fair(r, u, xs)
    BY <2>5, <2>6, DealsFair
  <2> QED BY <2>3, <2>7, FairTwice
<1> QED BY <1>2, <1>3

(* Pieces join the stack at d.                                              *)
LEMMA JoinFair ==
  ASSUME NEW w, Laid(w), NEW xs, Dealing(w, xs), NEW i \in Items, NEW d,
         NEW n \in Int, MayJoin(w, d, i, n), NEW v, v = Join(w, d, i, n)
  PROVE  Fair(w, v, xs) /\ Laid(v) /\ v.parent = w.parent /\ v.slot = w.slot
<1> USE WorldAssumption
<1>1. w.count \in [Stacks -> 0..StackMax] /\ ItemFields \subseteq DOMAIN w
      /\ TradeTypes(w, xs)
  BY DEF Laid, PlaceTypes, Dealing
<1>2. CASE SameType(i, d.item)
  <2> DEFINE j == d.item
             k == w.count[j] + n
             c == d.to
  <2>1. /\ j \in Stacks /\ w.parent[j] = c /\ c # Nowhere /\ k \in 0..StackMax
    BY <1>2 DEF MayJoin, SameType
  <2>2. v = UpdateThing(w, c, j, k)
    BY <1>2 DEF Join
  <2> HIDE DEF j, k, c
  <2>3. Fair(w, v, xs)
    BY <2>1, <2>2, UpdateFair
  <2>4. Recounted(w, v, j, k)
    BY <1>1, <2>2, UpdateFacts
  <2>5. v.count \in [Stacks -> 0..StackMax]
    BY <1>1, <2>1, <2>4 DEF Recounted
  <2>6. Laid(v)
    BY <2>4, <2>5, CountLaid DEF Recounted
  <2> QED BY <2>3, <2>4, <2>6 DEF Recounted
<1>3. CASE ~SameType(i, d.item)
  <2>1. v = w
    BY <1>3 DEF Join
  <2>2. SameDeals(w, w)
    BY <1>1 DEF SameDeals, TradeTypes
  <2> QED BY <1>1, <2>1, <2>2, DealsFair
<1> QED BY <1>2, <1>3

(* The rest arrives at d.                                                   *)
LEMMA ArriveFair ==
  ASSUME NEW w, Laid(w), NEW xs, Dealing(w, xs), NEW i \in Items, NEW d, NEW o,
         NEW rest, MayArrive(w, d, i, o, rest), NEW v, v = Arrive(w, d, i, o, rest)
  PROVE  Fair(w, v, xs) /\ ItemFields \subseteq DOMAIN v
<1> USE WorldAssumption
<1>1. /\ w.count \in [Stacks -> 0..StackMax] /\ ItemFields \subseteq DOMAIN w /\ StackMax \in Nat
      /\ ParentTypes(w) /\ NoKnot(w) /\ TradeTypes(w, xs)
  BY DEF Laid, PlaceTypes, Dealing
<1>2. SameDeals(w, w)
  BY <1>1 DEF SameDeals, TradeTypes
<1>3. CASE i \in Stacks /\ rest = 0
  <2>1. v = w
    BY <1>3 DEF Arrive
  <2> QED BY <1>1, <1>2, <2>1, DealsFair
<1>4. CASE ~(i \in Stacks /\ rest = 0)
  <2> DEFINE x == IF i \in Stacks THEN [w EXCEPT !.count[o] = rest] ELSE w
             c == d.to
             index == d.index
  <2>1. /\ o \in Items /\ w.parent[o] = Nowhere
        /\ IF i \in Stacks THEN o \in Stacks /\ rest \in 1..StackMax ELSE o = i
        /\ c \in Places /\ index \in Int /\ FreeAt(w, c, index)
        /\ c \in Bags /\ o \in Bags => Clear(w, c, o)
    BY <1>4 DEF MayArrive
  <2>2. v = AddThing(x, c, index, o)
    BY <1>4, <2>1 DEF Arrive
  <2> HIDE DEF c, index
  <2>3. /\ ItemFields \subseteq DOMAIN x
        /\ x.parent = w.parent /\ x.list = w.list /\ x.slot = w.slot
        /\ x.count = IF i \in Stacks THEN [w.count EXCEPT ![o] = rest] ELSE w.count
        /\ SameDeals(w, x)
    BY <1>1, <1>2 DEF ItemFields, SameDeals, TradeTypes, TradeFields
  <2> HIDE DEF x
  <2>4. x.count \in [Stacks -> 0..StackMax]
    BY <1>1, <2>1, <2>3
  <2>5. Laid(x)
    BY <2>3, <2>4, CountLaid
  <2>6. Fair(w, x, xs)
    <3>1. CASE i \in Stacks
      <4>1. o \in Stacks /\ \A j \in Stacks : j # o => x.count[j] = w.count[j]
        BY <1>1, <2>1, <2>3, <3>1
      <4> QED BY <1>1, <2>1, <2>3, <4>1, NowhereFair
    <3>2. CASE i \notin Stacks
      BY <1>1, <2>3, <3>2, DealsFair
    <3> QED BY <3>1, <3>2
  <2>7. Dealing(x, xs)
    BY <2>6, FairDealing
  <2>8. FreeAt(x, c, index) /\ (c \in Bags /\ o \in Bags => Clear(x, c, o)) /\ x.parent[o] = Nowhere
    BY <2>1, <2>3 DEF FreeAt, Clear
  <2>9. Fair(x, v, xs)
    BY <2>1, <2>2, <2>5, <2>7, <2>8, AddFair
  <2>10. PutIn(x, v, c, index, o)
    BY <2>1, <2>2, <2>5, <2>8, AddFacts
  <2> QED BY <2>6, <2>9, <2>10, FairTwice DEF PutIn
<1> QED BY <1>3, <1>4

(* Players who weigh their inventory again do nothing to trades.            *)
LEMMA PostFair ==
  ASSUME NEW w, ItemFields \subseteq DOMAIN w, NEW xs, TradeTypes(w, xs), NEW c, NEW d,
         NEW v, v = PostNotification(PostNotification(w, c), d)
  PROVE  Fair(w, v, xs)
<1>1. ASSUME NEW x, ItemFields \subseteq DOMAIN x, TradeTypes(x, xs), NEW e,
             NEW y, y = PostNotification(x, e)
      PROVE  Fair(x, y, xs) /\ ItemFields \subseteq DOMAIN y
  <2>1. SamePlaces(x, y)
    BY <1>1, PostSame
  <2>2. SameDeals(x, y)
    BY <1>1 DEF PostNotification, SameDeals, TradeTypes, TradeFields
  <2>3. y.parent = x.parent /\ y.count = x.count /\ ItemFields \subseteq DOMAIN y
    BY <2>1 DEF SamePlaces
  <2> QED BY <1>1, <2>2, <2>3, DealsFair
<1> DEFINE u == PostNotification(w, c)
<1>2. Fair(w, u, xs) /\ ItemFields \subseteq DOMAIN u
  BY <1>1
<1>3. v = PostNotification(u, d)
  OBVIOUS
<1> HIDE DEF u
<1>4. Fair(u, v, xs)
  BY <1>1, <1>2, <1>3 DEF Fair
<1> QED BY <1>2, <1>4, FairTwice

(* The whole transfer: what it does to an item on offer, ends its trade.     *)
LEMMA TransferFair ==
  ASSUME NEW w, Placed(w), NEW xs, Dealing(w, xs), NEW i \in Items, NEW d, NEW m,
         MayTransfer(w, d, i, m), NEW c, c = w.parent[i], NEW v, v = Transfer(w, c, d, i, m)
  PROVE  Fair(w, v, xs)
<1> DEFINE n == Joining(w, d, i, m)
           o == Arriving(w, i, m)
           u1 == Depart(w, c, i, m)
           u2 == Join(u1, d, i, n)
           u3 == Arrive(u2, d, i, o, m - n)
<1>1. v = PostNotification(PostNotification(u3, c), d.to)
  BY DEF Transfer, Joining, Arriving
<1>2. Laid(w) /\ c # Nowhere /\ m \in 1..ItemCount(w, i)
  BY DEF Placed, MayTransfer
<1>3. n \in Int
  BY <1>2, JoiningFacts
<1>4. /\ MayJoin(u1, d, i, n)
      /\ \A u : u.parent = u1.parent /\ u.slot = u1.slot => MayArrive(u, d, i, o, m - n)
  <2> HIDE DEF n, o, u1
  <2>1. u1 = Depart(w, c, i, m) /\ n = Joining(w, d, i, m) /\ o = Arriving(w, i, m)
    BY DEF u1, n, o
  <2> QED BY <2>1, TransferMay
<1>5. Laid(u1)
  <2>1. w.parent[i] # Nowhere /\ u1 = Depart(w, w.parent[i], i, m)
    BY <1>2
  <2> HIDE DEF u1
  <2> QED BY <1>2, <2>1, DepartFacts
<1> HIDE DEF n, o
<1>6. Fair(w, u1, xs)
  BY <1>2, DepartFair
<1> HIDE DEF u1
<1>7. Dealing(u1, xs)
  BY <1>6, FairDealing
<1>8. Fair(u1, u2, xs) /\ Laid(u2) /\ u2.parent = u1.parent /\ u2.slot = u1.slot
  BY <1>3, <1>4, <1>5, <1>7, JoinFair
<1> HIDE DEF u2
<1>9. Dealing(u2, xs)
  BY <1>7, <1>8, FairDealing
<1>10. Fair(u2, u3, xs) /\ ItemFields \subseteq DOMAIN u3
  <2> DEFINE rest == m - n
  <2>1. MayArrive(u2, d, i, o, rest) /\ u3 = Arrive(u2, d, i, o, rest)
    BY <1>4, <1>8
  <2> HIDE DEF rest, u3
  <2> QED BY <1>8, <1>9, <2>1, ArriveFair
<1> HIDE DEF u3
<1>11. Fair(u3, v, xs)
  <2>1. TradeTypes(u3, xs)
    BY <1>10 DEF Fair
  <2> DEFINE to == d.to
  <2>2. v = PostNotification(PostNotification(u3, c), to)
    BY <1>1
  <2> HIDE DEF to
  <2> QED BY <1>10, <2>1, <2>2, PostFair
<1>12. Fair(w, u2, xs)
  BY <1>6, <1>8, FairTwice
<1>13. Fair(w, u3, xs)
  BY <1>10, <1>12, FairTwice
<1> QED BY <1>11, <1>13, FairTwice

(* The worn item makes room, and its trade ends if it was on offer.         *)
LEMMA ExchangedFair ==
  ASSUME NEW w, Placed(w), NEW xs, Dealing(w, xs), NEW i \in Items, NEW c, NEW d,
         MakesRoom(w, c, d, i),
         NEW p, p = d.to, NEW old, old = d.item, NEW x, x = Exchanged(w, c, p, old)
  PROVE  Fair(w, x, xs)
<1> USE WorldAssumption
<1> DEFINE n == ItemCount(w, old)
           u == RemoveThing(w, p, old, n)
           v == AddThing(u, c, 0, old)
<1>1. Laid(w)
  BY DEF Placed
<1>2. old \in Stacks => n = w.count[old]
  BY DEF ItemCount
<1>3. /\ c \in Tiles \cup Bags /\ c \notin Players /\ p # Nowhere
      /\ old \in Items /\ w.parent[old] = p
      /\ Laid(u) /\ u.parent[old] = Nowhere
      /\ FreeAt(u, c, 0) /\ (c \in Bags => Clear(u, c, old))
  <2>1. Unworn(w, u, c, d)
    BY <1>1, RoomMade
  <2> HIDE DEF u
  <2> QED BY <2>1 DEF Unworn
<1>4. x = PostNotification(PostNotification(v, p), c)
  BY <1>3 DEF Exchanged
<1> HIDE DEF n
<1>5. Fair(w, u, xs)
  BY <1>1, <1>2, <1>3, RemoveFair
<1> HIDE DEF u
<1>6. Dealing(u, xs)
  BY <1>5, FairDealing
<1>7. c \in Places /\ 0 \in Int
  BY <1>3 DEF Places
<1>8. Fair(u, v, xs)
  BY <1>3, <1>6, <1>7, AddFair
<1>9. PutIn(u, v, c, 0, old)
  BY <1>3, <1>7, AddFacts
<1> HIDE DEF v
<1>10. Fair(v, x, xs)
  <2>1. ItemFields \subseteq DOMAIN v /\ TradeTypes(v, xs)
    BY <1>8, <1>9 DEF PutIn, Fair
  <2> QED BY <1>4, <2>1, PostFair
<1> QED BY <1>5, <1>8, <1>10, FairTwice

(* Nothing is fair.                                                         *)
LEMMA NothingFair ==
  ASSUME NEW w, NEW xs, Dealing(w, xs)
  PROVE  Fair(w, w, xs)
<1>1. TradeTypes(w, xs) /\ SameDeals(w, w)
  BY DEF Dealing, TradeTypes, SameDeals
<1> QED BY <1>1, DealsFair

(* Game::internalMoveItem.                                                  *)
LEMMA StepsFair ==
  ASSUME NEW w, Placed(w), NEW xs, Dealing(w, xs), NEW i \in Items, NEW c, NEW n, NEW index,
         NEW r, Steps(w, c, i, n, index, r)
  PROVE  Fair(w, r.w, xs)
<1>1. CASE r.w = w
  BY <1>1, NothingFair
<1>2. ASSUME NEW d, NEW e, NEW m, Exchanging(w, c, d, i, e), Placed(e.w),
             \/ r.w = e.w
             \/ /\ MayTransfer(e.w, e.d, i, m)
                /\ r.w = Transfer(e.w, e.w.parent[i], e.d, i, m)
      PROVE  Fair(w, r.w, xs)
  <2> DEFINE u == e.w
             v == r.w
             a == e.d
  <2>1. Placed(u) /\ Fair(w, u, xs)
    <3>1. CASE u = w
      BY <1>2, <3>1, NothingFair
    <3>2. CASE MakesRoom(w, c, d, i) /\ u = Exchanged(w, c, d.to, d.item)
      <4> HIDE DEF u
      <4>1. Fair(w, u, xs)
        BY <3>2, ExchangedFair
      <4> QED BY <1>2, <4>1 DEF u
    <3> QED BY <1>2, <3>1, <3>2 DEF Exchanging
  <2>2. v = u \/ (MayTransfer(u, a, i, m) /\ v = Transfer(u, u.parent[i], a, i, m))
    BY <1>2
  <2> HIDE DEF u, v, a
  <2>3. Dealing(u, xs)
    BY <2>1, FairDealing
  <2>4. Fair(u, v, xs)
    <3>1. CASE v = u
      BY <2>3, <3>1, NothingFair
    <3>2. CASE MayTransfer(u, a, i, m) /\ v = Transfer(u, u.parent[i], a, i, m)
      BY <2>1, <2>3, <3>2, TransferFair
    <3> QED BY <2>2, <3>1, <3>2
  <2>5. Fair(w, v, xs)
    BY <2>1, <2>4, FairTwice
  <2> QED BY <2>5 DEF v
<1> QED BY <1>1, <1>2 DEF Steps

(* Game::playerAcceptTrade: the offers of all others stay what they are.    *)
LEMMA SwapsFair ==
  ASSUME NEW w, Placed(w), NEW xs, Dealing(w, xs), NEW v, Swaps(w, v)
  PROVE  Fair(w, v, xs)
<1>1. ASSUME NEW i \in Items, NEW c, NEW n, NEW r, Steps(w, c, i, n, Wherever, r)
      PROVE  Fair(w, r.w, xs) /\ Placed(r.w) /\ Dealing(r.w, xs)
  <2> DEFINE u == r.w
  <2>1. Fair(w, u, xs)
    BY <1>1, StepsFair
  <2>2. Placed(u)
    BY <1>1, MoveItemFacts
  <2> HIDE DEF u
  <2>3. Dealing(u, xs)
    BY <2>1, FairDealing
  <2> QED BY <2>1, <2>2, <2>3 DEF u
<1>2. ASSUME NEW i \in Items, NEW c, NEW n, NEW r, Steps(w, c, i, n, Wherever, r),
             NEW j \in Items, NEW e, NEW k, NEW s, Steps(r.w, e, j, k, Wherever, s)
      PROVE  Fair(w, s.w, xs)
  <2> DEFINE u == r.w
             x == s.w
  <2>1. Fair(w, u, xs) /\ Placed(u) /\ Dealing(u, xs)
    BY <1>1, <1>2
  <2>2. Steps(u, e, j, k, Wherever, s)
    BY <1>2
  <2> HIDE DEF u
  <2>3. Fair(u, x, xs)
    BY <2>1, <2>2, StepsFair
  <2> HIDE DEF x
  <2>4. Fair(w, x, xs)
    BY <2>1, <2>3, FairTwice
  <2> QED BY <2>4 DEF x
<1>3. CASE v = w
  BY <1>3, NothingFair
<1> QED BY <1>1, <1>2, <1>3 DEF Swaps

-----------------------------------------------------------------------------
(* What the commands do to offers.                                          *)

(* Between two commands: everything on offer is near, and no offer is inside *)
(* another one.                                                             *)
Dealt(w) == Placed(w) /\ Trading(w, {}) /\ Held(w, {}) /\ Separate(w)

(* A trade that goes on has the same offers.                                *)
Unchanged(w, v) ==
  \A p \in Players : w.tradeItem[p] # NoItem /\ v.tradePartner[p] # NoPlayer =>
    SameTrade(w, v, p) /\ SameOffer(w, v, w.tradeItem[p])

(* What a command must not break.                                           *)
Deals(w, v) == Held(v, {}) /\ Separate(v) /\ Unchanged(w, v)

(* What spares all offers does not.                                         *)
LEMMA SparedDeals ==
  ASSUME NEW w, TradeTypes(w, {}), Separate(w), NEW v, Spared(w, v, {}), Held(v, {})
  PROVE  Deals(w, v)
<1>1. Unchanged(w, v)
  BY DEF Spared, Ended, Unchanged
<1>2. Separate(v)
  BY SparedSeparate
<1> QED BY <1>1, <1>2 DEF Deals

(* What is fair does not.                                                   *)
LEMMA FairDeals ==
  ASSUME NEW w, Dealt(w), NEW v, Fair(w, v, {})
  PROVE  Deals(w, v)
<1>1. TradeTypes(w, {}) /\ Separate(w) /\ Held(w, {})
  BY DEF Dealt, Trading
<1>2. Spared(w, v, {}) /\ v.at = w.at
  BY DEF Fair
<1>3. Held(v, {})
  BY <1>1, <1>2, SparedHeld
<1> QED BY <1>1, <1>2, <1>3, SparedDeals

(* p comes, goes or walks: what he offers stays near or his trade ends.      *)
LEMMA GoingDeals ==
  ASSUME NEW w, Dealt(w), NEW p \in Players, NEW t, NEW v,
         v.parent = w.parent, v.count = w.count, v.at = [w.at EXCEPT ![p] = t],
         \A r \in Players : Ended(v, r) \/ SameTrade(w, v, r),
         v.tradeItem[p] # NoItem => Near(v, p, v.tradeItem[p])
  PROVE  Deals(w, v)
<1> USE WorldAssumption
<1>1. TradeTypes(w, {}) /\ Separate(w) /\ Held(w, {})
  BY DEF Dealt, Trading
<1>2. \A i : SameOffer(w, v, i)
  BY SameParents DEF SameOffer, SameInside
<1>3. Spared(w, v, {})
  BY <1>2 DEF Spared
<1>4. ASSUME NEW r \in Players, v.tradeItem[r] # NoItem  PROVE Near(v, r, v.tradeItem[r])
  <2>1. CASE r # p
    <3>1. v.tradeItem[r] = w.tradeItem[r]
      BY <1>4 DEF Ended, SameTrade
    <3> DEFINE i == w.tradeItem[r]
    <3>2. Near(w, r, i)
      BY <1>1, <1>4, <3>1 DEF Held
    <3>3. v.at[r] = w.at[r] /\ Root(v, i) = Root(w, i)
      BY <1>1, <2>1, SameParents DEF TradeTypes
    <3> HIDE DEF i
    <3>4. Near(v, r, i)
      BY <3>2, <3>3 DEF Near
    <3> QED BY <3>1, <3>4 DEF i
  <2> QED BY <1>4, <2>1
<1>5. Held(v, {})
  BY <1>4 DEF Held
<1> QED BY <1>1, <1>3, <1>5, SparedDeals

(* In range of what i is in is in range of i, or has it.                     *)
LEMMA ReachNear ==
  ASSUME NEW w, ParentTypes(w), NoKnot(w), w.at \in [Players -> Tiles \cup {Nowhere}],
         NEW p \in Players, NEW i \in Items, NEW c, c = w.parent[i], c # Nowhere,
         InRange(PositionOf(w, c), w.at[p], 1), Root(w, i) \in Tiles \cup {p}
  PROVE  Near(w, p, i)
<1> USE WorldAssumption
<1>1. Seat(w, c) = Root(w, i)
  BY SeatFacts
<1>2. PositionOf(w, c) = IF Root(w, i) \in Players THEN w.at[Root(w, i)] ELSE Root(w, i)
  BY <1>1 DEF PositionOf, Seat
<1> DEFINE r == Root(w, i)
           a == w.at[p]
<1>3. CASE r = p
  <2>1. a \in Tiles
    BY <1>3 DEF InRange
  <2> QED BY <1>3, <2>1 DEF Near
<1>4. CASE r \in Tiles
  <2>1. PositionOf(w, c) = r
    BY <1>2, <1>4
  <2>2. r \in Tiles /\ a \in Tiles /\ r - a \in -1..1
    BY <2>1 DEF InRange
  <2> HIDE DEF r, a
  <2>3. r \in Int /\ a \in Int
    BY <2>2
  <2>4. a - r \in -1..1
    BY <2>2, <2>3
  <2>5. InRange(a, r, 1)
    BY <2>2, <2>4 DEF InRange
  <2> QED BY <1>4, <2>5 DEF Near, r, a
<1> QED BY <1>3, <1>4

(* Player::onCreatureDisappear and onCreatureMove.                          *)
LEMMA GoesDeals ==
  ASSUME Dealt(world), NEW p \in Players,
         \/ Login(p)
         \/ Logout(p)
         \/ \E t \in Tiles : Walk(p, t)
  PROVE  Deals(world, world')
<1> USE WorldAssumption
<1>1. /\ Placed(world) /\ ParentTypes(world) /\ NoKnot(world) /\ ItemFields \subseteq DOMAIN world
      /\ TradeTypes(world, {}) /\ Held(world, {}) /\ StateFits(world, p)
  BY DEF Dealt, Placed, Laid, PlaceTypes, Trading
<1>2. ASSUME NEW t \in Tiles \cup {Nowhere}, NEW v, v = [world EXCEPT !.at[p] = t]
      PROVE  /\ ItemFields \subseteq DOMAIN v /\ TradeTypes(v, {})
             /\ v.parent = world.parent /\ v.count = world.count
             /\ v.at = [world.at EXCEPT ![p] = t] /\ v.tradeItem = world.tradeItem
             /\ v.tradePartner = world.tradePartner
             /\ \A r \in Players : SameTrade(world, v, r)
  BY <1>1, <1>2 DEF ItemFields, TradeTypes, TradeFields, SameTrade
<1>3. ASSUME NEW t \in Tiles \cup {Nowhere}, NEW v, v = [world EXCEPT !.at[p] = t],
             v.tradeItem[p] # NoItem => Near(v, p, v.tradeItem[p])
      PROVE  Deals(world, v)
  <2>1. /\ v.parent = world.parent /\ v.count = world.count
        /\ v.at = [world.at EXCEPT ![p] = t]
        /\ \A r \in Players : Ended(v, r) \/ SameTrade(world, v, r)
    BY <1>2, <1>3
  <2> QED BY <1>3, <2>1, GoingDeals
<1>4. ASSUME NEW t \in Tiles \cup {Nowhere}, NEW v, v = [world EXCEPT !.at[p] = t],
             NEW u, u = CloseTrades(v, {p})
      PROVE  Deals(world, u)
  <2>1. /\ ItemFields \subseteq DOMAIN v /\ TradeTypes(v, {})
        /\ v.parent = world.parent /\ v.count = world.count
        /\ v.at = [world.at EXCEPT ![p] = t]
        /\ \A r \in Players : SameTrade(world, v, r)
    BY <1>2, <1>4
  <2>2. Closed(v, u, {}, {p})
    BY <1>4, <2>1, CloseFacts
  <2>3. /\ u.parent = world.parent /\ u.count = world.count
        /\ u.at = [world.at EXCEPT ![p] = t]
    BY <2>1, <2>2 DEF Closed, SameItems, SamePlaces
  <2>4. \A r \in Players : Ended(u, r) \/ SameTrade(world, u, r)
    BY <2>1, <2>2 DEF Closed, SameTrade
  <2>5. u.tradeItem[p] = NoItem
    BY <2>2 DEF Closed, Ended
  <2> QED BY <2>3, <2>4, <2>5, GoingDeals
<1>5. CASE Login(p)
  <2> DEFINE t == StartAt[p]
  <2>1. world.at[p] = Nowhere /\ world' = [world EXCEPT !.at[p] = t]
    BY <1>5 DEF Login, Online
  <2>2. t \in Tiles \cup {Nowhere}
    BY StartAssumption
  <2>3. world.tradeItem[p] = NoItem
    BY <1>1, <2>1 DEF Held, Near, InRange
  <2> HIDE DEF t
  <2>4. world'.tradeItem[p] = NoItem
    BY <1>2, <2>1, <2>2, <2>3
  <2> QED BY <1>3, <2>1, <2>2, <2>4
<1>6. CASE Logout(p)
  <2> DEFINE v == [world EXCEPT !.at[p] = Nowhere]
  <2>1. world' = IF v.tradePartner[p] # NoPlayer THEN CloseTrades(v, {p}) ELSE v
    BY <1>6 DEF Logout
  <2>2. v.tradeItem = world.tradeItem /\ v.tradePartner = world.tradePartner
    BY <1>2
  <2>3. Deals(world, CloseTrades(v, {p}))
    BY <1>4
  <2>4. ASSUME v.tradePartner[p] = NoPlayer  PROVE Deals(world, v)
    <3>1. v.tradeItem[p] = NoItem
      BY <1>1, <2>2, <2>4 DEF StateFits
    <3> QED BY <1>3, <3>1
  <2> HIDE DEF v
  <2> QED BY <2>1, <2>3, <2>4
<1>7. ASSUME NEW t \in Tiles, Walk(p, t)  PROVE Deals(world, world')
  <2> DEFINE v == [world EXCEPT !.at[p] = t]
             i == v.tradeItem[p]
  <2>1. world' = IF WalksAway(v, p) THEN CloseTrades(v, {p}) ELSE v
    BY <1>7 DEF Walk
  <2>2. Deals(world, CloseTrades(v, {p}))
    BY <1>4
  <2>3. /\ TradeTypes(v, {}) /\ v.parent = world.parent /\ v.tradeItem = world.tradeItem
    BY <1>2
  <2>4. Near(v, p, i) => Deals(world, v)
    BY <1>3
  <2>5. i = NoItem => Deals(world, v)
    BY <1>3
  <2>6. ASSUME ~WalksAway(v, p), i # NoItem  PROVE Near(v, p, i)
    <3> HIDE DEF v
    <3>1. InRange(PositionOf(v, v.parent[i]), v.at[p], 1)
      BY <2>6 DEF WalksAway
    <3>2. i \in Items /\ Near(world, p, i)
      BY <1>1, <2>3, <2>6 DEF Held, TradeTypes
    <3>3. world.parent[i] # Nowhere /\ Root(world, i) \in Tiles \cup {p}
      BY <1>1, <3>2, NowhereOffered DEF Near
    <3>4. ParentTypes(v) /\ NoKnot(v) /\ Root(v, i) = Root(world, i)
      BY <1>1, <2>3, SameParents DEF ParentTypes, NoKnot
    <3> HIDE DEF i
    <3> DEFINE c == v.parent[i]
    <3>5. c # Nowhere /\ c = v.parent[i] /\ InRange(PositionOf(v, c), v.at[p], 1)
      BY <2>3, <3>1, <3>3
    <3> HIDE DEF c
    <3>6. v.at \in [Players -> Tiles \cup {Nowhere}] /\ Root(v, i) \in Tiles \cup {p}
      BY <2>3, <3>3, <3>4 DEF TradeTypes
    <3> QED BY <3>2, <3>4, <3>5, <3>6, ReachNear
  <2> HIDE DEF v, i
  <2> QED BY <2>1, <2>2, <2>4, <2>5, <2>6
<1> QED BY <1>5, <1>6, <1>7

(* Game::playerCloseTrade.                                                  *)
LEMMA CloseDeals ==
  ASSUME Dealt(world), NEW p \in Players, PlayerCloseTrade(p)
  PROVE  Deals(world, world')
<1>1. ItemFields \subseteq DOMAIN world /\ TradeTypes(world, {})
  BY DEF Dealt, Placed, Laid, PlaceTypes, Trading
<1>2. Closed(world, world', {}, {p})
  BY <1>1, CloseFacts DEF PlayerCloseTrade
<1>3. /\ TradeTypes(world', {}) /\ world'.at = world.at
      /\ world'.parent = world.parent /\ world'.count = world.count
      /\ \A r \in Players : Ended(world', r) \/ SameTrade(world, world', r)
  BY <1>2 DEF Closed, SameItems, SamePlaces
<1>4. \A i : SameOffer(world, world', i)
  BY <1>3, SameParents DEF SameOffer, SameInside
<1>5. Fair(world, world', {})
  BY <1>3, <1>4 DEF Fair, Spared
<1> QED BY <1>5, FairDeals

(* Game::playerMoveItem.                                                    *)
LEMMA MoveDeals ==
  ASSUME Dealt(world), NEW p \in Players, NEW i \in Items, MayTake(p, i),
         NEW c \in Destinations(p), NEW index \in Indices(c),
         NEW n \in 1..ItemCount(world, i), PlayerMoveItem(p, i, c, index, n)
  PROVE  Deals(world, world')
<1> DEFINE w == world
           from == world.parent[i]
<1>1. \E r : Steps(w, from, i, n, index, r) /\ world' = r.w
  BY MoveSteps DEF Dealt
<1>2. Placed(w) /\ Dealing(w, {})
  BY DEF Dealt, Dealing, Trading
<1> HIDE DEF w, from
<1>3. Fair(w, world', {})
  BY <1>1, <1>2, StepsFair
<1> QED BY <1>3, FairDeals DEF w

(* Game::playerAcceptTrade: the last of both ends their trade, and spares    *)
(* those of others.                                                         *)
LEMMA AcceptDeals ==
  ASSUME Dealt(world), NEW p \in Players, AcceptTrade(p)
  PROVE  Deals(world, world')
<1>1. /\ Placed(world) /\ Trading(world, {}) /\ TradeTypes(world, {}) /\ Held(world, {})
      /\ Separate(world)
  BY DEF Dealt, Trading
<1>2. CASE world' = [world EXCEPT !.tradeState[p] = "accept"]
  <2>1. /\ world'.parent = world.parent /\ world'.count = world.count
        /\ world'.at = world.at /\ world'.tradeItem = world.tradeItem
        /\ world'.tradePartner = world.tradePartner
    BY <1>1, <1>2 DEF Placed, Laid, PlaceTypes, ItemFields, TradeTypes, TradeFields
  <2>2. \A i : SameOffer(world, world', i)
    BY <2>1, SameParents DEF SameOffer, SameInside
  <2>3. Spared(world, world', {})
    BY <2>1, <2>2 DEF Spared, SameTrade
  <2>4. Held(world', {})
    BY <1>1, <2>1, <2>3, SparedHeld
  <2> QED BY <1>1, <2>3, <2>4, SparedDeals
<1>3. ASSUME NEW w, NEW v, NEW q, Bargain(w, v, p, q)  PROVE Deals(world, world')
  <2> DEFINE xs == {p, q}
  <2>1. /\ world' = Reset(v, xs) /\ Swaps(w, v) /\ Placed(w) /\ Trading(w, xs)
        /\ SameItems(world, w) /\ w.tradePartner = world.tradePartner
        /\ w.tradeItem = world.tradeItem /\ w.at = world.at
    BY <1>3 DEF Bargain, Swapping
  <2>2. w.parent = world.parent /\ w.count = world.count
    BY <2>1 DEF SameItems, SamePlaces
  <2> HIDE DEF xs
  <2>3. \A i : SameOffer(world, w, i) /\ (Root(w, i) = Root(world, i))
    BY <2>2, SameParents DEF SameOffer, SameInside
  <2>4. Held(w, xs)
    BY <1>1, <2>1, <2>3 DEF Held, Near
  <2>5. Dealing(w, xs)
    BY <2>1, <2>4 DEF Dealing, Trading
  <2>6. Fair(w, v, xs)
    BY <2>1, <2>5, SwapsFair
  <2>7. Spared(world, w, xs)
    BY <2>1, <2>3 DEF Spared, SameTrade
  <2>8. Spared(world, v, xs)
    BY <2>6, <2>7, SparedTwice DEF Fair
  <2>9. Placed(v) /\ TradeTypes(v, xs) /\ v.at = world.at
    BY <2>1, <2>6, SwapsPlaces DEF Fair
  <2>10. /\ world'.tradePartner = [r \in Players |-> IF r \in xs THEN NoPlayer ELSE v.tradePartner[r]]
         /\ world'.tradeItem = [r \in Players |-> IF r \in xs THEN NoItem ELSE v.tradeItem[r]]
         /\ world'.parent = v.parent /\ world'.count = v.count /\ world'.at = world.at
    BY <2>1, <2>9 DEF Reset, TradeTypes, TradeFields, Placed, Laid, PlaceTypes, ItemFields
  <2>11. \A i : SameOffer(v, world', i)
    BY <2>10, SameParents DEF SameOffer, SameInside
  <2>12. Spared(v, world', xs)
    BY <2>10, <2>11 DEF Spared, SameTrade
  <2>13. Spared(world, world', xs)
    BY <2>8, <2>12, SparedTwice
  <2>14. \A r \in Players : r \in xs => Ended(world', r)
    BY <2>10 DEF Ended
  <2>15. Spared(world, world', {})
    BY <2>13, <2>14 DEF Spared
  <2>16. Held(world', {})
    BY <1>1, <2>10, <2>15, SparedHeld
  <2> QED BY <1>1, <2>15, <2>16, SparedDeals
<1> QED BY <1>1, <1>2, <1>3, AcceptBargains

(* playerRequestTrade: p offers what he can take and nobody else has to do   *)
(* with.                                                                    *)
LEMMA RequestDeals ==
  ASSUME Dealt(world), NEW p \in Players, NEW q \in Players, NEW i \in Items,
         RequestTrade(p, q, i)
  PROVE  Deals(world, world')
<1> USE WorldAssumption
<1>1. /\ Placed(world) /\ ParentTypes(world) /\ NoKnot(world)
      /\ TradeTypes(world, {}) /\ Held(world, {}) /\ Separate(world)
      /\ Offers(world, Players)
      /\ \A r \in Players :
           /\ StateFits(world, r)
           /\ world.tradePartner[r] # NoPlayer => Paired(world, r, world.tradePartner[r])
  BY DEF Dealt, Placed, Laid, PlaceTypes, Trading
<1>2. /\ p # q /\ MayTake(p, i)
      /\ \A j \in world.tradeItems : i # j /\ ~Holds(world, i, j) /\ ~Holds(world, j, i)
      /\ \/ world.tradeState[p] = "none"
         \/ world.tradeState[p] = "acknowledge" /\ world.tradePartner[p] = q
      /\ world.tradeState[q] = "none" \/ world.tradePartner[q] = p
  BY DEF RequestTrade, AlreadyTraded
<1>3. /\ world'.parent = world.parent /\ world'.count = world.count /\ world'.at = world.at
      /\ world'.tradeItem = [world.tradeItem EXCEPT ![p] = i]
      /\ world'.tradePartner = [[world.tradePartner EXCEPT ![p] = q] EXCEPT ![q] = p]
  BY <1>1 DEF RequestTrade, Placed, Laid, PlaceTypes, ItemFields, TradeTypes, TradeFields
<1>4. /\ \A x : Root(world', x) = Root(world, x)
      /\ \A b, x : Holds(world', b, x) <=> Holds(world, b, x)
      /\ \A x : SameOffer(world, world', x)
  BY <1>3, SameParents DEF SameOffer, SameInside
<1>5. world.tradeItem[p] = NoItem
  BY <1>1, <1>2 DEF StateFits
<1>6. /\ world'.tradeItem[p] = i
      /\ \A r \in Players \ {p} : world'.tradeItem[r] = world.tradeItem[r]
  BY <1>1, <1>3 DEF TradeTypes
<1>7. Near(world, p, i)
  <2> DEFINE c == world.parent[i]
  <2>1. /\ c # Nowhere /\ InRange(world.at[p], PositionOf(world, c), 1)
        /\ (c \in Players => c = p) /\ (c \in Bags => Root(world, c) \in Tiles \cup {p})
    BY <1>2 DEF MayTake, Reaches
  <2>2. c \in Places /\ Seat(world, c) = Root(world, i)
    BY <1>1, <2>1, SeatFacts DEF ParentTypes
  <2>3. Root(world, i) \in Tiles \cup {p}
    BY <2>1, <2>2 DEF Seat, Places
  <2>4. InRange(PositionOf(world, c), world.at[p], 1)
    BY <2>1, NearSymmetric
  <2>5. world.at \in [Players -> Tiles \cup {Nowhere}] /\ c = world.parent[i]
    BY <1>1 DEF TradeTypes
  <2> HIDE DEF c
  <2> QED BY <1>1, <2>1, <2>3, <2>4, <2>5, ReachNear
<1>8. Held(world', {})
  BY <1>1, <1>3, <1>4, <1>6, <1>7 DEF Held, Near
<1>9. Separate(world')
  <2>1. \A r \in Players : world.tradeItem[r] # NoItem => world.tradeItem[r] \in world.tradeItems
    BY <1>1 DEF Offers
  <2> SUFFICES ASSUME NEW r \in Players, NEW s \in Players, r # s,
                      world'.tradeItem[r] # NoItem, world'.tradeItem[s] # NoItem
               PROVE  ~Holds(world, world'.tradeItem[r], world'.tradeItem[s])
    BY <1>4 DEF Separate
  <2>2. CASE r = p
    BY <1>2, <1>6, <2>1, <2>2
  <2>3. CASE s = p
    BY <1>2, <1>6, <2>1, <2>3
  <2>4. CASE r # p /\ s # p
    BY <1>1, <1>6, <2>4 DEF Separate
  <2> QED BY <2>2, <2>3, <2>4
<1>10. Unchanged(world, world')
  <2> SUFFICES ASSUME NEW r \in Players, world.tradeItem[r] # NoItem
               PROVE  SameTrade(world, world', r)
    BY <1>4 DEF Unchanged
  <2>1. r # p
    BY <1>5
  <2>2. r = q => world.tradePartner[q] = p
    BY <1>1, <1>2 DEF StateFits
  <2>3. world'.tradePartner[r] = world.tradePartner[r]
    BY <1>1, <1>3, <2>1, <2>2 DEF TradeTypes
  <2> QED BY <1>6, <2>1, <2>3 DEF SameTrade
<1> QED BY <1>8, <1>9, <1>10 DEF Deals

(* One case per action.                                                     *)
LEMMA NextDeals ==
  ASSUME Dealt(world), [Next]_world
  PROVE  Deals(world, world')
<1>1. CASE world' = world
  <2>1. Dealing(world, {})
    BY DEF Dealt, Dealing, Trading
  <2>2. Fair(world, world', {})
    BY <1>1, <2>1, NothingFair
  <2> QED BY <2>2, FairDeals
<1>2. CASE Next
  BY <1>2, GoesDeals, CloseDeals, MoveDeals, AcceptDeals, RequestDeals DEF Next
<1> QED BY <1>1, <1>2

-----------------------------------------------------------------------------
(* Offers at every moment.                                                  *)

(* The inductive invariant: places and trades are in order, everything on    *)
(* offer is near and in no other offer.                                     *)
Offering == Dealt(world)

(* Nobody offers anything at first.                                         *)
LEMMA InitDealt == Init => Dealt(world)
<1> SUFFICES ASSUME Init  PROVE Dealt(world)
  OBVIOUS
<1>1. world.tradeItem = [p \in Players |-> NoItem]
  BY DEF Init, Nothing
<1>2. Held(world, {}) /\ Separate(world)
  BY <1>1 DEF Held, Separate
<1> QED BY <1>2, InitPlaced, InitTrading DEF Dealt

(* It holds at every moment.                                                *)
LEMMA OfferingHolds == Spec => []Offering
<1>1. Init => Offering
  BY InitDealt DEF Offering
<1>2. Offering /\ [Next]_world => Offering'
  <2>1. Offering /\ [Next]_world => Placed(world')
    BY PlacedStep DEF Offering, Dealt
  <2>2. Offering /\ [Next]_world => Trading(world', {})
    BY TradingStep DEF Offering, Dealt
  <2>3. Offering /\ [Next]_world => Deals(world, world')
    BY NextDeals DEF Offering
  <2>4. Offering' <=> Dealt(world')
    BY DEF Offering
  <2> QED BY <2>1, <2>2, <2>3, <2>4 DEF Deals, Dealt
<1> QED BY <1>1, <1>2, PTL DEF Spec

(* The invariant says at least what OffersApart says.                       *)
LEMMA DealtApart == Dealt(world) => OffersApart
<1> SUFFICES ASSUME Dealt(world), NEW p \in Players, NEW i, i = world.tradeItem[p], i # NoItem
             PROVE  /\ world.parent[i] # Nowhere
                    /\ InRange(world.at[p], PositionOf(world, world.parent[i]), 1)
                    /\ InRange(world.at[p], world.at[world.tradePartner[p]], 2)
                    /\ \A q \in Players \ {p} : world.tradeItem[q] # NoItem =>
                         world.tradeItem[q] # i /\ ~Holds(world, i, world.tradeItem[q])
  BY DEF OffersApart
<1> USE WorldAssumption
<1>1. /\ ParentTypes(world) /\ NoKnot(world) /\ TradeTypes(world, {})
      /\ StateFits(world, p) /\ Offers(world, Players)
      /\ world.tradePartner[p] # NoPlayer => Paired(world, p, world.tradePartner[p])
      /\ Separate(world)
  BY DEF Dealt, Placed, Laid, PlaceTypes, Trading
<1>2. i \in Items /\ Near(world, p, i)
  BY <1>1 DEF Dealt, Held, TradeTypes
<1>3. world.parent[i] # Nowhere
  BY <1>1, <1>2, NowhereOffered
<1>4. InRange(world.at[p], PositionOf(world, world.parent[i]), 1)
  <2> DEFINE c == world.parent[i]
  <2>1. Seat(world, c) = Root(world, i)
    BY <1>1, <1>2, SeatFacts
  <2>2. PositionOf(world, c) =
          IF Root(world, i) \in Players THEN world.at[Root(world, i)] ELSE Root(world, i)
    BY <2>1 DEF PositionOf, Seat
  <2> HIDE DEF c
  <2>3. CASE Root(world, i) \in Tiles /\ InRange(world.at[p], Root(world, i), 1)
    <3>1. PositionOf(world, c) = Root(world, i)
      BY <2>2, <2>3
    <3> QED BY <2>3, <3>1 DEF c
  <2>4. CASE Root(world, i) = p /\ world.at[p] \in Tiles
    <3> DEFINE a == world.at[p]
    <3>1. PositionOf(world, c) = a /\ a \in Tiles
      BY <2>2, <2>4
    <3> HIDE DEF a
    <3>2. a \in Int
      BY <3>1
    <3>3. InRange(a, a, 1)
      BY <3>1, <3>2 DEF InRange
    <3> QED BY <3>1, <3>3 DEF c, a
  <2> QED BY <1>2, <2>3, <2>4 DEF Near
<1>5. InRange(world.at[p], world.at[world.tradePartner[p]], 2)
  BY <1>1 DEF StateFits, Paired
<1>6. \A q \in Players \ {p} : world.tradeItem[q] # NoItem =>
        world.tradeItem[q] # i /\ ~Holds(world, i, world.tradeItem[q])
  BY <1>1 DEF Offers, Separate
<1> QED BY <1>3, <1>4, <1>5, <1>6

(* For any players, items, containers and places: whatever players do with   *)
(* items, what is on offer exists, is within reach of who offers it, and is   *)
(* in no other offer - all that could take it away or bring something into   *)
(* it ends its trade before (checkTradeState of everyone who watches).      *)
THEOREM OffersApartHolds == Spec => []OffersApart
<1>1. Offering => OffersApart
  BY DealtApart DEF Offering
<1> QED BY <1>1, OfferingHolds, PTL

(* An unchanged offer shows the same.                                       *)
LEMMA SameShown ==
  ASSUME NEW w, NEW v, NEW i, SameOffer(w, v, i)
  PROVE  Offer(v, i) = Offer(w, i)
<1> DEFINE S == {j \in Items : j = i \/ Holds(w, i, j)}
           T == {j \in Items : j = i \/ Holds(v, i, j)}
<1>1. S = T
  BY DEF SameOffer, SameInside
<1>2. \A j \in S : ItemCount(v, j) = ItemCount(w, j)
  BY DEF SameOffer, ItemCount
<1>3. [j \in T |-> ItemCount(v, j)] = [j \in S |-> ItemCount(w, j)]
  <2> HIDE DEF S, T
  <2> QED BY <1>1, <1>2
<1> QED BY <1>3 DEF Offer

(* For any players, items, containers and places: no step of a trade that     *)
(* goes on changes what the partner was shown.  Whatever is moved, merged    *)
(* or split in or around an offer, whoever does it, ends the trade in the    *)
(* same step.                                                               *)
THEOREM OfferIsFixedHolds == Spec => OfferIsFixed
<1> DEFINE Fixed == \A p \in Players :
             LET i == world.tradeItem[p]
             IN i # NoItem /\ world'.tradePartner[p] # NoPlayer =>
                  /\ world'.tradeItem[p] = i
                  /\ world'.tradePartner[p] = world.tradePartner[p]
                  /\ Offer(world', i) = Offer(world, i)
<1>1. Offering /\ [Next]_world => Fixed
  <2> SUFFICES ASSUME Offering, [Next]_world, NEW p \in Players,
                      NEW i, i = world.tradeItem[p], i # NoItem,
                      world'.tradePartner[p] # NoPlayer
               PROVE  /\ world'.tradeItem[p] = i
                      /\ world'.tradePartner[p] = world.tradePartner[p]
                      /\ Offer(world', i) = Offer(world, i)
    OBVIOUS
  <2>1. SameTrade(world, world', p) /\ SameOffer(world, world', i)
    BY NextDeals DEF Offering, Deals, Unchanged
  <2>2. Offer(world', i) = Offer(world, i)
    BY <2>1, SameShown
  <2> QED BY <2>1, <2>2 DEF SameTrade
<1> QED BY <1>1, OfferingHolds, PTL DEF Spec, OfferIsFixed

-----------------------------------------------------------------------------
(* The last accept.  First: pieces of stacks that move along.               *)

SumOver(f, S) == MapThenSumSet(LAMBDA j : f[j], S)

(* The sum of some of the values.                                           *)
LEMMA MaskedSum ==
  ASSUME NEW D, IsFiniteSet(D), NEW S \in SUBSET D, NEW f, \A x \in D : f[x] \in Int,
         NEW g, \A x \in D : g[x] = IF x \in S THEN f[x] ELSE 0
  PROVE  SumOver(f, S) = Total(g, D)
<1> DEFINE T == {s \in SUBSET D : Total(g, s) = Total(f, s \cap S)}
<1>1. ASSUME NEW s \in SUBSET D, \A x \in s : s \ {x} \in T  PROVE s \in T
  <2>1. IsFiniteSet(s) /\ IsFiniteSet(s \cap S)
    BY FS_Subset
  <2>2. \A x \in s : g[x] \in Int
    OBVIOUS
  <2>3. CASE s = {}
    <3>1. s \cap S = {}
      BY <2>3
    <3>2. Total(g, s) = 0 /\ Total(f, s \cap S) = 0
      BY <2>1, <2>3, <3>1, TotalFacts
    <3> QED BY <3>2
  <2>4. ASSUME NEW x \in s  PROVE Total(g, s) = Total(f, s \cap S)
    <3> DEFINE r == s \ {x}
               a == s \cap S
    <3>1. Total(g, r) = Total(f, r \cap S)
      BY <1>1
    <3>2. Total(g, s) = g[x] + Total(g, r)
      BY <2>1, <2>2, TotalFacts
    <3>3. /\ \A y \in a : f[y] \in Int
          /\ IsFiniteSet(a)
      BY <2>1
    <3>4. CASE x \in S
      <4>1. x \in a /\ r \cap S = a \ {x} /\ g[x] = f[x]
        BY <3>4
      <4> HIDE DEF a, r
      <4>2. Total(f, a) = f[x] + Total(f, a \ {x})
        BY <3>3, <4>1, TotalFacts
      <4> QED BY <3>1, <3>2, <4>1, <4>2 DEF a
    <3>5. CASE x \notin S
      <4>1. r \cap S = a /\ g[x] = 0
        BY <3>5
      <4> HIDE DEF a, r
      <4>2. Total(f, a) \in Int
        BY <3>3, TotalFacts
      <4>3. Total(g, s) = Total(f, a)
        BY <3>1, <3>2, <4>1, <4>2
      <4> QED BY <4>3 DEF a
    <3> QED BY <3>4, <3>5
  <2> QED BY <2>3, <2>4
<1> HIDE DEF T
<1>2. SUBSET D \subseteq T
  BY <1>1, BySize
<1>3. Total(g, D) = Total(f, D \cap S) /\ D \cap S = S
  BY <1>2 DEF T
<1>4. SumOver(f, S) = Total(f, S)
  BY FS_Subset, FunctionSum DEF SumOver
<1> QED BY <1>3, <1>4

(* The sum of sums.                                                         *)
LEMMA TotalPlus ==
  ASSUME NEW D, IsFiniteSet(D), NEW f, NEW g, NEW h,
         \A x \in D : f[x] \in Int /\ g[x] \in Int /\ h[x] = f[x] + g[x]
  PROVE  Total(h, D) = Total(f, D) + Total(g, D)
<1> DEFINE T == {s \in SUBSET D : Total(h, s) = Total(f, s) + Total(g, s)}
<1>1. ASSUME NEW s \in SUBSET D, \A x \in s : s \ {x} \in T  PROVE s \in T
  <2>1. IsFiniteSet(s)
    BY FS_Subset
  <2>2. \A x \in s : f[x] \in Int /\ g[x] \in Int /\ h[x] \in Int
    OBVIOUS
  <2>3. CASE s = {}
    <3>1. Total(f, s) = 0 /\ Total(g, s) = 0 /\ Total(h, s) = 0
      BY <2>1, <2>3, TotalFacts
    <3> QED BY <3>1
  <2>4. ASSUME NEW x \in s  PROVE Total(h, s) = Total(f, s) + Total(g, s)
    <3> DEFINE r == s \ {x}
    <3>1. IsFiniteSet(r) /\ \A y \in r : f[y] \in Int /\ g[y] \in Int
      BY <2>1, <2>2, FS_Subset
    <3>2. Total(h, r) = Total(f, r) + Total(g, r)
      BY <1>1
    <3>3. /\ Total(h, s) = h[x] + Total(h, r)
          /\ Total(f, s) = f[x] + Total(f, r)
          /\ Total(g, s) = g[x] + Total(g, r)
      BY <2>1, <2>2, TotalFacts
    <3> HIDE DEF r
    <3>4. Total(f, r) \in Int /\ Total(g, r) \in Int
      BY <3>1, TotalFacts
    <3>5. f[x] \in Int /\ g[x] \in Int /\ h[x] = f[x] + g[x]
      OBVIOUS
    <3> QED BY <3>2, <3>3, <3>4, <3>5
  <2> QED BY <2>3, <2>4
<1> HIDE DEF T
<1>2. SUBSET D \subseteq T
  BY <1>1, BySize
<1> QED BY <1>2 DEF T

(* What r has of each stack, and what is in or at i of it.                   *)
Purse(w, r) == [x \in Stacks |-> IF Root(w, x) = r THEN w.count[x] ELSE 0]

Inner(w, i) == [x \in Stacks |-> IF x = i \/ Holds(w, i, x) THEN w.count[x] ELSE 0]

(* Carries and Coins are their sums.                                        *)
LEMMA PurseSum ==
  ASSUME NEW w, PlaceTypes(w), NEW r
  PROVE  /\ Carries(w, r) = Total(Purse(w, r), Stacks) /\ Carries(w, r) \in Int
         /\ Coins(w, r) = Total(Inner(w, r), Stacks) /\ Coins(w, r) \in Int
<1> DEFINE f == w.count
           S == {x \in Stacks : Root(w, x) = r}
           R == {x \in Stacks : x = r \/ Holds(w, r, x)}
           g == Purse(w, r)
           h == Inner(w, r)
<1>1. IsFiniteSet(Stacks) /\ StackMax \in Nat
  BY WorldAssumption, FS_Subset DEF Items
<1>2. \A x \in Stacks : f[x] \in Int
  BY <1>1 DEF PlaceTypes
<1>3. /\ S \in SUBSET Stacks /\ R \in SUBSET Stacks
      /\ \A x \in Stacks : g[x] = IF x \in S THEN f[x] ELSE 0
      /\ \A x \in Stacks : h[x] = IF x \in R THEN f[x] ELSE 0
  BY DEF Purse, Inner
<1>4. \A x \in Stacks : g[x] \in Int /\ h[x] \in Int
  BY <1>2, <1>3
<1>5. /\ Carries(w, r) = SumOver(f, S)
      /\ Coins(w, r) = SumOver(f, R)
  BY DEF Carries, Coins, SumOver
<1> HIDE DEF f, g, h, S, R
<1>6. SumOver(f, S) = Total(g, Stacks)
  BY <1>1, <1>2, <1>3, MaskedSum
<1>8. SumOver(f, R) = Total(h, Stacks)
  BY <1>1, <1>2, <1>3, MaskedSum
<1>7. Total(g, Stacks) \in Int /\ Total(h, Stacks) \in Int
  BY <1>1, <1>4, TotalFacts
<1> QED BY <1>5, <1>6, <1>7, <1>8 DEF g, h

(* g is f with x for k.                                                     *)
Altered(S, f, g, k, x) ==
  /\ g \in [S -> Int] /\ g[k] = x /\ \A y \in S : y # k => g[y] = f[y]
  /\ Total(g, S) = (Total(f, S) - f[k]) + x /\ Total(f, S) \in Int

(* The sum changes by as much.                                              *)
LEMMA TotalExcept ==
  ASSUME NEW S, IsFiniteSet(S), NEW f, f \in [S -> Int], NEW k, k \in S, NEW x, x \in Int,
         NEW g, g = [f EXCEPT ![k] = x]
  PROVE  Altered(S, f, g, k, x)
<1>1. g \in [S -> Int] /\ g[k] = x /\ \A y \in S : y # k => g[y] = f[y]
  OBVIOUS
<1>2. \A y \in S : f[y] \in Int /\ g[y] \in Int /\ (y # k => f[y] = g[y])
  BY <1>1
<1>3. Total(g, S) = (Total(f, S) - f[k]) + g[k]
  BY ONLY IsFiniteSet(S), k \in S, <1>2, TotalPut
<1>4. Total(f, S) \in Int
  BY <1>2, TotalFacts
<1> QED BY <1>1, <1>3, <1>4 DEF Altered

(* What is at the root of a cylinder depends on the places of containers.    *)
LEMMA SeatsStay ==
  ASSUME NEW w, ParentTypes(w), NEW v, ParentTypes(v), \A b \in Bags : v.parent[b] = w.parent[b]
  PROVE  \A c : Seat(v, c) = Seat(w, c)
<1>1. ASSUME NEW b \in Bags  PROVE Root(v, b) = Root(w, b)
  <2> DEFINE U == Bags
  <2>1. U \in SUBSET Bags /\ b \in U
        /\ \A y \in U : v.parent[y] = w.parent[y] /\ (w.parent[y] \in Bags => w.parent[y] \in U)
    OBVIOUS
  <2> HIDE DEF U
  <2> QED BY <2>1, AroundKept
<1> QED BY <1>1 DEF Seat

(* If so many of them are there.                                            *)
Given(there, n) == IF there THEN n ELSE 0

(* m pieces of a stack go to d: whoever had them does not carry them any     *)
(* more, and who is at the root of d does.                                  *)
LEMMA StackCarried ==
  ASSUME NEW w, Placed(w), NEW i \in Stacks, NEW d, NEW m, MayTransfer(w, d, i, m),
         NEW v, Placed(v), Transferred(w, v, d, i, m), NEW r \in Players
  PROVE  Carries(v, r) = (Carries(w, r) - Given(Root(w, i) = r, m)) + Given(Seat(w, d.to) = r, m)
<1> DEFINE n == Joining(w, d, i, m)
           o == Arriving(w, i, m)
           here == SameType(i, d.item)
           new == Arrives(w, d, i, m)
           a == Root(w, i) = r
           b == Seat(w, d.to) = r
           c0 == w.count
           f0 == Purse(w, r)
<1>1. /\ v.count = [j \in Stacks |->
                     IF new /\ j = o THEN m - n
                     ELSE IF j = i THEN c0[i] - m
                     ELSE IF j = d.item /\ here THEN c0[j] + n
                     ELSE c0[j]]
      /\ v.parent = [j \in Items |-> IF new /\ j = o THEN d.to
                                     ELSE IF j = i /\ Whole(w, i, m) THEN Nowhere ELSE w.parent[j]]
  BY DEF Transferred
<1>2. /\ Laid(w) /\ PlaceTypes(w) /\ ParentTypes(w) /\ NoKnot(w)
      /\ Laid(v) /\ PlaceTypes(v) /\ ParentTypes(v) /\ NoKnot(v)
      /\ c0 \in [Stacks -> 0..StackMax] /\ StackMax \in Nat
      /\ IsFiniteSet(Stacks) /\ Stacks \subseteq Items /\ Bags \subseteq Items /\ i \in Items
      /\ Stacks \cap Bags = {}
  BY WorldAssumption, FS_Subset DEF Placed, Laid, PlaceTypes, Items
<1>3. /\ m \in 1..c0[i] /\ n \in Nat /\ n <= m
      /\ here => d.item \in Stacks
      /\ ~here => n = 0
  BY <1>2, JoiningFacts
<1>4. /\ Whole(w, i, m) => o = i
      /\ ~Whole(w, i, m) /\ new => o \in Stacks /\ c0[o] = 0 /\ w.parent[o] = Nowhere /\ o # i
  BY <1>2, ArrivingFacts
<1>5. /\ d.item # i /\ (here => w.parent[d.item] = d.to /\ d.to # Nowhere)
      /\ new <=> m # n
      /\ Whole(w, i, m) <=> m = c0[i]
  <2>1. d.item # i /\ (d.item # NoItem => w.parent[d.item] = d.to) /\ d.to \in Places
    BY DEF MayTransfer, Spot
  <2>2. NoItem \notin Stacks /\ d.to # Nowhere
    BY <2>1, WorldAssumption DEF Items, Places
  <2>3. here => d.item # NoItem
    BY <1>3, <2>2
  <2> QED BY <2>1, <2>2, <2>3 DEF Arrives, Whole
<1>6. \A c : Seat(v, c) = Seat(w, c)
  <2>1. \A k \in Bags : v.parent[k] = w.parent[k]
    BY <1>1, <1>2, <1>4, <1>5
  <2> QED BY <1>2, <2>1, SeatsStay
<1>7. \A x \in Stacks : Root(w, x) = Seat(w, w.parent[x]) /\ Root(v, x) = Seat(w, v.parent[x])
  BY <1>2, <1>6, SeatFacts
<1>8. \A x \in Stacks : /\ f0[x] = IF Root(w, x) = r THEN c0[x] ELSE 0
                        /\ Purse(v, r)[x] = IF Root(v, x) = r THEN v.count[x] ELSE 0
  BY DEF Purse
<1>9. f0 \in [Stacks -> Int] /\ Purse(v, r) \in [Stacks -> Int]
  BY <1>2 DEF Purse, PlaceTypes
<1>10. Carries(w, r) = Total(f0, Stacks) /\ Carries(v, r) = Total(Purse(v, r), Stacks)
  BY <1>2, PurseSum
<1> HIDE DEF n, o, here, new, a, b, f0, c0
<1> DEFINE x1 == IF a THEN c0[i] - m ELSE 0
           f1 == [f0 EXCEPT ![i] = x1]
           x2 == f1[d.item] + (IF b THEN n ELSE 0)
           f2 == IF here THEN [f1 EXCEPT ![d.item] = x2] ELSE f1
           x3 == IF b THEN m - n ELSE 0
           f3 == IF new THEN [f2 EXCEPT ![o] = x3] ELSE f2
<1>11. c0[i] \in Int /\ m \in Int /\ n \in Int /\ x1 \in Int /\ x3 \in Int
  BY <1>2, <1>3
<1>12. /\ f1 \in [Stacks -> Int] /\ f1[i] = x1 /\ \A y \in Stacks : y # i => f1[y] = f0[y]
       /\ Total(f1, Stacks) = (Total(f0, Stacks) - f0[i]) + x1 /\ Total(f0, Stacks) \in Int
  <2> HIDE DEF x1, f1
  <2>1. f1 = [f0 EXCEPT ![i] = x1]
    BY DEF f1
  <2>2. Altered(Stacks, f0, f1, i, x1)
    BY <1>2, <1>9, <1>11, <2>1, TotalExcept
  <2> QED BY <2>2 DEF Altered
<1>13. f0[i] = IF a THEN c0[i] ELSE 0
  BY <1>8 DEF a
<1>14. /\ f2 \in [Stacks -> Int]
       /\ here => f2[d.item] = x2 /\ x2 \in Int
       /\ \A y \in Stacks : (here => y # d.item) => f2[y] = f1[y]
       /\ Total(f2, Stacks) = Total(f1, Stacks) + (IF b THEN n ELSE 0)
       /\ Total(f1, Stacks) \in Int
  <2> HIDE DEF f1
  <2>1. CASE here
    <3> DEFINE k == d.item
    <3>1. k \in Stacks /\ x2 \in Int /\ x2 = f1[k] + (IF b THEN n ELSE 0) /\ f1[k] \in Int
      BY <1>3, <1>11, <1>12, <2>1
    <3>2. f2 = [f1 EXCEPT ![k] = x2]
      BY <2>1
    <3> HIDE DEF k, x2, f2
    <3>3. /\ f2 \in [Stacks -> Int] /\ f2[k] = x2 /\ \A y \in Stacks : y # k => f2[y] = f1[y]
          /\ Total(f2, Stacks) = (Total(f1, Stacks) - f1[k]) + x2 /\ Total(f1, Stacks) \in Int
      <4>1. Altered(Stacks, f1, f2, k, x2)
        BY <1>2, <1>12, <3>1, <3>2, TotalExcept
      <4> QED BY <4>1 DEF Altered
    <3>4. Total(f2, Stacks) = Total(f1, Stacks) + (IF b THEN n ELSE 0)
      BY <1>11, <3>1, <3>3
    <3> QED BY <2>1, <3>1, <3>3, <3>4 DEF k
  <2>2. CASE ~here
    <3>1. n = 0 /\ f2 = f1
      BY <1>3, <2>2
    <3>2. Total(f1, Stacks) \in Int
      BY <1>2, <1>12, TotalFacts
    <3> HIDE DEF f2
    <3> QED BY <1>12, <2>2, <3>1, <3>2
  <2> QED BY <2>1, <2>2
<1> HIDE DEF x2, f2
<1>15. new => o \in Stacks /\ f2[o] = 0
  <2>1. CASE Whole(w, i, m)
    <3>1. o = i /\ m = c0[i]
      BY <1>4, <1>5, <2>1
    <3>2. f2[i] = f1[i]
      BY <1>5, <1>14
    <3> QED BY <1>11, <1>12, <3>1, <3>2
  <2>2. CASE ~Whole(w, i, m)
    <3> SUFFICES ASSUME new  PROVE o \in Stacks /\ f2[o] = 0
      OBVIOUS
    <3>1. o \in Stacks /\ c0[o] = 0 /\ o # i /\ (here => o # d.item)
      BY <1>4, <1>5, <2>2
    <3>2. f0[o] = 0
      BY <1>8, <3>1
    <3> HIDE DEF f1
    <3> QED BY <1>12, <1>14, <3>1, <3>2
  <2> QED BY <2>1, <2>2
<1> HIDE DEF f1
<1>16. /\ f3 \in [Stacks -> Int]
       /\ new => f3[o] = x3
       /\ \A y \in Stacks : (new => y # o) => f3[y] = f2[y]
       /\ Total(f3, Stacks) = Total(f2, Stacks) + x3
  <2>1. CASE new
    <3>1. f3 = [f2 EXCEPT ![o] = x3]
      BY <2>1
    <3> HIDE DEF f3, x3
    <3>2. /\ f3 \in [Stacks -> Int] /\ f3[o] = x3 /\ \A y \in Stacks : y # o => f3[y] = f2[y]
          /\ Total(f3, Stacks) = (Total(f2, Stacks) - f2[o]) + x3 /\ Total(f2, Stacks) \in Int
      <4>1. Altered(Stacks, f2, f3, o, x3)
        BY <1>2, <1>11, <1>14, <1>15, <2>1, <3>1, TotalExcept
      <4> QED BY <4>1 DEF Altered
    <3> QED BY <1>11, <1>15, <2>1, <3>2
  <2>2. CASE ~new
    <3>1. x3 = 0 /\ f3 = f2
      BY <1>5, <1>11, <2>2
    <3>2. Total(f2, Stacks) \in Int
      BY <1>2, <1>14, TotalFacts
    <3> HIDE DEF f3, x3
    <3> QED BY <1>14, <2>2, <3>1, <3>2
  <2> QED BY <2>1, <2>2
<1> HIDE DEF f3
<1>17. Purse(v, r) = f3
  <2>1. ASSUME NEW x \in Stacks  PROVE Purse(v, r)[x] = f3[x]
    <3>1. x \in Items
      BY <1>2
    <3>2. CASE new /\ x = o
      <4>1. v.parent[x] = d.to /\ v.count[x] = m - n
        BY <1>1, <3>1, <3>2
      <4> QED BY <1>7, <1>8, <1>16, <3>2, <4>1 DEF b
    <3>3. CASE ~(new /\ x = o) /\ x = i
      <4>1. f3[x] = x1 /\ v.count[x] = c0[i] - m
        BY <1>1, <1>5, <1>12, <1>14, <1>16, <3>3
      <4>2. CASE Whole(w, i, m)
        <5>1. v.count[x] = 0 /\ x1 = 0
          BY <1>5, <1>11, <4>1, <4>2
        <5> QED BY <1>8, <4>1, <5>1
      <4>3. CASE ~Whole(w, i, m)
        <5>1. v.parent[x] = w.parent[x]
          BY <1>1, <3>1, <3>3, <4>3
        <5>2. Root(v, x) = Root(w, x)
          BY <1>7, <5>1
        <5> QED BY <1>8, <3>3, <4>1, <5>2 DEF a
      <4> QED BY <4>2, <4>3
    <3>4. CASE ~(new /\ x = o) /\ x # i /\ x = d.item /\ here
      <4>1. v.parent[x] = w.parent[x] /\ v.count[x] = c0[x] + n
        BY <1>1, <3>1, <3>4
      <4>2. Root(v, x) = Seat(w, d.to) /\ Root(w, x) = Seat(w, d.to)
        BY <1>5, <1>7, <3>4, <4>1
      <4>3. f3[x] = f0[x] + (IF b THEN n ELSE 0)
        BY <1>12, <1>14, <1>16, <3>4 DEF x2
      <4>4. c0[x] \in Int
        BY <1>2
      <4> QED BY <1>8, <1>11, <4>1, <4>2, <4>3, <4>4 DEF b
    <3>5. CASE ~(new /\ x = o) /\ x # i /\ ~(x = d.item /\ here)
      <4>1. v.parent[x] = w.parent[x] /\ v.count[x] = c0[x]
        BY <1>1, <3>1, <3>5
      <4>2. Root(v, x) = Root(w, x)
        BY <1>7, <4>1
      <4>3. f3[x] = f0[x]
        BY <1>12, <1>14, <1>16, <3>5
      <4> QED BY <1>8, <4>1, <4>2, <4>3
    <3> QED BY <3>2, <3>3, <3>4, <3>5
  <2> QED BY <1>9, <1>16, <2>1
<1>18. Total(f3, Stacks) = (Total(f0, Stacks) - (IF a THEN m ELSE 0)) + (IF b THEN m ELSE 0)
  <2> DEFINE t0 == Total(f0, Stacks)
             t1 == Total(f1, Stacks)
             t2 == Total(f2, Stacks)
             t3 == Total(f3, Stacks)
             c == c0[i]
  <2>1. /\ t0 \in Int /\ t1 \in Int /\ c \in Int /\ m \in Int /\ n \in Int
        /\ t1 = (t0 - (IF a THEN c ELSE 0)) + (IF a THEN c - m ELSE 0)
        /\ t2 = t1 + (IF b THEN n ELSE 0) /\ t3 = t2 + (IF b THEN m - n ELSE 0)
    BY <1>11, <1>12, <1>13, <1>14, <1>16
  <2> HIDE DEF t0, t1, t2, t3, c
  <2>2. t3 = (t0 - (IF a THEN m ELSE 0)) + (IF b THEN m ELSE 0)
    BY <2>1
  <2> QED BY <2>2 DEF t0, t3
<1> QED BY <1>10, <1>17, <1>18 DEF Given, a, b

(* An item that is no stack went to d.                                      *)
Went(w, v, d, i) ==
  /\ MovesOnly(w, v, i) /\ v.parent[i] = d.to /\ v.count = w.count
  /\ v.parent = [w.parent EXCEPT ![i] = d.to]
  /\ Seat(v, d.to) = Seat(w, d.to) /\ Root(v, i) = Seat(w, d.to)
  /\ d.to \in Bags => Around(v, d.to) = Around(w, d.to)

(* That is all that a transfer of it does to places.                        *)
LEMMA MovedOnly ==
  ASSUME NEW w, Placed(w), NEW i \in Items \ Stacks, NEW d, NEW m, MayTransfer(w, d, i, m),
         NEW v, Placed(v), Transferred(w, v, d, i, m)
  PROVE  Went(w, v, d, i)
<1>1. /\ Laid(w) /\ ParentTypes(w) /\ NoKnot(w) /\ Laid(v) /\ ParentTypes(v) /\ NoKnot(v)
      /\ w.parent \in [Items -> Places \cup {Nowhere}]
      /\ w.count \in [Stacks -> 0..StackMax]
  BY DEF Placed, Laid, PlaceTypes, ParentTypes
<1>2. ~SameType(i, d.item) /\ Whole(w, i, m) /\ Arriving(w, i, m) = i /\ Arrives(w, d, i, m)
  BY DEF SameType, Whole, Arriving, Arrives
<1>3. v.parent = [j \in Items |-> IF j = i THEN d.to ELSE w.parent[j]]
  BY <1>2 DEF Transferred
<1>4. v.parent = [w.parent EXCEPT ![i] = d.to]
  BY <1>1, <1>3
<1>5. v.count = w.count
  <2>1. v.count = [j \in Stacks |-> w.count[j]]
    BY <1>2 DEF Transferred
  <2> QED BY <1>1, <2>1
<1>6. MovesOnly(w, v, i) /\ v.parent[i] = d.to
  BY <1>1, <1>3 DEF MovesOnly
<1>7. d.to \in Places /\ (d.to \in Bags /\ i \in Bags => Clear(w, d.to, i))
  BY DEF MayTransfer, Spot
<1>8. \A j \in Bags : j # i => v.parent[j] = w.parent[j]
  BY <1>3 DEF Items
<1>9. d.to \in Bags => Root(v, d.to) = Root(w, d.to) /\ Around(v, d.to) = Around(w, d.to)
  BY <1>1, <1>7, <1>8, HolderKept
<1>10. Seat(v, d.to) = Seat(w, d.to)
  BY <1>9 DEF Seat
<1>11. Root(v, i) = Seat(v, d.to)
  BY <1>1, <1>6, SeatFacts
<1> QED BY <1>4, <1>5, <1>6, <1>9, <1>10, <1>11 DEF Went

(* All that is in it goes with it: whoever had it does not carry those stacks *)
(* any more, and who is at the root of d does.                              *)
LEMMA ItemCarried ==
  ASSUME NEW w, Placed(w), NEW i \in Items \ Stacks, NEW d, NEW m, MayTransfer(w, d, i, m),
         NEW v, Placed(v), Transferred(w, v, d, i, m), NEW r \in Players
  PROVE  Carries(v, r) = (Carries(w, r) - Given(Root(w, i) = r, Coins(w, i)))
                           + Given(Seat(w, d.to) = r, Coins(w, i))
<1> DEFINE a == Root(w, i) = r
           b == Seat(w, d.to) = r
           f == Purse(w, r)
           g == Inner(w, i)
           h == Purse(v, r)
<1>1. /\ PlaceTypes(w) /\ PlaceTypes(v) /\ IsFiniteSet(Stacks) /\ Stacks \subseteq Items
      /\ StackMax \in Nat
      /\ w.count \in [Stacks -> 0..StackMax]
  BY WorldAssumption, FS_Subset DEF Placed, Laid, PlaceTypes, Items
<1>2. MovesOnly(w, v, i) /\ v.count = w.count /\ Root(v, i) = Seat(w, d.to)
  <2>1. Went(w, v, d, i)
    BY MovedOnly
  <2> QED BY <2>1 DEF Went
<1>3. \A x \in Stacks : /\ f[x] = IF Root(w, x) = r THEN w.count[x] ELSE 0
                        /\ g[x] = IF x = i \/ Holds(w, i, x) THEN w.count[x] ELSE 0
                        /\ h[x] = IF Root(v, x) = r THEN w.count[x] ELSE 0
  BY <1>2 DEF Purse, Inner
<1>4. /\ Carries(w, r) = Total(f, Stacks) /\ Carries(w, r) \in Int
      /\ Carries(v, r) = Total(h, Stacks) /\ Carries(v, r) \in Int
      /\ Coins(w, i) = Total(g, Stacks) /\ Coins(w, i) \in Int
  BY <1>1, PurseSum
<1>5. \A x \in Stacks : w.count[x] \in Int
  BY <1>1
<1> HIDE DEF f, g, h
<1>6. ASSUME NEW x \in Stacks
      PROVE  /\ f[x] \in Int /\ g[x] \in Int /\ h[x] \in Int
             /\ a <=> b => h[x] = f[x]
             /\ a /\ ~b => f[x] = h[x] + g[x]
             /\ b /\ ~a => h[x] = f[x] + g[x]
  <2>1. x # i /\ x \in Items
    BY <1>1
  <2>2. CASE Holds(w, i, x)
    <3>1. i \in Bags
      <4>1. ParentTypes(w)
        BY <1>2 DEF MovesOnly
      <4>2. i \in Places \cup {Nowhere}
        BY <2>1, <2>2, <4>1, HolderPlace
      <4> QED BY <4>2, WorldAssumption DEF Places, Items
    <3>2. ParentTypes(w) /\ NoKnot(w) /\ ParentTypes(v) /\ NoKnot(v)
      BY <1>2 DEF MovesOnly
    <3>3. Root(w, x) = Root(w, i) /\ ~Holds(w, i, i)
      BY <2>1, <2>2, <3>1, <3>2, HoldsFacts
    <3>4. Holds(v, i, x)
      BY <1>2, <2>1, <2>2, <3>3, HoldsKept
    <3>5. Root(v, x) = Root(v, i)
      BY <2>1, <3>1, <3>2, <3>4, HoldsFacts
    <3>6. /\ f[x] = (IF a THEN w.count[x] ELSE 0) /\ h[x] = (IF b THEN w.count[x] ELSE 0)
          /\ g[x] = w.count[x]
      BY <1>2, <1>3, <2>2, <3>3, <3>5
    <3> QED BY <1>5, <3>6
  <2>3. CASE ~Holds(w, i, x)
    <3>1. Root(v, x) = Root(w, x)
      BY <1>2, <2>1, <2>3, AboveKept
    <3>2. f[x] = h[x] /\ g[x] = 0
      BY <1>3, <2>1, <2>3, <3>1
    <3>3. f[x] \in Int
      BY <1>3, <1>5
    <3> QED BY <3>2, <3>3
  <2> QED BY <2>2, <2>3
<1>7. CASE a <=> b
  <2>1. \A x \in Stacks : h[x] \in Int /\ h[x] = f[x]
    BY <1>6, <1>7
  <2>2. Total(h, Stacks) = Total(f, Stacks)
    BY <1>1, <2>1, TotalSame
  <2> QED BY <1>4, <1>7, <2>2 DEF Given
<1>8. CASE a /\ ~b
  <2>1. \A x \in Stacks : h[x] \in Int /\ g[x] \in Int /\ f[x] = h[x] + g[x]
    BY <1>6, <1>8
  <2>2. Total(f, Stacks) = Total(h, Stacks) + Total(g, Stacks)
    BY <1>1, <2>1, TotalPlus
  <2> QED BY <1>4, <1>8, <2>2 DEF Given
<1>9. CASE b /\ ~a
  <2>1. \A x \in Stacks : f[x] \in Int /\ g[x] \in Int /\ h[x] = f[x] + g[x]
    BY <1>6, <1>9
  <2>2. Total(h, Stacks) = Total(f, Stacks) + Total(g, Stacks)
    BY <1>1, <2>1, TotalPlus
  <2> QED BY <1>4, <1>9, <2>2 DEF Given
<1> QED BY <1>7, <1>8, <1>9

-----------------------------------------------------------------------------
(* Where a player who gets something looks for a place.                     *)

(* He looks into containers that he carries,                                *)
LEMMA SearchSound ==
  ASSUME NEW w, Laid(w), NEW p \in Players, NEW i, NEW keep, NEW skip
  PROVE  SearchOrder(w, p, i, keep, skip) \in Seq({b \in Bags : Root(w, b) = p})
<1> DEFINE V == {b \in Bags : Root(w, b) = p}
<1>1. PlaceTypes(w) /\ ParentTypes(w) /\ NoKnot(w)
  BY DEF Laid, PlaceTypes
<1>2. ASSUME NEW s \in Slots, w.slot[p][s] \in Bags  PROVE w.slot[p][s] \in V
  <2> DEFINE b == w.slot[p][s]
  <2>1. b # NoItem /\ b \in Items /\ p \notin Bags
    BY <1>2, WorldAssumption DEF Items
  <2>2. w.parent[b] = p
    BY <2>1 DEF Laid, SlotsFit
  <2> HIDE DEF b
  <2>3. Root(w, b) = p
    BY <1>1, <2>1, <2>2, OutermostFacts
  <2> QED BY <1>2, <2>3 DEF b
<1>3. ASSUME NEW b \in V, NEW k \in 1..Len(w.list[b]), w.list[b][k] \in Bags
      PROVE  w.list[b][k] \in V
  <2> DEFINE c == w.list[b][k]
  <2>1. w.parent[c] = b /\ c \in Items /\ b \in Bags
    BY <1>3 DEF Laid, ListFits, Items
  <2> HIDE DEF c
  <2>2. Root(w, c) = Root(w, b)
    BY <1>1, <2>1, InnerFacts
  <2> QED BY <1>3, <2>2 DEF c
<1>4. Searched(w, p, i, keep, skip, V)
  <2> HIDE DEF V
  <2>1. V \subseteq Bags
    BY DEF V
  <2> QED BY <1>2, <1>3, <2>1 DEF Searched
<1> HIDE DEF V
<1>5. PICK h : Levels(w, p, i, keep, skip, V, h)
  BY <1>1, <1>4, SearchLevels
<1>6. SearchOrder(w, p, i, keep, skip) \in Seq(V)
  BY <1>5, LevelsFacts
<1> QED BY <1>6 DEF V

(* There are not more containers above each other than there are.           *)
LEMMA WayTop ==
  ASSUME NEW w, NoKnot(w), NEW b \in Bags, NEW s, Way(w, b, s)
  PROVE  s[Depth] \notin Bags
<1> SUFFICES ASSUME s[Depth] \in Bags  PROVE FALSE
  OBVIOUS
<1>1. /\ Depth \in Nat
      /\ \A n \in 0..Depth : s[n + 1] = IF s[n] \in Bags THEN w.parent[s[n]] ELSE s[n]
  BY DEF Way
<1>2. /\ \A n \in 0..Depth : s[n + 1] \in Bags => s[n] \in Bags
      /\ \A n \in 0..Depth : \A m \in 0..n : s[n] \in Bags => w.parent[s[n]] # s[m]
  BY WayFacts
<1> DEFINE T == {j \in 0..Depth : s[Depth - j] \in Bags}
           f == [n \in 0..Depth |-> s[n]]
<1>3. 0..Depth \subseteq T
  <2>1. 0 \in T
    BY <1>1
  <2>2. ASSUME NEW j \in 0 + 1..Depth, j - 1 \in T  PROVE  j \in T
    <3>1. Depth - j \in 0..Depth /\ (Depth - j) + 1 = Depth - (j - 1) /\ j \in 0..Depth
      BY <1>1
    <3> QED BY <1>2, <2>2, <3>1
  <2>3. 0 \in Int /\ Depth \in Int
    BY <1>1
  <2> HIDE DEF T
  <2> QED BY <2>1, <2>2, <2>3, Upward
<1>4. \A n \in 0..Depth : s[n] \in Bags
  <2> SUFFICES ASSUME NEW n \in 0..Depth  PROVE s[n] \in Bags
    OBVIOUS
  <2>1. Depth - n \in T /\ Depth - (Depth - n) = n
    BY <1>1, <1>3
  <2> QED BY <2>1
<1>5. PICK m0 \in 0..Depth, n0 \in 0..Depth : m0 # n0 /\ f[m0] = f[n0]
  <2>1. f \in [0..Depth -> Bags]
    BY <1>4
  <2>2. IsFiniteSet(0..Depth) /\ Cardinality(0..Depth) = Depth + 1
    BY <1>1, FS_Interval
  <2>3. IsFiniteSet(Bags) /\ Cardinality(Bags) < Cardinality(0..Depth)
    <3>1. IsFiniteSet(Bags)
      BY WorldAssumption, FS_Subset DEF Items
    <3> QED BY <1>1, <2>2, <3>1 DEF Depth
  <2> HIDE DEF f
  <2> QED BY <2>1, <2>2, <2>3, FS_PigeonHole
<1>6. PICK m \in 0..Depth, n \in 0..Depth : m < n /\ s[m] = s[n]
  <2>1. m0 < n0 \/ n0 < m0
    BY <1>5
  <2> QED BY <1>5, <2>1
<1>7. n - 1 \in 0..Depth /\ (n - 1) + 1 = n /\ m \in 0..n - 1
  BY <1>1, <1>6
<1>8. s[n] = w.parent[s[n - 1]] /\ s[n - 1] \in Bags
  BY <1>1, <1>4, <1>7
<1> QED BY <1>2, <1>6, <1>7, <1>8

(* and into all of them, but for those that are or are in i or keep.         *)
LEMMA SearchComplete ==
  ASSUME NEW w, Laid(w), NEW p \in Players, NEW i, NEW keep, NEW b \in Bags, Root(w, b) = p,
         b \notin {i, keep}, \A x \in {i, keep} \cap Bags : ~Holds(w, x, b)
  PROVE  Among(b, SearchOrder(w, p, i, keep, {}))
<1>1. PlaceTypes(w) /\ ParentTypes(w) /\ NoKnot(w) /\ b \in Items
  BY DEF Laid, PlaceTypes, Items
<1>2. Searched(w, p, i, keep, {}, Bags)
  BY DEF Searched
<1>3. PICK h : Levels(w, p, i, keep, {}, Bags, h)
  BY <1>1, <1>2, SearchLevels
<1>4. PICK s : Way(w, b, s)
  BY <1>1, WayExists
<1>5. /\ Depth \in Nat /\ s[0] = b
      /\ \A n \in 0..Depth : s[n + 1] = IF s[n] \in Bags THEN w.parent[s[n]] ELSE s[n]
      /\ Around(w, b) = {s[n] : n \in 0..Depth + 1} \cap Bags
  BY <1>4 DEF Way
<1>6. s[Depth] \notin Bags
  BY <1>1, <1>4, WayTop
<1>7. \A n \in 0..Depth : s[n] \notin Bags => s[n] = p
  BY <1>1, <1>4, WayFacts
<1> DEFINE Ends == {n \in 0..Depth : s[n] \notin Bags}
           N == Min(Ends)
<1>8. N \in 0..Depth /\ s[N] = p /\ s[N] \notin Bags /\ \A n \in 0..N - 1 : s[n] \in Bags
  <2>1. Ends \in SUBSET Nat /\ Depth \in Ends
    BY <1>5, <1>6
  <2>2. N \in Ends /\ \A n \in Ends : N <= n
    <3> HIDE DEF Ends
    <3> QED BY <2>1, LeastFacts
  <2>3. \A n \in 0..N - 1 : s[n] \in Bags
    <3> SUFFICES ASSUME NEW n \in 0..N - 1, s[n] \notin Bags  PROVE FALSE
      OBVIOUS
    <3> HIDE DEF N
    <3>1. N \in 0..Depth
      BY <2>2
    <3>2. n \in 0..Depth /\ ~(N <= n)
      BY <1>5, <3>1
    <3> QED BY <2>2, <3>2
  <2> HIDE DEF N
  <2> QED BY <1>7, <2>2, <2>3
<1> HIDE DEF N
<1>9. N # 0 /\ N \in 1..Depth
  BY <1>5, <1>8
<1>10. \A n \in 0..N - 1 : s[n] \notin {i, keep} /\ s[n + 1] = w.parent[s[n]] /\ n \in 0..Depth
  <2> SUFFICES ASSUME NEW n \in 0..N - 1
               PROVE  s[n] \notin {i, keep} /\ s[n + 1] = w.parent[s[n]] /\ n \in 0..Depth
    OBVIOUS
  <2>1. n \in 0..Depth /\ n \in 0..Depth + 1 /\ s[n] \in Bags
    BY <1>5, <1>8
  <2>2. s[n] \in Around(w, b)
    BY <1>5, <2>1
  <2>3. s[n] = b \/ Holds(w, s[n], b)
    BY <2>2 DEF Around
  <2> QED BY <1>5, <2>1, <2>3
<1> DEFINE T == {l \in 0..N - 1 : Among(s[(N - 1) - l], h[l])}
<1>11. 0 \in T
  <2>1. N - 1 \in 0..N - 1 /\ (N - 1) + 1 = N
    BY <1>9
  <2> DEFINE c == s[N - 1]
  <2>2. c \in Bags /\ c \notin {i, keep} /\ w.parent[c] = p
    BY <1>8, <1>10, <2>1
  <2> HIDE DEF c
  <2>3. PICK t \in Slots : w.slot[p][t] = c
    BY <2>2 DEF Laid, SlotsFit, Items
  <2> DEFINE items == [k \in 1..Cardinality(Slots) |-> w.slot[p][k]]
             n == Cardinality(Slots)
  <2>4. n \in Nat /\ t \in 1..n
    BY SlotFacts, WorldAssumption
  <2>5. DOMAIN items = 1..n /\ items[t] = c
    BY <2>3, <2>4
  <2>6. h[0] = BagsOf(items, {i, keep})
    BY <1>3 DEF Levels, SlotBags
  <2> HIDE DEF items, n
  <2>7. \A k \in 1..n : items[k] \in Bags \ {i, keep} => Among(items[k], BagsOf(items, {i, keep}))
    <3> DEFINE V == Bags
               skip == {i, keep}
    <3>1. \A k \in 1..n : items[k] \in Bags \ skip => items[k] \in V
      OBVIOUS
    <3> HIDE DEF V, skip
    <3>2. \A k \in 1..n : items[k] \in Bags \ skip => Among(items[k], BagsOf(items, skip))
      BY <2>4, <2>5, <3>1, BagsOfFacts
    <3> QED BY <3>2 DEF skip
  <2>8. Among(c, h[0])
    BY <2>2, <2>4, <2>5, <2>6, <2>7
  <2>9. (N - 1) - 0 = N - 1
    BY <1>9
  <2> QED BY <2>1, <2>8, <2>9 DEF c
<1>12. ASSUME NEW l \in 0 + 1..N - 1, l - 1 \in T  PROVE  l \in T
  <2> DEFINE n == (N - 1) - l
             c == s[n]
             o == s[n + 1]
             v == h[l - 1]
  <2>1. /\ n \in 0..N - 1 /\ n + 1 \in 0..N - 1 /\ (N - 1) - (l - 1) = n + 1
        /\ l \in 1..Depth /\ l - 1 \in 0..Depth /\ l \in 0..N - 1
    <3>1. l \in Int /\ 1 <= l /\ l <= N - 1 /\ N \in Int /\ N <= Depth /\ Depth \in Int
      BY <1>5, <1>9
    <3> HIDE DEF T
    <3> QED BY <3>1
  <2>2. c \in Bags /\ o \in Bags /\ w.parent[c] = o
    BY <1>8, <1>10, <2>1
  <2>3. Among(o, v)
    BY <1>12, <2>1
  <2>4. v \in Seq(Bags) /\ h[l] = NextLevel(w, v, {})
    BY <1>3, <2>1 DEF Levels
  <2> HIDE DEF n, c, o, v
  <2>5. PICK k \in 1..Len(w.list[o]) : w.list[o][k] = c
    BY <2>2 DEF Laid, ListFits, Items
  <2>6. w.list[o][k] \in Bags \ {}
    BY <2>2, <2>5
  <2>7. \A x \in Bags : Among(x, v) =>
              \A y \in 1..Len(w.list[x]) :
                w.list[x][y] \in Bags \ {} => Among(w.list[x][y], NextLevel(w, v, {}))
    BY <1>1, <1>2, <2>4, LevelFacts
  <2>8. Among(c, h[l])
    BY <2>2, <2>3, <2>4, <2>5, <2>6, <2>7
  <2> QED BY <2>1, <2>8 DEF n, c
<1>13. N - 1 \in T
  <2>1. 0 \in Int /\ N - 1 \in Int /\ N - 1 \in 0..N - 1
    BY <1>9
  <2> HIDE DEF T
  <2>2. 0..N - 1 \subseteq T
    BY <1>11, <1>12, <2>1, Upward
  <2> QED BY <2>1, <2>2
<1>14. Among(b, h[N - 1]) /\ N - 1 \in 0..Depth - 1
  <2>1. (N - 1) - (N - 1) = 0 /\ N - 1 \in 0..Depth - 1
    BY <1>5, <1>9
  <2> QED BY <1>5, <1>13, <2>1
<1> HIDE DEF T
<1>15. \A n \in 0..Depth - 1 : \A x : Among(x, h[n]) => Among(x, SearchOrder(w, p, i, keep, {}))
  BY <1>3, LevelsFacts
<1> QED BY <1>14, <1>15

-----------------------------------------------------------------------------
(* What he finds.                                                           *)

(* The first answer that names a cylinder is taken.                         *)
LEMMA FirstFound ==
  ASSUME NEW R, NEW a \in Seq(R), NEW o
  PROVE  \/ FirstOf(a, o) = o /\ \A k \in 1..Len(a) : a[k].to = Nowhere
         \/ \E k \in 1..Len(a) : FirstOf(a, o) = a[k] /\ a[k].to # Nowhere
<1> DEFINE found == {k \in DOMAIN a : a[k].to # Nowhere}
<1>1. DOMAIN a = 1..Len(a) /\ Len(a) \in Nat
  OBVIOUS
<1>2. found \in SUBSET Nat
  BY <1>1
<1>3. FirstOf(a, o) = IF found = {} THEN o ELSE a[Min(found)]
  BY DEF FirstOf
<1>4. found # {} => Min(found) \in found
  <2> HIDE DEF found
  <2> QED BY <1>2, LeastFacts
<1> QED BY <1>1, <1>3, <1>4

(* The container b of p has room for i, and so has the slot s.              *)
Suits(w, p, i, b) ==
  /\ b \in Bags /\ Root(w, b) = p /\ Len(w.list[b]) < Room
  /\ BagTakes(w, b, 0, i, ItemCount(w, i))

FreeSlot(w, p, i, s) ==
  s \in Slots /\ w.slot[p][s] = NoItem /\ PlayerQueryAdd(w, p, s, i, ItemCount(w, i)) = "ok"

(* So d is a place for it.                                                  *)
Accepts(w, p, i, d) ==
  \/ \E s : FreeSlot(w, p, i, s) /\ d = To(p, s, NoItem)
  \/ \E b : Suits(w, p, i, b) /\ d \in {To(b, Wherever, NoItem), To(b, Len(w.list[b]), NoItem)}

(* That is what a slot answers, if anything,                                *)
LEMMA SlotAccepts ==
  ASSUME NEW w, Laid(w), NEW p \in Players, NEW s \in Slots, NEW i \in Items, NEW keep,
         NEW d, d = InSlot(w, p, s, i, keep, FALSE)
  PROVE  /\ d.to # Nowhere => Accepts(w, p, i, d)
         /\ FreeSlot(w, p, i, s) => d.to # Nowhere
<1> DEFINE j == w.slot[p][s]
           none == To(Nowhere, Wherever, NoItem)
           n == ItemCount(w, i)
<1>1. /\ j \in Items \cup {NoItem} /\ (j # NoItem => w.parent[j] = p)
      /\ ParentTypes(w) /\ NoKnot(w) /\ w.list \in [Tiles \cup Bags -> Seq(Items)]
  BY DEF Laid, PlaceTypes, SlotsFit
<1>2. none.to = Nowhere /\ p # Nowhere /\ p \notin Bags
  BY WorldAssumption DEF To, Items
<1>3. d = IF j = NoItem
          THEN IF PlayerQueryAdd(w, p, s, i, n) = "ok" THEN To(p, s, NoItem) ELSE none
          ELSE IF j \in {i, keep} THEN none
          ELSE IF j \in Bags /\ BagTakes(w, j, Wherever, i, n) THEN To(j, Wherever, NoItem)
          ELSE none
  BY DEF InSlot
<1>4. ASSUME d.to # Nowhere  PROVE Accepts(w, p, i, d)
  <2>1. CASE j = NoItem
    <3>1. FreeSlot(w, p, i, s) /\ d = To(p, s, NoItem)
      BY <1>2, <1>3, <1>4, <2>1 DEF FreeSlot
    <3> QED BY <3>1 DEF Accepts
  <2>2. CASE j # NoItem
    <3>1. j \in Bags /\ BagTakes(w, j, Wherever, i, n) /\ d = To(j, Wherever, NoItem)
      BY <1>2, <1>3, <1>4, <2>2
    <3>2. w.parent[j] = p /\ j \in Items
      BY <1>1, <2>2
    <3> HIDE DEF j, none, n
    <3>3. Root(w, j) = p
      BY <1>1, <1>2, <3>1, <3>2, OutermostFacts
    <3>4. Len(w.list[j]) \in Nat
      BY <1>1, <3>1
    <3>5. Len(w.list[j]) < Room /\ BagTakes(w, j, 0, i, n)
      <4>1. Room \in Nat /\ ~(Len(w.list[j]) >= Room)
        BY <3>1, WorldAssumption DEF BagTakes
      <4> QED BY <3>1, <3>4, <4>1 DEF BagTakes
    <3>6. Suits(w, p, i, j)
      BY <3>1, <3>3, <3>5 DEF Suits, n
    <3> QED BY <3>1, <3>6 DEF Accepts
  <2> QED BY <2>1, <2>2
<1>5. ASSUME FreeSlot(w, p, i, s)  PROVE d.to # Nowhere
  <2>1. d = To(p, s, NoItem)
    BY <1>3, <1>5 DEF FreeSlot
  <2>2. To(p, s, NoItem).to = p
    BY DEF To
  <2> QED BY <1>2, <2>1, <2>2
<1> QED BY <1>4, <1>5

(* and a container that is not fuller than it may be.                       *)
LEMMA BagAccepts ==
  ASSUME NEW w, Laid(w), NEW p \in Players, NEW b \in Bags, Root(w, b) = p,
         Len(w.list[b]) <= Room, NEW i \in Items, NEW keep,
         NEW d, d = InBag(w, b, i, keep, FALSE)
  PROVE  /\ d.to # Nowhere => Accepts(w, p, i, d)
         /\ Suits(w, p, i, b) => d.to # Nowhere
<1> DEFINE none == To(Nowhere, Wherever, NoItem)
           n == ItemCount(w, i)
           len == Len(w.list[b])
<1>1. none.to = Nowhere /\ b # Nowhere
  BY WorldAssumption DEF To, Items
<1>2. d = IF len # Room /\ BagTakes(w, b, 0, i, n) THEN To(b, len, NoItem) ELSE none
  BY DEF InBag
<1>3. len \in Nat /\ Room \in Nat /\ len <= Room
  BY WorldAssumption DEF Laid, PlaceTypes
<1> HIDE DEF none, len
<1>4. ASSUME d.to # Nowhere  PROVE Accepts(w, p, i, d)
  <2>1. len # Room /\ BagTakes(w, b, 0, i, n) /\ d = To(b, len, NoItem)
    BY <1>1, <1>2, <1>4
  <2>2. len < Room
    BY <1>3, <2>1
  <2>3. Suits(w, p, i, b)
    BY <2>1, <2>2 DEF Suits, len
  <2> QED BY <2>1, <2>3 DEF Accepts, len
<1>5. ASSUME Suits(w, p, i, b)  PROVE d.to # Nowhere
  <2>1. len < Room /\ BagTakes(w, b, 0, i, n)
    BY <1>5 DEF Suits, len
  <2>2. len # Room
    BY <1>3, <2>1
  <2>3. d = To(b, len, NoItem)
    BY <1>2, <2>1, <2>2
  <2>4. To(b, len, NoItem).to = b
    BY DEF To
  <2> QED BY <1>1, <2>3, <2>4
<1> QED BY <1>4, <1>5

(* Nothing he has takes i.                                                  *)
NoPlace(w, p, i, keep) ==
  /\ \A s : ~FreeSlot(w, p, i, s)
  /\ \A b : Suits(w, p, i, b) => ~Among(b, SearchOrder(w, p, i, keep, {}))

(* He finds a place, if there is one.                                       *)
LEMMA GiftSearch ==
  ASSUME NEW w, Laid(w), NEW p \in Players, ~Overfull(w, p), NEW i \in Items, NEW keep,
         NEW d, d = InInventory(w, p, Wherever, i, keep, FALSE)
  PROVE  \/ Accepts(w, p, i, d)
         \/ d = To(p, Wherever, NoItem) /\ NoPlace(w, p, i, keep)
<1> DEFINE bags == SearchOrder(w, p, i, keep, {})
           f == [s \in 1..Cardinality(Slots) |-> InSlot(w, p, s, i, keep, FALSE)]
           g == [k \in DOMAIN bags |-> InBag(w, bags[k], i, keep, FALSE)]
           o == To(p, Wherever, NoItem)
           V == {b \in Bags : Root(w, b) = p}
           R == {InSlot(w, p, s, i, keep, FALSE) : s \in Slots}
                  \cup {InBag(w, b, i, keep, FALSE) : b \in V}
           n == Cardinality(Slots)
<1>1. d = FirstOf(f \o g, o)
  BY DEF InInventory
<1>2. bags \in Seq(V)
  BY SearchSound
<1>3. Slots = 1..n /\ n \in Nat
  BY SlotFacts, WorldAssumption
<1>4. f \in Seq(R) /\ Len(f) = n /\ \A s \in 1..n : f[s] = InSlot(w, p, s, i, keep, FALSE)
  <2>1. \A s \in 1..n : InSlot(w, p, s, i, keep, FALSE) \in R
    BY <1>3
  <2>2. f = [s \in 1..n |-> InSlot(w, p, s, i, keep, FALSE)]
    OBVIOUS
  <2> HIDE DEF R, n, f
  <2>3. \A s \in 1..n : f[s] = InSlot(w, p, s, i, keep, FALSE)
    BY <2>2
  <2>4. f \in [1..n -> R]
    BY <2>1, <2>2
  <2>5. f \in Seq(R) /\ Len(f) = n
    BY <1>3, <2>4
  <2> QED BY <2>3, <2>5
<1>5. /\ g \in Seq(R) /\ Len(g) = Len(bags)
      /\ \A k \in 1..Len(bags) : g[k] = InBag(w, bags[k], i, keep, FALSE)
  <2> HIDE DEF bags
  <2>1. \A k \in 1..Len(bags) : bags[k] \in V
    BY <1>2
  <2>2. \A k \in 1..Len(bags) : InBag(w, bags[k], i, keep, FALSE) \in R
    BY <2>1
  <2>3. Len(bags) \in Nat /\ DOMAIN bags = 1..Len(bags)
    BY <1>2
  <2> DEFINE m == Len(bags)
  <2>4. g = [k \in 1..m |-> InBag(w, bags[k], i, keep, FALSE)]
    BY <2>3
  <2> HIDE DEF R, V, g
  <2>5. \A k \in 1..m : g[k] = InBag(w, bags[k], i, keep, FALSE)
    BY <2>4
  <2>6. m \in Nat
    BY <2>3
  <2> HIDE DEF m
  <2>7. g \in [1..m -> R]
    <3>1. \A k \in 1..m : InBag(w, bags[k], i, keep, FALSE) \in R
      BY <2>2 DEF m
    <3> QED BY <2>4, <3>1
  <2>8. g \in Seq(R) /\ Len(g) = m
    BY <2>6, <2>7
  <2> QED BY <2>5, <2>8 DEF m
<1>6. \A b \in V : Len(w.list[b]) <= Room
  <2>1. \A b \in Bags : Len(w.list[b]) \in Nat
    BY DEF Laid, PlaceTypes
  <2>2. Room \in Nat
    BY WorldAssumption
  <2> QED BY <2>1, <2>2 DEF Overfull
<1>7. \A x \in R : x.to # Nowhere => Accepts(w, p, i, x)
  <2> SUFFICES ASSUME NEW x \in R, x.to # Nowhere  PROVE Accepts(w, p, i, x)
    OBVIOUS
  <2>1. CASE \E s \in Slots : x = InSlot(w, p, s, i, keep, FALSE)
    <3>1. PICK s \in Slots : x = InSlot(w, p, s, i, keep, FALSE)
      BY <2>1
    <3> QED BY <3>1, SlotAccepts
  <2>2. CASE \E b \in V : x = InBag(w, b, i, keep, FALSE)
    <3>1. PICK b \in V : x = InBag(w, b, i, keep, FALSE)
      BY <2>2
    <3>2. b \in Bags /\ Root(w, b) = p /\ Len(w.list[b]) <= Room
      BY <1>6
    <3> QED BY <3>1, <3>2, BagAccepts
  <2> QED BY <2>1, <2>2
<1> HIDE DEF f, g, R, bags, n
<1> DEFINE a == f \o g
<1>8. /\ a \in Seq(R) /\ Len(a) = n + Len(bags)
      /\ \A s \in 1..n : a[s] = InSlot(w, p, s, i, keep, FALSE)
      /\ \A k \in 1..Len(bags) : a[n + k] = InBag(w, bags[k], i, keep, FALSE)
  <2>1. Len(bags) \in Nat
    BY <1>2
  <2> DEFINE m == Len(bags)
  <2> HIDE DEF m
  <2>2. n \in Nat /\ m \in Nat /\ f \in Seq(R) /\ g \in Seq(R) /\ Len(f) = n /\ Len(g) = m
    BY <1>3, <1>4, <1>5, <2>1 DEF m
  <2>3. a \in Seq(R) /\ Len(a) = n + m
    BY <2>2
  <2>4. \A s \in 1..n : a[s] = f[s]
    BY <2>2
  <2>5. \A k \in 1..m : a[n + k] = g[k]
    BY <2>2
  <2> HIDE DEF a
  <2>6. \A s \in 1..n : a[s] = InSlot(w, p, s, i, keep, FALSE)
    BY <1>4, <2>4
  <2>7. \A k \in 1..Len(bags) : a[n + k] = InBag(w, bags[k], i, keep, FALSE)
    BY <1>5, <2>5 DEF m
  <2> QED BY <2>3, <2>6, <2>7 DEF m
<1> HIDE DEF a, o
<1>9. \/ d = o /\ \A k \in 1..Len(a) : a[k].to = Nowhere
      \/ \E k \in 1..Len(a) : d = a[k] /\ a[k].to # Nowhere
  <2>1. d = FirstOf(a, o)
    BY <1>1 DEF a
  <2> QED BY <1>8, <2>1, FirstFound
<1>10. CASE \E k \in 1..Len(a) : d = a[k] /\ a[k].to # Nowhere
  <2>1. PICK k \in 1..Len(a) : d = a[k] /\ a[k].to # Nowhere
    BY <1>10
  <2>2. a[k] \in R
    BY <1>8, <2>1
  <2> QED BY <1>7, <2>1, <2>2
<1>11. CASE d = o /\ \A k \in 1..Len(a) : a[k].to = Nowhere
  <2>1. ASSUME NEW s, FreeSlot(w, p, i, s)  PROVE FALSE
    <3>1. s \in Slots /\ s \in 1..n
      BY <1>3, <2>1 DEF FreeSlot
    <3>2. s \in 1..Len(a)
      <4>1. Len(bags) \in Nat
        BY <1>2
      <4> QED BY <1>3, <1>8, <3>1, <4>1
    <3>3. InSlot(w, p, s, i, keep, FALSE).to = Nowhere
      BY <1>8, <1>11, <3>1, <3>2
    <3> QED BY <2>1, <3>1, <3>3, SlotAccepts
  <2>2. ASSUME NEW b, Suits(w, p, i, b), Among(b, bags)  PROVE FALSE
    <3>1. PICK k \in 1..Len(bags) : bags[k] = b
      BY <2>2 DEF Among
    <3>2. n + k \in 1..Len(a)
      <4>1. Len(bags) \in Nat
        BY <1>2
      <4> QED BY <1>3, <1>8, <4>1
    <3>3. InBag(w, b, i, keep, FALSE).to = Nowhere
      BY <1>8, <1>11, <3>1, <3>2
    <3>4. b \in Bags /\ Root(w, b) = p /\ Len(w.list[b]) <= Room
      BY <1>6, <2>2 DEF Suits
    <3> QED BY <2>2, <3>3, <3>4, BagAccepts
  <2> QED BY <1>11, <2>1, <2>2 DEF o, NoPlace, bags
<1> QED BY <1>9, <1>10, <1>11

(* Where the loop of internalMoveItem ends when the first or the second      *)
(* answer names the cylinder that was asked.                                *)
LEMMA SettledSoon ==
  ASSUME NEW N \in Nat, N >= 1, NEW h, DOMAIN h = 0..N, NEW c
  PROVE  /\ h[0].to = c => Settled(h, c) = h[0]
         /\ h[0].to # c /\ h[1].to = h[0].to => Settled(h, c) = h[1]
<1> DEFINE Asked(n) == IF n = 0 THEN c ELSE h[n - 1].to
           P(n) == h[n].to = Asked(n) /\ \A k \in 0..n - 1 : h[k].to # Asked(k)
<1>1. Settled(h, c) = h[CHOOSE n \in 0..N : P(n)]
  BY DEF Settled
<1>2. Asked(0) = c /\ Asked(1) = h[0].to
  OBVIOUS
<1> HIDE DEF Asked
<1>3. CASE h[0].to = c
  <2>1. P(0)
    BY <1>2, <1>3
  <2>2. ASSUME NEW n \in 0..N, P(n)  PROVE n = 0
    <3>1. n # 0 => 0 \in 0..n - 1
      OBVIOUS
    <3> QED BY <1>2, <1>3, <2>2, <3>1
  <2>3. 0 \in 0..N
    OBVIOUS
  <2> HIDE DEF P
  <2>4. (CHOOSE n \in 0..N : P(n)) = 0
    BY <2>1, <2>2, <2>3, Zenon
  <2> QED BY <1>1, <1>3, <2>4
<1>4. CASE h[0].to # c /\ h[1].to = h[0].to
  <2>1. P(1)
    <3>1. \A k \in 0..1 - 1 : k = 0
      OBVIOUS
    <3> QED BY <1>2, <1>4, <3>1
  <2>2. ASSUME NEW n \in 0..N, P(n)  PROVE n = 1
    <3>1. n # 0
      BY <1>2, <1>4, <2>2
    <3>2. n # 1 => 1 \in 0..n - 1
      BY <3>1
    <3> QED BY <1>2, <1>4, <2>2, <3>2
  <2>3. 1 \in 0..N
    OBVIOUS
  <2> HIDE DEF P
  <2>4. (CHOOSE n \in 0..N : P(n)) = 1
    BY <2>1, <2>2, <2>3, Zenon
  <2> QED BY <1>1, <1>4, <2>4
<1> QED BY <1>3, <1>4

(* The parts of a destination.                                              *)
LEMMA ToFacts ==
  ASSUME NEW c, NEW index, NEW item
  PROVE  /\ To(c, index, item).to = c /\ To(c, index, item).index = index
         /\ To(c, index, item).item = item
  BY DEF To

(* d is somewhere in b, and another item than i is there, if any.           *)
Hits(b, i, d) == d.to = b /\ d.index \in Int /\ d.index >= Wherever /\ d.item # i

(* d is a place for i: a free slot, or somewhere in a container with room.   *)
Serves(w, p, i, d) ==
  \/ \E s : FreeSlot(w, p, i, s) /\ d = To(p, s, NoItem)
  \/ Suits(w, p, i, d.to) /\ Hits(d.to, i, d)

(* A container with room is where it looked, or a stack in it.              *)
LEMMA BagSettles ==
  ASSUME NEW w, Laid(w), NEW p \in Players, NEW i \in Items, NEW b, Suits(w, p, i, b),
         NEW x \in {Wherever, Len(w.list[b])},
         NEW d, d = BagDestination(w, b, x, i, NoItem, TRUE)
  PROVE  Hits(b, i, d)
<1> USE WorldAssumption
<1> DEFINE joins == {k \in DOMAIN w.list[b] :
                      LET j == w.list[b][k]
                      IN j # i /\ SameType(i, j) /\ Remainder(w, j) > 0}
<1>1. b \in Bags /\ Len(w.list[b]) < Room
  BY DEF Suits
<1>2. /\ w.list[b] \in Seq(Items) /\ Len(w.list[b]) \in Nat /\ Room \in Nat
      /\ DOMAIN w.list[b] = 1..Len(w.list[b])
  <2>1. w.list[b] \in Seq(Items)
    BY <1>1 DEF Laid, PlaceTypes
  <2> QED BY <2>1
<1>3. ~(x >= Room) /\ x # MoveUp /\ x \in Int /\ x >= Wherever
  BY <1>1, <1>2, RoomAssumption DEF MoveUp, Wherever
<1>4. ItemAt(w, b, x) = NoItem
  <2>1. x \notin 0..Len(w.list[b]) - 1
    BY <1>2 DEF Wherever
  <2> QED BY <2>1 DEF ItemAt
<1>5. NoItem \notin Bags /\ NoItem # i
  BY DEF Items
<1>6. d = IF w.parent[i] # b /\ joins # {} THEN To(b, Min(joins) - 1, w.list[b][Min(joins)])
          ELSE To(b, x, NoItem)
  <2>1. d = IF w.parent[i] # b /\ joins # {} THEN To(b, Min(joins) - 1, w.list[b][Min(joins)])
            ELSE IF x = Wherever THEN To(b, x, NoItem)
            ELSE IF NoItem \in Bags THEN To(NoItem, Wherever, NoItem)
            ELSE To(b, x, NoItem)
    BY <1>3, <1>4 DEF BagDestination
  <2> HIDE DEF joins
  <2> QED BY <1>5, <2>1
<1>7. joins # {} => Min(joins) \in joins
  <2>1. joins \in SUBSET Nat
    BY <1>2
  <2> HIDE DEF joins
  <2> QED BY <2>1, LeastFacts
<1>8. joins # {} => /\ Min(joins) \in 1..Len(w.list[b])
                    /\ w.list[b][Min(joins)] # i
  BY <1>2, <1>7
<1> DEFINE k == Min(joins)
<1> HIDE DEF joins, k
<1>9. CASE w.parent[i] # b /\ joins # {}
  <2>1. d = To(b, k - 1, w.list[b][k])
    BY <1>6, <1>9 DEF k
  <2>2. k \in 1..Len(w.list[b]) /\ w.list[b][k] # i
    BY <1>8, <1>9 DEF k
  <2>3. d.to = b /\ d.index = k - 1 /\ d.item = w.list[b][k]
    BY ONLY <2>1, ToFacts
  <2>4. k - 1 \in Int /\ k - 1 >= Wherever
    BY <1>2, <2>2 DEF Wherever
  <2> QED BY <2>2, <2>3, <2>4 DEF Hits
<1>10. CASE ~(w.parent[i] # b /\ joins # {})
  <2>1. d = To(b, x, NoItem)
    BY <1>6, <1>10
  <2>2. d.to = b /\ d.index = x /\ d.item = NoItem
    BY ONLY <2>1, ToFacts
  <2> QED BY <1>3, <1>5, <2>2 DEF Hits
<1> QED BY <1>9, <1>10

(* Where a gift goes, if it can.                                            *)
LEMMA GiftDestination ==
  ASSUME NEW w, Laid(w), NEW p \in Players, ~Overfull(w, p), NEW i \in Items, NEW keep,
         NEW d, d = Destination(w, p, Wherever, i, keep, FALSE)
  PROVE  \/ Serves(w, p, i, d)
         \/ d = To(p, Wherever, NoItem) /\ NoPlace(w, p, i, keep[p])
<1> USE WorldAssumption
<1> DEFINE N == Depth + 1
<1>1. p \in Places /\ p \notin Tiles /\ p \notin Bags /\ Wherever \in Int /\ Wherever >= Wherever
  BY DEF Places, Items, Wherever
<1>2. PICK h : Asking(w, p, Wherever, i, keep, FALSE, h)
  BY <1>1, AskingExists
<1>3. /\ N \in Nat /\ N >= 1 /\ DOMAIN h = 0..N /\ d = Settled(h, p)
      /\ h[0] = QueryDestination(w, To(p, Wherever, NoItem), i, keep, FALSE)
      /\ h[1] = QueryDestination(w, h[0], i, keep, TRUE)
  <2>1. Depth \in Nat /\ DOMAIN h = 0..N /\ d = Settled(h, p)
    BY <1>2 DEF Asking
  <2>2. 0 \in 0..N /\ 1 \in 0..N
    BY <2>1
  <2>3. \A n \in 0..N :
          h[n] = QueryDestination(w, IF n = 0 THEN To(p, Wherever, NoItem) ELSE h[n - 1],
                                  i, keep, FALSE \/ n > 0)
    BY <1>2 DEF Asking
  <2>4. h[0] = QueryDestination(w, To(p, Wherever, NoItem), i, keep, FALSE)
    <3>1. (0 > 0) = FALSE
      OBVIOUS
    <3> QED BY <2>2, <2>3, <3>1
  <2>5. h[1] = QueryDestination(w, h[0], i, keep, TRUE)
    <3>1. h[1] = QueryDestination(w, IF 1 = 0 THEN To(p, Wherever, NoItem) ELSE h[1 - 1],
                                  i, keep, FALSE \/ 1 > 0)
      BY <2>2, <2>3
    <3>2. 1 > 0 /\ 1 - 1 = 0 /\ 1 # 0
      OBVIOUS
    <3>3. (FALSE \/ 1 > 0) = TRUE
      BY <3>2
    <3> QED BY <3>1, <3>2, <3>3, Zenon
  <2>6. N \in Nat /\ N >= 1
    BY <2>1
  <2> HIDE DEF N
  <2> QED BY <2>1, <2>4, <2>5, <2>6
<1> HIDE DEF N
<1>4. /\ h[0].to = p => d = h[0]
      /\ h[0].to # p /\ h[1].to = h[0].to => d = h[1]
  BY <1>3, SettledSoon
<1>5. h[0] = InInventory(w, p, Wherever, i, keep[p], FALSE)
  <2>1. h[0] = PlayerDestination(w, p, Wherever, i, NoItem, keep[p], FALSE)
    <3>1. /\ To(p, Wherever, NoItem).to = p /\ To(p, Wherever, NoItem).index = Wherever
          /\ To(p, Wherever, NoItem).item = NoItem
      BY DEF To
    <3> QED BY <1>1, <1>3, <3>1 DEF QueryDestination
  <2> QED BY <2>1 DEF PlayerDestination
<1>6. \/ Accepts(w, p, i, h[0])
      \/ h[0] = To(p, Wherever, NoItem) /\ NoPlace(w, p, i, keep[p])
  BY <1>5, GiftSearch
<1>7. CASE h[0] = To(p, Wherever, NoItem) /\ NoPlace(w, p, i, keep[p])
  <2>1. h[0].to = p
    BY <1>7 DEF To
  <2> QED BY <1>4, <1>7, <2>1
<1>8. CASE \E s : FreeSlot(w, p, i, s) /\ h[0] = To(p, s, NoItem)
  <2>1. h[0].to = p
    BY <1>8 DEF To
  <2> QED BY <1>4, <1>8, <2>1 DEF Serves
<1>9. ASSUME NEW b, Suits(w, p, i, b),
             h[0] \in {To(b, Wherever, NoItem), To(b, Len(w.list[b]), NoItem)}
      PROVE  Serves(w, p, i, d)
  <2>1. PICK x \in {Wherever, Len(w.list[b])} : h[0] = To(b, x, NoItem)
    BY <1>9
  <2>2. h[0].to = b /\ h[0].index = x /\ h[0].item = NoItem
    BY <2>1 DEF To
  <2>3. b \in Bags /\ b \notin Tiles /\ b # p
    BY <1>1, <1>9 DEF Suits, Items
  <2>4. h[1] = BagDestination(w, b, x, i, NoItem, TRUE)
    BY <1>3, <2>2, <2>3 DEF QueryDestination
  <2>5. Hits(b, i, h[1])
    <3> DEFINE e == h[1]
    <3>1. e = BagDestination(w, b, x, i, NoItem, TRUE)
      BY <2>4
    <3> HIDE DEF e
    <3>2. Hits(b, i, e)
      BY <1>9, <3>1, BagSettles
    <3> QED BY <3>2 DEF e
  <2>6. d = h[1] /\ d.to = b
    BY <1>4, <2>2, <2>3, <2>5 DEF Hits
  <2> QED BY <1>9, <2>5, <2>6 DEF Serves
<1> QED BY <1>6, <1>7, <1>8, <1>9 DEF Accepts

-----------------------------------------------------------------------------
(* A gift: i goes to p, wherever he has a place for it.                     *)

(* Who can carry more of a stack can carry less of it.                      *)
LEMMA CarriesLess ==
  ASSUME NEW w, WeightTypes(w), NEW q \in Players, NEW i \in Items,
         NEW k \in Nat, HasCapacity(w, q, i, k), NEW n \in Nat, n <= k
  PROVE  HasCapacity(w, q, i, n)
<1>1. w.carried[q] \in Int /\ Capacity \in Nat
  BY WorldAssumption DEF WeightTypes
<1> QED BY <1>1 DEF HasCapacity

(* The checks of internalMoveItem that a gift of n to d passes.              *)
Passes(w, p, i, d, n) ==
  /\ QueryAdd(w, d.to, d.index, i, n) = "ok"
  /\ QueryMaxCount(w, d.to, d.index, i, n).max \in Nat
  /\ QueryMaxCount(w, d.to, d.index, i, n).max # 0
  /\ i \in Stacks => QueryMaxCount(w, d.to, d.index, i, n).max >= n
  /\ Seat(w, d.to) = p /\ d.item # i

(* A container that suits passes,                                           *)
LEMMA BagPasses ==
  ASSUME NEW w, Laid(w), WeightTypes(w), NEW p \in Players, NEW i \in Items,
         ItemCount(w, i) \in 0..StackMax, NEW n \in 1..ItemCount(w, i),
         NEW d, Suits(w, p, i, d.to), Hits(d.to, i, d)
  PROVE  Passes(w, p, i, d, n)
<1> USE WorldAssumption
<1> DEFINE b == d.to
           k == ItemCount(w, i)
           max == BagMaxCount(w, b, d.index, i)
<1>1. /\ b \in Bags /\ Root(w, b) = p /\ Len(w.list[b]) < Room
      /\ BagTakes(w, b, 0, i, k) /\ d.index \in Int /\ d.item # i
  BY DEF Suits, Hits
<1>2. b \notin Players /\ b \notin Tiles
  BY <1>1 DEF Items
<1>3. Holder(w, b) = p /\ Seat(w, b) = p
  BY <1>1, <1>2 DEF Holder, Seat
<1>4. k \in Nat /\ k <= StackMax /\ StackMax \in Nat /\ n \in Nat /\ n <= k
      /\ Len(w.list[b]) \in Nat /\ Room \in Nat
  <2>1. w.list[b] \in Seq(Items)
    BY <1>1 DEF Laid, PlaceTypes
  <2> HIDE DEF k
  <2>2. k \in 0..StackMax /\ n \in 1..k
    BY DEF k
  <2> QED BY <2>1, <2>2
<1> HIDE DEF b, k
<1>5. BagTakes(w, b, d.index, i, n)
  <2>1. NoPlayer \notin Players /\ HasCapacity(w, p, i, k)
    BY <1>1, <1>3 DEF BagTakes
  <2>2. HasCapacity(w, p, i, n)
    BY <1>4, <2>1, CarriesLess
  <2>3. ~(Len(w.list[b]) >= Room)
    BY <1>1, <1>4
  <2> QED BY <1>1, <1>3, <2>2, <2>3 DEF BagTakes
<1>6. QueryAdd(w, b, d.index, i, n) = "ok" /\ QueryMaxCount(w, b, d.index, i, n).max = max
  <2>1. QueryMaxCount(w, b, d.index, i, n).max = max
    BY <1>1, <1>2 DEF QueryMaxCount
  <2> QED BY <1>2, <1>5, <2>1 DEF QueryAdd
<1> HIDE DEF max
<1>7. max \in Nat /\ max # 0 /\ (i \in Stacks => max >= StackMax)
  BY <1>1, <1>5, BagRoom DEF max
<1>8. i \in Stacks => max >= n
  BY <1>4, <1>7
<1> QED BY <1>1, <1>3, <1>6, <1>7, <1>8 DEF Passes, b

(* a free slot passes,                                                      *)
LEMMA SlotPasses ==
  ASSUME NEW w, WeightTypes(w), NEW p \in Players, NEW i \in Items,
         ItemCount(w, i) \in 0..StackMax, NEW n \in 1..ItemCount(w, i),
         NEW s, FreeSlot(w, p, i, s), NEW d, d = To(p, s, NoItem)
  PROVE  Passes(w, p, i, d, n)
<1> USE WorldAssumption
<1> DEFINE k == ItemCount(w, i)
<1>1. d.to = p /\ d.index = s /\ d.item = NoItem
  BY ToFacts
<1>2. s \in Slots /\ w.slot[p][s] = NoItem /\ PlayerQueryAdd(w, p, s, i, k) = "ok"
  BY DEF FreeSlot
<1>3. p \notin Tiles /\ p \notin Bags /\ NoItem # i /\ NoItem \notin Bags /\ s # Wherever
  BY <1>2, SlotFacts DEF Items
<1>4. k \in Nat /\ k <= StackMax /\ StackMax \in Nat /\ n \in Nat /\ n <= k /\ StackMax # 0
  <2> HIDE DEF k
  <2>1. k \in 0..StackMax /\ n \in 1..k
    BY DEF k
  <2> QED BY <2>1
<1> HIDE DEF k
<1>5. s \in Fits[i] /\ HasCapacity(w, p, i, k)
  BY <1>2 DEF PlayerQueryAdd
<1>6. HasCapacity(w, p, i, n)
  BY <1>4, <1>5, CarriesLess
<1>7. QueryAdd(w, p, s, i, n) = "ok"
  BY <1>2, <1>5, <1>6 DEF QueryAdd, PlayerQueryAdd
<1>8. QueryMaxCount(w, p, s, i, n).max = IF i \in Stacks THEN StackMax ELSE 1
  <2>1. PlayerQueryAdd(w, p, s, i, n) = "ok"
    BY <1>7 DEF QueryAdd
  <2>2. EmptySlotMaxCount(w, p, s, i, n) = IF i \in Stacks THEN StackMax ELSE 1
    BY <2>1 DEF EmptySlotMaxCount
  <2> QED BY <1>2, <1>3, <2>2 DEF QueryMaxCount, PlayerMaxCount
<1>9. Seat(w, p) = p
  BY <1>3 DEF Seat
<1> QED BY <1>1, <1>3, <1>4, <1>7, <1>8, <1>9 DEF Passes

(* and so whatever serves.                                                  *)
LEMMA GiftPasses ==
  ASSUME NEW w, Laid(w), WeightTypes(w), NEW p \in Players, NEW i \in Items,
         ItemCount(w, i) \in 0..StackMax, NEW n \in 1..ItemCount(w, i),
         NEW d, Serves(w, p, i, d)
  PROVE  Passes(w, p, i, d, n)
<1>1. CASE \E s : FreeSlot(w, p, i, s) /\ d = To(p, s, NoItem)
  BY <1>1, SlotPasses
<1>2. CASE Suits(w, p, i, d.to) /\ Hits(d.to, i, d)
  BY <1>2, BagPasses
<1> QED BY <1>1, <1>2 DEF Serves

(* n of i go from w to p in v, and not into guard.                           *)
Giving(w, v, p, i, n, guard, d, m) ==
  /\ MayTransfer(w, d, i, m) /\ v = Transfer(w, w.parent[i], d, i, m)
  /\ Seat(w, d.to) = p /\ ~WithinItem(w, d.to, guard)
  /\ i \in Stacks => m = n

Gives(w, v, p, i, n, guard) == \E d, m : Giving(w, v, p, i, n, guard, d, m)

(* Nothing moved.                                                           *)
Stays(w, r) == r.w = w /\ ~r.ok

(* What passes is given, unless that would be within guard.                 *)
LEMMA PassedMoves ==
  ASSUME NEW w, Placed(w), NEW p \in Players, NEW i \in Items, NEW c, c = w.parent[i],
         NEW d \in Answers(w), Settling(w, d), NEW n \in 0..StackMax, n \in 1..ItemCount(w, i),
         MaySplit(w, i, n), Passes(w, p, i, d, n), NEW guard,
         NEW r, r = MoveInto(w, c, d, i, n, guard)
  PROVE  \/ Stays(w, r) /\ guard # NoItem
         \/ r.ok /\ Gives(w, r.w, p, i, n, guard)
<1> DEFINE max == QueryMaxCount(w, d.to, d.index, i, n).max
           m   == IF i \in Stacks THEN Min({n, max}) ELSE 1
           fails == \/ QueryAdd(w, d.to, d.index, i, n) # "ok" \/ max = 0
                    \/ ~QueryRemove(w, c, i, m) \/ WithinItem(w, d.to, guard)
<1>1. /\ QueryAdd(w, d.to, d.index, i, n) = "ok" /\ max \in Nat /\ max # 0
      /\ i \in Stacks => max >= n
      /\ Seat(w, d.to) = p /\ d.item # i
  BY DEF Passes
<1>2. r = IF fails THEN Result(w, FALSE)
          ELSE Result(Transfer(w, c, d, i, m), i \in Stacks => max >= n)
  BY DEF MoveInto
<1>3. i \in Stacks => m = n
  <2>1. n \in Int /\ max \in Int /\ (i \in Stacks => n <= max)
    BY <1>1
  <2> HIDE DEF max
  <2> QED BY <2>1, MinFacts
<1>4. QueryRemove(w, c, i, m)
  <2>1. m \in 1..ItemCount(w, i)
    BY <1>3 DEF ItemCount
  <2> QED BY <2>1 DEF QueryRemove
<1> HIDE DEF max, m
<1>5. CASE WithinItem(w, d.to, guard)
  BY <1>2, <1>5 DEF Result, WithinItem, Stays
<1>6. CASE ~WithinItem(w, d.to, guard)
  <2>1. ~fails
    BY <1>1, <1>4, <1>6
  <2>2. r.ok = (i \in Stacks => max >= n)
    BY <1>2, <2>1 DEF Result
  <2>3. r.ok
    BY <1>1, <2>2
  <2>4. \/ r.w = w /\ ~r.ok
        \/ \E k : /\ MayTransfer(w, d, i, k) /\ r.w = Transfer(w, w.parent[i], d, i, k)
                  /\ r.ok /\ i \in Stacks => k = n
    BY <1>1, MoveIntoFacts
  <2> QED BY <1>1, <1>6, <2>3, <2>4 DEF Gives, Giving
<1> QED BY <1>5, <1>6

(* Without an exchange there is only one move.                              *)
LEMMA MovesOnce ==
  ASSUME NEW w, NEW c, NEW d, NEW i, d.item # i, NEW n, NEW guard,
         QueryAdd(w, d.to, d.index, i, n) # "exchange"
  PROVE  MoveTo(w, c, d, i, n, guard) = MoveInto(w, c, d, i, n, guard)
<1>1. Exchange(w, c, d, i, n) = [w |-> w, d |-> d]
  BY DEF Exchange
<1>2. Exchange(w, c, d, i, n).w = w /\ Exchange(w, c, d, i, n).d = d
  BY <1>1
<1> QED BY <1>2 DEF MoveTo

(* What cannot be added does not move.                                      *)
LEMMA Refused ==
  ASSUME NEW w, NEW c, NEW d, NEW i, NEW n, NEW guard,
         QueryAdd(w, d.to, d.index, i, n) # "ok",
         NEW r, r = MoveInto(w, c, d, i, n, guard)
  PROVE  Stays(w, r)
  BY DEF MoveInto, Result, Stays

(* What internalMoveItem does with a gift: nothing, for lack of a place or   *)
(* because that is within guard, or p gets it.                              *)
LEMMA GiftMoves ==
  ASSUME NEW w, Weighed(w), NEW p \in Players, ~Overfull(w, p), NEW i \in Items,
         w.parent[i] # Nowhere, NEW n \in 1..ItemCount(w, i), MaySplit(w, i, n), NEW guard,
         NEW r, r = MoveItem(w, w.parent[i], p, Wherever, i, n, FALSE, guard)
  PROVE  \/ Stays(w, r) /\ (guard = NoItem => NoPlace(w, p, i, w.tradeItem[p]))
         \/ r.ok /\ Gives(w, r.w, p, i, n, guard)
<1> USE WorldAssumption
<1> DEFINE c == w.parent[i]
           d == Destination(w, p, Wherever, i, w.tradeItem, FALSE)
<1>1. Placed(w) /\ Laid(w) /\ WeightTypes(w)
  BY DEF Weighed, Placed
<1>2. ItemCount(w, i) \in 0..StackMax /\ n \in 0..StackMax
  <2>1. ItemCount(w, i) \in 0..StackMax /\ StackMax \in Nat
    BY <1>1, CountOf
  <2> DEFINE k == ItemCount(w, i)
  <2>2. k \in 0..StackMax /\ n \in 1..k
    BY <2>1
  <2> HIDE DEF k
  <2>3. n \in 0..StackMax
    BY <2>1, <2>2
  <2> QED BY <2>1, <2>3
<1>3. r = MoveTo(w, c, d, i, n, guard)
  BY DEF MoveItem
<1> HIDE DEF d
<1>4. /\ d \in Answers(w) /\ Settling(w, d)
      /\ Serves(w, p, i, d) \/ (d = To(p, Wherever, NoItem) /\ NoPlace(w, p, i, w.tradeItem[p]))
  <2>1. p \in Places /\ Wherever \in Int /\ Wherever >= Wherever
    BY DEF Places, Wherever
  <2>2. d \in Answers(w) /\ Settling(w, d)
    BY <1>1, <2>1, DestinationFacts DEF d
  <2>3. Serves(w, p, i, d) \/ (d = To(p, Wherever, NoItem) /\ NoPlace(w, p, i, w.tradeItem[p]))
    BY <1>1, GiftDestination DEF d
  <2> QED BY <2>2, <2>3
<1>5. CASE Serves(w, p, i, d)
  <2>1. Passes(w, p, i, d, n)
    BY <1>1, <1>2, <1>5, GiftPasses
  <2>2. QueryAdd(w, d.to, d.index, i, n) # "exchange" /\ d.item # i
    BY <2>1 DEF Passes
  <2>3. r = MoveInto(w, c, d, i, n, guard)
    BY <1>3, <2>2, MovesOnce
  <2>4. \/ Stays(w, r) /\ guard # NoItem
        \/ r.ok /\ Gives(w, r.w, p, i, n, guard)
    BY <1>1, <1>2, <1>4, <2>1, <2>3, PassedMoves
  <2> QED BY <2>4
<1>6. CASE d = To(p, Wherever, NoItem) /\ NoPlace(w, p, i, w.tradeItem[p])
  <2>1. d.to = p /\ d.index = Wherever /\ d.item = NoItem /\ NoItem # i
    BY <1>6, ToFacts DEF Items
  <2>2. QueryAdd(w, d.to, d.index, i, n) = "no"
    BY <2>1, SlotFacts DEF QueryAdd, PlayerQueryAdd
  <2>3. r = MoveInto(w, c, d, i, n, guard)
    BY <1>3, <2>1, <2>2, MovesOnce
  <2>4. Stays(w, r)
    BY <2>2, <2>3, Refused
  <2> QED BY <1>6, <2>4
<1> QED BY <1>4, <1>5, <1>6

(* Whatever the search of an inventory answers is in it.                    *)
LEMMA SearchSeat ==
  ASSUME NEW w, Laid(w), NEW p \in Players, NEW i \in Items, NEW keep, NEW auto,
         NEW r, r = InInventory(w, p, Wherever, i, keep, auto)
  PROVE  Seat(w, r.to) = p
<1> USE WorldAssumption
<1> DEFINE stacking == auto /\ i \in Stacks
           bags == SearchOrder(w, p, i, keep, IF stacking THEN {i, keep} ELSE {})
           f == [s \in 1..Cardinality(Slots) |-> InSlot(w, p, s, i, keep, stacking)]
           g == [k \in DOMAIN bags |-> InBag(w, bags[k], i, keep, stacking)]
           o == To(p, Wherever, NoItem)
           V == {b \in Bags : Root(w, b) = p}
           R == {InSlot(w, p, s, i, keep, stacking) : s \in Slots}
                  \cup {InBag(w, b, i, keep, stacking) : b \in V}
<1>1. r = FirstOf(f \o g, o)
  BY DEF InInventory
<1>2. bags \in Seq(V)
  BY SearchSound
<1>3. f \in Seq(R)
  <2>1. Slots = 1..Cardinality(Slots)
    BY WorldAssumption
  <2>2. \A s \in 1..Cardinality(Slots) : InSlot(w, p, s, i, keep, stacking) \in R
    BY <2>1
  <2> HIDE DEF R
  <2> QED BY <2>2, SlotFacts
<1>4. g \in Seq(R)
  <2> HIDE DEF bags
  <2>1. \A k \in 1..Len(bags) : bags[k] \in V
    BY <1>2
  <2>2. \A k \in 1..Len(bags) : InBag(w, bags[k], i, keep, stacking) \in R
    BY <2>1
  <2> HIDE DEF R
  <2> QED BY <1>2, <2>2
<1>5. p \notin Bags
  BY DEF Items
<1>6. \A x \in R : x.to # Nowhere => Seat(w, x.to) = p
  <2>1. ASSUME NEW s \in Slots, NEW x, x = InSlot(w, p, s, i, keep, stacking), x.to # Nowhere
        PROVE  Seat(w, x.to) = p
    <3> DEFINE j == w.slot[p][s]
    <3>1. /\ j \in Items \cup {NoItem} /\ (j # NoItem => w.parent[j] = p)
          /\ ParentTypes(w)
      BY DEF Laid, PlaceTypes, SlotsFit
    <3>2. x.to = p \/ (x.to = j /\ j \in Bags)
      <4>1. x # To(Nowhere, Wherever, NoItem)
        BY <2>1, ToFacts
      <4>2. \/ x = To(p, s, NoItem) \/ x = To(p, s, j)
            \/ x = To(j, Wherever, NoItem) /\ j \in Bags
        BY <2>1, <4>1 DEF InSlot
      <4> HIDE DEF j
      <4> QED BY <4>2, ToFacts
    <3> HIDE DEF j
    <3>3. j \in Bags => Root(w, j) = p
      <4> SUFFICES ASSUME j \in Bags  PROVE Root(w, j) = p
        OBVIOUS
      <4>1. j \in Items /\ w.parent[j] = p /\ w.parent[j] \notin Bags
        BY <1>5, <3>1 DEF Items
      <4> QED BY <3>1, <4>1, OutermostFacts
    <3> QED BY <1>5, <3>2, <3>3 DEF Seat
  <2>2. ASSUME NEW b \in V, NEW x, x = InBag(w, b, i, keep, stacking), x.to # Nowhere
        PROVE  Seat(w, x.to) = p
    <3>1. x.to = b
      <4>1. x # To(Nowhere, Wherever, NoItem)
        BY <2>2, ToFacts
      <4>2. \E k, l : x = To(b, k, l)
        BY <2>2, <4>1 DEF InBag
      <4> QED BY <4>2, ToFacts
    <3> QED BY <3>1 DEF Seat
  <2> QED BY <2>1, <2>2
<1>7. Seat(w, o.to) = p
  BY <1>5, ToFacts DEF Seat
<1> HIDE DEF f, g, R, o
<1>8. f \o g \in Seq(R)
  BY <1>3, <1>4
<1>9. r = o \/ (r \in R /\ r.to # Nowhere)
  <2> DEFINE a == f \o g
  <2>1. a \in Seq(R) /\ r = FirstOf(a, o)
    BY <1>1, <1>8
  <2> HIDE DEF a
  <2> QED BY <2>1, FirstFacts
<1> QED BY <1>6, <1>7, <1>9

(* Who may get i, when that is tried before the swap, can carry it.          *)
LEMMA TestedCapacity ==
  ASSUME NEW w, Laid(w), NEW p \in Players, NEW i \in Items, TestAddItem(w, p, i)
  PROVE  HasCapacity(w, p, i, ItemCount(w, i))
<1> USE WorldAssumption
<1> DEFINE n == ItemCount(w, i)
           d == QueryDestination(w, To(p, Wherever, NoItem), i, w.tradeItem, TRUE)
           keep == w.tradeItem[p]
<1>1. QueryAdd(w, d.to, d.index, i, n) = "ok"
  BY DEF TestAddItem
<1>2. p \notin Tiles /\ p \notin Bags
  BY DEF Items
<1>3. d = InInventory(w, p, Wherever, i, keep, TRUE)
  <2>1. d = PlayerDestination(w, p, Wherever, i, NoItem, keep, TRUE)
    <3>1. /\ To(p, Wherever, NoItem).to = p /\ To(p, Wherever, NoItem).index = Wherever
          /\ To(p, Wherever, NoItem).item = NoItem
      BY DEF To
    <3> QED BY <1>2, <3>1 DEF QueryDestination
  <2> QED BY <2>1 DEF PlayerDestination
<1> DEFINE c == d.to
           x == d.index
<1>4. c \in {p} \cup Bags /\ Seat(w, c) = p
  <2> HIDE DEF d, keep
  <2>1. Proper(w, p, d)
    <3>1. Wherever \in {0, Wherever}
      OBVIOUS
    <3> QED BY <1>3, <3>1, InventoryAnswer
  <2>2. Seat(w, d.to) = p
    <3> DEFINE auto == TRUE
    <3>1. d = InInventory(w, p, Wherever, i, keep, auto)
      BY <1>3
    <3> HIDE DEF auto
    <3> QED BY <3>1, SearchSeat
  <2> QED BY <2>1, <2>2 DEF Proper
<1> HIDE DEF d, n
<1>5. QueryAdd(w, c, x, i, n) = "ok"
  BY <1>1
<1> HIDE DEF c, x
<1>6. CASE c = p
  BY <1>5, <1>6 DEF QueryAdd, PlayerQueryAdd, n
<1>7. CASE c \in Bags
  <2>1. c \notin Tiles /\ c \notin Players
    BY <1>7 DEF Items
  <2>2. BagTakes(w, c, x, i, n)
    BY <1>5, <2>1 DEF QueryAdd
  <2>3. Holder(w, c) = p /\ p # NoPlayer
    BY <1>4, <1>7, <2>1 DEF Seat, Holder
  <2> QED BY <2>2, <2>3 DEF BagTakes, n
<1> QED BY <1>4, <1>6, <1>7
-----------------------------------------------------------------------------
(* What a transfer leaves alone.                                            *)

(* No slot of v has another item than in w, but for those of c.             *)
SlotsEmptied(w, v, c) ==
  \A p \in Players : p # c => \A s \in Slots : v.slot[p][s] \in {w.slot[p][s], NoItem}

(* What departs empties a slot at most.                                     *)
LEMMA DepartSlots ==
  ASSUME NEW w, Laid(w), NEW i \in Items, NEW c, c = w.parent[i], c # Nowhere,
         NEW m \in 1..ItemCount(w, i), NEW u, u = Depart(w, c, i, m), NEW to
  PROVE  SlotsEmptied(w, u, to)
<1> USE WorldAssumption
<1> DEFINE r == RemoveThing(w, c, i, m)
<1>1. /\ ItemFields \subseteq DOMAIN w
      /\ w.slot \in [Players -> [Slots -> Items \cup {NoItem}]]
  BY DEF Laid, PlaceTypes
<1>2. u = [r EXCEPT !.count = IF i \in Stacks /\ m = w.count[i]
                              THEN [r.count EXCEPT ![i] = 0] ELSE r.count]
  BY DEF Depart
<1>3. CASE Whole(w, i, m)
  <2>1. TakenOut(w, r, i)
    BY <1>3, RemoveFacts DEF Whole
  <2>2. \A p \in Players, s \in Slots : r.slot[p][s] \in {w.slot[p][s], NoItem}
    <3>1. CASE c \in Players
      <4>1. PICK s \in Slots : r.slot = [w.slot EXCEPT ![c] = [w.slot[c] EXCEPT ![s] = NoItem]]
        BY <2>1, <3>1 DEF TakenOut
      <4> HIDE DEF r
      <4> QED BY <1>1, <4>1
    <3>2. CASE c \notin Players
      BY <2>1, <3>2 DEF TakenOut
    <3> QED BY <3>1, <3>2
  <2>3. ItemFields \subseteq DOMAIN r
    BY <2>1 DEF TakenOut
  <2> HIDE DEF r
  <2>4. u.slot = r.slot
    BY <1>2, <2>3 DEF ItemFields
  <2> QED BY <2>2, <2>4 DEF SlotsEmptied
<1>4. CASE ~Whole(w, i, m)
  <2>1. i \in Stacks /\ m # w.count[i]
    BY <1>4 DEF Whole
  <2>2. r = UpdateThing(w, c, i, w.count[i] - m)
    BY <2>1 DEF RemoveThing
  <2>3. Recounted(w, r, i, w.count[i] - m)
    BY <1>1, <2>2, UpdateFacts
  <2> HIDE DEF r
  <2>4. u.slot = w.slot
    BY <1>2, <2>1, <2>3 DEF ItemFields, Recounted
  <2> QED BY <2>4 DEF SlotsEmptied
<1> QED BY <1>3, <1>4

(* What arrives goes into a slot of d at most.                              *)
LEMMA ArriveSlots ==
  ASSUME NEW w, Laid(w), NEW i \in Items, NEW d, NEW o,
         NEW rest, MayArrive(w, d, i, o, rest), NEW v, v = Arrive(w, d, i, o, rest)
  PROVE  SlotsEmptied(w, v, d.to)
<1> USE WorldAssumption
<1>1. w.count \in [Stacks -> 0..StackMax] /\ ItemFields \subseteq DOMAIN w /\ StackMax \in Nat
      /\ w.slot \in [Players -> [Slots -> Items \cup {NoItem}]]
  BY DEF Laid, PlaceTypes
<1>2. CASE i \in Stacks /\ rest = 0
  <2>1. v = w
    BY <1>2 DEF Arrive
  <2> QED BY <2>1 DEF SlotsEmptied
<1>3. CASE ~(i \in Stacks /\ rest = 0)
  <2> DEFINE x == IF i \in Stacks THEN [w EXCEPT !.count[o] = rest] ELSE w
             c == d.to
             index == d.index
  <2>1. /\ o \in Items /\ w.parent[o] = Nowhere
        /\ IF i \in Stacks THEN o \in Stacks /\ rest \in 1..StackMax ELSE o = i
        /\ c \in Places /\ index \in Int /\ FreeAt(w, c, index)
    BY <1>3 DEF MayArrive
  <2>2. v = AddThing(x, c, index, o)
    BY <1>3, <2>1 DEF Arrive
  <2> HIDE DEF c, index
  <2>3. /\ ItemFields \subseteq DOMAIN x
        /\ x.parent = w.parent /\ x.list = w.list /\ x.slot = w.slot
        /\ x.count = IF i \in Stacks THEN [w.count EXCEPT ![o] = rest] ELSE w.count
    BY <1>1 DEF ItemFields
  <2> HIDE DEF x
  <2>4. x.count \in [Stacks -> 0..StackMax]
    BY <1>1, <2>1, <2>3
  <2>5. Laid(x)
    BY <2>3, <2>4, CountLaid
  <2>6. FreeAt(x, c, index)
    BY <2>1, <2>3 DEF FreeAt
  <2>7. PutIn(x, v, c, index, o)
    BY <2>1, <2>2, <2>5, <2>6, AddFacts
  <2>8. \A p \in Players : p # c => v.slot[p] = w.slot[p]
    <3>1. CASE c \in Players
      <4>1. v.slot = [w.slot EXCEPT ![c] = [w.slot[c] EXCEPT ![index] = o]]
        BY <2>3, <2>7, <3>1 DEF PutIn
      <4> QED BY <1>1, <4>1
    <3>2. CASE c \notin Players
      BY <2>3, <2>7, <3>2 DEF PutIn
    <3> QED BY <3>1, <3>2
  <2> QED BY <2>8 DEF SlotsEmptied, c
<1> QED BY <1>2, <1>3

(* Containers that are neither at c nor at to, nor around those, have the    *)
(* weight that they had.                                                    *)
Far(w, c, b) == c \in Bags => b \notin Around(w, c)

WeightsElsewhere(w, v, c, to) ==
  \A b \in Bags : Far(w, c, b) /\ Far(w, to, b) => v.weight[b] = w.weight[b]

(* The whole transfer.                                                      *)
LEMMA TransferElsewhere ==
  ASSUME NEW w, Weighed(w), NEW i \in Items, NEW d, NEW m, MayTransfer(w, d, i, m),
         NEW c, c = w.parent[i], NEW v, v = Transfer(w, c, d, i, m)
  PROVE  SlotsEmptied(w, v, d.to) /\ WeightsElsewhere(w, v, c, d.to)
<1> USE WorldAssumption
<1> DEFINE n == Joining(w, d, i, m)
           o == Arriving(w, i, m)
           u1 == Depart(w, c, i, m)
           u2 == Join(u1, d, i, n)
           u3 == Arrive(u2, d, i, o, m - n)
           there == d.to
<1>1. /\ Placed(w) /\ Laid(w) /\ WeightTypes(w) /\ BagsWeighed(w)
      /\ ParentTypes(w) /\ NoKnot(w)
  BY DEF Weighed, Placed, Laid, PlaceTypes
<1>2. /\ there \in Places /\ c # Nowhere /\ m \in 1..ItemCount(w, i)
      /\ there \in Bags /\ i \in Bags => Clear(w, there, i)
  BY DEF MayTransfer, Spot, Places, Items
<1>3. n \in Int
  BY <1>1, JoiningFacts
<1>4. v = PostNotification(PostNotification(u3, c), there)
  BY DEF Transfer, Joining, Arriving
<1>5. /\ Laid(u1)
      /\ u1.parent = IF Whole(w, i, m) THEN [w.parent EXCEPT ![i] = Nowhere] ELSE w.parent
  <2>1. /\ Laid(w) /\ w.parent[i] # Nowhere /\ m \in 1..ItemCount(w, i)
        /\ u1 = Depart(w, w.parent[i], i, m)
    BY <1>1, <1>2
  <2> HIDE DEF u1, u2, u3, there
  <2>2. /\ Laid(u1)
        /\ u1.parent = IF Whole(w, i, m) THEN [w.parent EXCEPT ![i] = Nowhere] ELSE w.parent
        /\ u1.count = IF i \in Stacks THEN [w.count EXCEPT ![i] = @ - m] ELSE w.count
        /\ \A to \in Places : \A index : FreeAt(w, to, index) => FreeAt(u1, to, index)
    BY <2>1, DepartFacts
  <2> QED BY <2>2
<1>6. SlotsEmptied(w, u1, there)
  BY <1>1, <1>2, DepartSlots
<1> HIDE DEF n, o
<1>7. Loaded(w, u1, c, -Moving(w, i, m))
  BY <1>1, <1>2, DepartLoads
<1>8. /\ MayJoin(u1, d, i, n)
      /\ \A u : u.parent = u1.parent /\ u.slot = u1.slot => MayArrive(u, d, i, o, m - n)
  <2>1. u1 = Depart(w, c, i, m) /\ n = Joining(w, d, i, m) /\ o = Arriving(w, i, m)
    BY DEF u1, n, o
  <2> HIDE DEF u1, u2, u3
  <2> QED BY <1>1, <2>1, TransferMay
<1> HIDE DEF u1
<1>9. WeightTypes(u1) /\ BagsWeighed(u1)
  BY <1>7 DEF Loaded
<1>10. /\ Laid(u2) /\ Loaded(u1, u2, d.to, n) /\ u2.parent = u1.parent
       /\ u2.slot = u1.slot
  BY <1>3, <1>5, <1>8, <1>9, JoinLoads
<1> HIDE DEF u2
<1>11. WeightTypes(u2) /\ BagsWeighed(u2)
  BY <1>10 DEF Loaded
<1> DEFINE rest == m - n
<1>12. MayArrive(u2, d, i, o, rest) /\ u3 = Arrive(u2, d, i, o, rest)
  BY <1>8, <1>10
<1> HIDE DEF u3, rest
<1>13. SlotsEmptied(u2, u3, d.to)
  BY <1>10, <1>12, ArriveSlots
<1>14. Laid(u3) /\ Loaded(u2, u3, d.to, Moving(u2, i, rest))
  BY <1>10, <1>11, <1>12, ArriveLoads
<1>15. SamePlaces(u3, v) /\ v.weight = u3.weight
  <2>1. ItemFields \subseteq DOMAIN u3
    BY <1>14 DEF Laid, PlaceTypes
  <2> DEFINE x == PostNotification(u3, c)
  <2>2. SamePlaces(u3, x) /\ x.weight = u3.weight
    <3>1. SamePlaces(u3, x)
      BY <2>1, PostSame
    <3>2. x.weight = u3.weight
      BY <2>1 DEF PostNotification, ItemFields
    <3> QED BY <3>1, <3>2
  <2>3. ItemFields \subseteq DOMAIN x
    BY <2>2 DEF SamePlaces
  <2>4. v = PostNotification(x, there)
    BY <1>4
  <2> HIDE DEF x, there
  <2>5. SamePlaces(x, v) /\ v.weight = x.weight
    <3>1. SamePlaces(x, v)
      BY <2>3, <2>4, PostSame
    <3>2. v.weight = x.weight
      BY <2>3, <2>4 DEF PostNotification, ItemFields
    <3> QED BY <3>1, <3>2
  <2> QED BY <2>2, <2>5 DEF SamePlaces
<1>16. SlotsEmptied(w, v, there)
  <2>1. \A p \in Players : p # there => \A s \in Slots :
           /\ u2.slot[p][s] \in {w.slot[p][s], NoItem}
           /\ u3.slot[p][s] \in {u2.slot[p][s], NoItem}
    BY <1>6, <1>10, <1>13 DEF SlotsEmptied
  <2>2. v.slot = u3.slot
    BY <1>15 DEF SamePlaces
  <2> QED BY <2>1, <2>2 DEF SlotsEmptied
<1>17. there \in Bags => /\ Around(u1, there) = Around(w, there)
                         /\ Around(u2, there) = Around(w, there)
  <2>1. ParentTypes(u1) /\ \A j \in Bags : j # i => u1.parent[j] = w.parent[j]
    BY <1>1, <1>5 DEF Laid, PlaceTypes, ParentTypes, Items
  <2> HIDE DEF there
  <2>2. there \in Bags => Around(u1, there) = Around(w, there)
    BY <1>1, <1>2, <2>1, HolderKept
  <2>3. Around(u2, there) = Around(u1, there)
    BY <1>10, SameAround
  <2> QED BY <2>2, <2>3
<1>18. ASSUME NEW b \in Bags, Far(w, c, b), Far(w, there, b)
       PROVE  v.weight[b] = w.weight[b]
  <2>1. u1.weight[b] = w.weight[b]
    BY <1>7, <1>18 DEF Loaded, Far
  <2>2. u2.weight[b] = u1.weight[b]
    BY <1>10, <1>17, <1>18 DEF Loaded, Far
  <2>3. u3.weight[b] = u2.weight[b]
    BY <1>14, <1>17, <1>18 DEF Loaded, Far
  <2> QED BY <1>15, <2>1, <2>2, <2>3
<1> QED BY <1>16, <1>18 DEF WeightsElsewhere
-----------------------------------------------------------------------------
(* Nobody comes to offer another item while something moves.                *)
OffersFrom(w, g) ==
  TradeFields \subseteq DOMAIN w /\ \A p \in Players : w.tradeItem[p] \in {g[p], NoItem}

(* Outside of offers anything may change.                                   *)
SameOffers(w, v) == TradeFields \subseteq DOMAIN v /\ v.tradeItem = w.tradeItem

(* The offers are still those of before, or ended.                          *)
LEMMA SameOfferings ==
  ASSUME NEW w, NEW g, OffersFrom(w, g), NEW v, SameOffers(w, v)
  PROVE  OffersFrom(v, g)
  BY DEF OffersFrom, SameOffers

(* internalCloseTrade, and whatever may close a trade.                       *)
LEMMA NotifyOfferings ==
  ASSUME NEW w, NEW g, OffersFrom(w, g), NEW c, NEW i
  PROVE  /\ OffersFrom(NotifyRemove(w, c, i), g)
         /\ OffersFrom(NotifyAdd(w, c, i), g)
         /\ OffersFrom(NotifyUpdate(w, c, i), g)
<1>1. ASSUME NEW ps  PROVE OffersFrom(CloseTrades(w, ps), g)
  <2>1. ASSUME NEW both  PROVE OffersFrom(CloseOwnTrades(w, both), g)
    BY DEF OffersFrom, TradeFields, CloseOwnTrades
  <2> QED BY <2>1 DEF CloseTrades
<1>2. OffersFrom(NotifyRemove(w, c, i), g)
  BY <1>1 DEF NotifyRemove
<1>3. OffersFrom(NotifyAdd(w, c, i), g)
  BY <1>1 DEF NotifyAdd
<1>4. OffersFrom(NotifyUpdate(w, c, i), g)
  BY <1>1 DEF NotifyUpdate
<1> QED BY <1>2, <1>3, <1>4

(* Container::updateItemWeight.                                             *)
LEMMA WeightOfferings ==
  ASSUME NEW w, NEW g, OffersFrom(w, g), NEW b, NEW diff
  PROVE  OffersFrom(UpdateItemWeight(w, b, diff), g)
<1>1. SameOffers(w, UpdateItemWeight(w, b, diff))
  BY DEF OffersFrom, TradeFields, SameOffers, UpdateItemWeight
<1> QED BY <1>1, SameOfferings

(* __addThing of players, containers and tiles.                             *)
LEMMA AddOfferings ==
  ASSUME NEW w, NEW g, OffersFrom(w, g), NEW c, NEW index, NEW i
  PROVE  OffersFrom(AddThing(w, c, index, i), g)
<1>1. OffersFrom(PlayerAddThing(w, c, index, i), g)
  <2>1. SameOffers(w, PlayerAddThing(w, c, index, i))
    BY DEF OffersFrom, TradeFields, SameOffers, PlayerAddThing
  <2> QED BY <2>1, SameOfferings
<1>2. OffersFrom(BagAddThing(w, c, index, i), g)
  <2> DEFINE v == [w EXCEPT !.parent[i] = c, !.list[c] = <<i>> \o @]
  <2>1. SameOffers(w, v)
    BY DEF OffersFrom, TradeFields, SameOffers
  <2>2. OffersFrom(v, g)
    BY <2>1, SameOfferings
  <2>3. BagAddThing(w, c, index, i) =
          IF index >= Room THEN w ELSE NotifyAdd(UpdateItemWeight(v, c, Weight(w, i)), c, i)
    BY DEF BagAddThing
  <2> HIDE DEF v
  <2>4. OffersFrom(NotifyAdd(UpdateItemWeight(v, c, Weight(w, i)), c, i), g)
    BY <2>2, WeightOfferings, NotifyOfferings
  <2> QED BY <2>3, <2>4
<1>3. OffersFrom(TileAddThing(w, c, i), g)
  <2>1. SameOffers(w, TileAddThing(w, c, i))
    BY DEF OffersFrom, TradeFields, SameOffers, TileAddThing
  <2> QED BY <2>1, SameOfferings
<1> QED BY <1>1, <1>2, <1>3 DEF AddThing

(* __updateThing.                                                           *)
LEMMA UpdateOfferings ==
  ASSUME NEW w, NEW g, OffersFrom(w, g), NEW c, NEW i, NEW n
  PROVE  OffersFrom(UpdateThing(w, c, i, n), g)
<1> DEFINE v == [w EXCEPT !.count[i] = n]
<1>1. SameOffers(w, v)
  BY DEF OffersFrom, TradeFields, SameOffers
<1>2. OffersFrom(v, g)
  BY <1>1, SameOfferings
<1>3. UpdateThing(w, c, i, n) =
        IF c \in Bags THEN NotifyUpdate(UpdateItemWeight(v, c, n - w.count[i]), c, i)
        ELSE NotifyUpdate(v, c, i)
  BY DEF UpdateThing, BagUpdateThing
<1> HIDE DEF v
<1>4. OffersFrom(NotifyUpdate(UpdateItemWeight(v, c, n - w.count[i]), c, i), g)
  BY <1>2, WeightOfferings, NotifyOfferings
<1>5. OffersFrom(NotifyUpdate(v, c, i), g)
  BY <1>2, NotifyOfferings
<1> QED BY <1>3, <1>4, <1>5

(* __removeThing of players, containers and tiles.                          *)
LEMMA RemoveOfferings ==
  ASSUME NEW w, NEW g, OffersFrom(w, g), NEW c, NEW i, NEW n
  PROVE  OffersFrom(RemoveThing(w, c, i, n), g)
<1>1. OffersFrom(UpdateThing(w, c, i, w.count[i] - n), g)
  BY UpdateOfferings
<1>2. OffersFrom(NotifyRemove(w, c, i), g)
  BY NotifyOfferings
<1>3. OffersFrom(PlayerRemoveThing(w, c, i), g)
  <2>1. SameOffers(NotifyRemove(w, c, i), PlayerRemoveThing(w, c, i))
    BY <1>2 DEF OffersFrom, TradeFields, SameOffers, PlayerRemoveThing
  <2> QED BY <1>2, <2>1, SameOfferings
<1>4. OffersFrom(BagRemoveThing(w, c, i), g)
  <2> DEFINE v == [NotifyRemove(w, c, i) EXCEPT !.parent[i] = Nowhere,
                                                !.list[c] = RemoveAt(@, IndexOf(w, c, i) + 1)]
  <2>1. SameOffers(NotifyRemove(w, c, i), v)
    BY <1>2 DEF OffersFrom, TradeFields, SameOffers
  <2>2. OffersFrom(v, g)
    BY <1>2, <2>1, SameOfferings
  <2>3. BagRemoveThing(w, c, i) = UpdateItemWeight(v, c, -Weight(w, i))
    BY DEF BagRemoveThing
  <2> HIDE DEF v
  <2> QED BY <2>2, <2>3, WeightOfferings
<1>5. OffersFrom(TileRemoveThing(w, c, i), g)
  <2> DEFINE v == [w EXCEPT !.parent[i] = Nowhere, !.list[c] = RemoveAt(@, IndexOf(w, c, i) + 1)]
  <2>1. SameOffers(w, v)
    BY DEF OffersFrom, TradeFields, SameOffers
  <2>2. OffersFrom(v, g)
    BY <2>1, SameOfferings
  <2>3. TileRemoveThing(w, c, i) = NotifyRemove(v, c, i)
    BY DEF TileRemoveThing
  <2> HIDE DEF v
  <2> QED BY <2>2, <2>3, NotifyOfferings
<1> QED BY <1>1, <1>3, <1>4, <1>5 DEF RemoveThing

(* The whole transfer.                                                      *)
LEMMA TransferOfferings ==
  ASSUME NEW w, NEW g, OffersFrom(w, g), NEW c, NEW d, NEW i, NEW m
  PROVE  OffersFrom(Transfer(w, c, d, i, m), g)
<1>1. ASSUME NEW v, OffersFrom(v, g), NEW object, NEW rest
      PROVE  OffersFrom(Arrive(v, d, i, object, rest), g)
  <2> DEFINE u == [v EXCEPT !.count[object] = rest]
  <2>1. SameOffers(v, u)
    BY <1>1 DEF OffersFrom, TradeFields, SameOffers
  <2>2. OffersFrom(u, g)
    BY <1>1, <2>1, SameOfferings
  <2>3. Arrive(v, d, i, object, rest) =
          IF i \notin Stacks THEN AddThing(v, d.to, d.index, i)
          ELSE IF rest = 0 THEN v ELSE AddThing(u, d.to, d.index, object)
    BY DEF Arrive
  <2> HIDE DEF u
  <2> QED BY <1>1, <2>2, <2>3, AddOfferings
<1>2. OffersFrom(Depart(w, c, i, m), g)
  <2>1. OffersFrom(RemoveThing(w, c, i, m), g)
    BY RemoveOfferings
  <2>2. SameOffers(RemoveThing(w, c, i, m), Depart(w, c, i, m))
    BY <2>1 DEF OffersFrom, TradeFields, SameOffers, Depart
  <2> QED BY <2>1, <2>2, SameOfferings
<1>3. ASSUME NEW v, OffersFrom(v, g), NEW n  PROVE  OffersFrom(Join(v, d, i, n), g)
  BY <1>3, UpdateOfferings DEF Join
<1>4. ASSUME NEW v, OffersFrom(v, g), NEW to  PROVE  OffersFrom(PostNotification(v, to), g)
  <2>1. SameOffers(v, PostNotification(v, to))
    BY <1>4 DEF OffersFrom, TradeFields, SameOffers, PostNotification
  <2> QED BY <1>4, <2>1, SameOfferings
<1>5. ASSUME NEW n, NEW object, NEW rest
      PROVE  OffersFrom(PostNotification(PostNotification(
               Arrive(Join(Depart(w, c, i, m), d, i, n), d, i, object, rest), c), d.to), g)
  BY <1>1, <1>2, <1>3, <1>4
<1> QED BY <1>5 DEF Transfer
-----------------------------------------------------------------------------
(* The first of two gifts.                                                  *)

(* p offers i and q offers j: neither is in the other.                      *)
Bargaining(w, p, q, i, j) ==
  /\ Weighed(w)
  /\ p \in Players /\ q \in Players /\ p # q /\ i \in Items /\ j \in Items /\ i # j
  /\ Near(w, p, i) /\ Near(w, q, j) /\ ~Holds(w, i, j) /\ ~Holds(w, j, i)

(* All of i goes from p to q, who offers j, and not into that.              *)
FirstGiving(w, u, q, i, j, d, m) == Giving(w, u, q, i, ItemCount(w, i), j, d, m)

(* What that means for places.                                              *)
FirstPlaces(w, u, i, j, d, m) ==
  /\ Placed(w) /\ Placed(u) /\ ParentTypes(w) /\ ParentTypes(u) /\ NoKnot(w) /\ NoKnot(u)
  /\ Whole(w, i, m) /\ Arriving(w, i, m) = i
  /\ Transferred(w, u, d, i, m)
  /\ MovesOnly(w, u, i) /\ u.parent[i] \in {d.to, Nowhere}

(* A gift of all of i moves i itself.                                       *)
LEMMA FirstSettles ==
  ASSUME NEW w, NEW p, NEW q, NEW i, NEW j, Bargaining(w, p, q, i, j),
         NEW u, NEW d, NEW m, FirstGiving(w, u, q, i, j, d, m)
  PROVE  FirstPlaces(w, u, i, j, d, m)
<1>1. /\ Placed(w) /\ ParentTypes(w) /\ NoKnot(w) /\ i \in Items
  BY DEF Bargaining, Weighed, Placed, Laid, PlaceTypes
<1>2. MayTransfer(w, d, i, m) /\ u = Transfer(w, w.parent[i], d, i, m) /\ Whole(w, i, m)
  BY DEF FirstGiving, Giving, Whole, ItemCount
<1>3. Arriving(w, i, m) = i
  BY <1>2 DEF Arriving, Whole
<1>4. Placed(u) /\ Transferred(w, u, d, i, m)
  BY <1>1, <1>2, TransferFacts
<1>5. ParentTypes(u) /\ NoKnot(u)
  BY <1>4 DEF Placed, Laid, PlaceTypes
<1>6. /\ \A x \in Items : x # i => u.parent[x] = w.parent[x]
      /\ u.parent[i] \in {d.to, Nowhere}
  BY <1>1, <1>2, <1>3, <1>4 DEF Transferred
<1>7. MovesOnly(w, u, i)
  BY <1>1, <1>5, <1>6 DEF MovesOnly
<1> QED BY <1>1, <1>2, <1>3, <1>4, <1>5, <1>6, <1>7 DEF FirstPlaces

(* i does not come into j, and nothing else about j's place changes.        *)
LEMMA FirstInside ==
  ASSUME NEW w, NEW p, NEW q, NEW i, NEW j, Bargaining(w, p, q, i, j),
         NEW u, NEW d, NEW m, FirstGiving(w, u, q, i, j, d, m)
  PROVE  SameInside(w, u, j) /\ ~Holds(u, j, i) /\ u.parent[j] = w.parent[j]
<1> USE WorldAssumption
<1>1. FirstPlaces(w, u, i, j, d, m)
  BY FirstSettles
<1>2. /\ ParentTypes(w) /\ ParentTypes(u) /\ NoKnot(w) /\ NoKnot(u)
      /\ MovesOnly(w, u, i) /\ u.parent[i] \in {d.to, Nowhere}
  BY <1>1 DEF FirstPlaces
<1>3. i \in Items /\ j \in Items /\ i # j /\ ~Holds(w, i, j) /\ ~Holds(w, j, i)
  BY DEF Bargaining
<1>4. d.to \in Places /\ (d.to \in Bags /\ i \in Bags => Clear(w, d.to, i))
  BY DEF FirstGiving, Giving, MayTransfer, Spot
<1>5. j # NoItem /\ j # Nowhere
  BY <1>3 DEF Items
<1>6. d.to # j /\ (d.to \in Bags => ~Holds(w, j, d.to))
  BY <1>5 DEF FirstGiving, Giving, WithinItem
<1>7. ~Holds(u, j, i)
  <2>1. CASE u.parent[i] \notin Bags
    <3>1. \A b : Holds(u, b, i) => b = u.parent[i]
      BY <1>2, <1>3, <2>1, OutermostFacts
    <3> QED BY <1>2, <1>5, <1>6, <3>1
  <2>2. CASE u.parent[i] \in Bags
    <3> DEFINE to == d.to
    <3>1. to \in Bags /\ u.parent[i] = to
      BY <1>2, <2>2 DEF Items
    <3>2. Around(u, to) = Around(w, to)
      <4>1. /\ to \in Places /\ (to \in Bags /\ i \in Bags => Clear(w, to, i))
            /\ \A x \in Bags : x # i => u.parent[x] = w.parent[x]
        BY <1>2, <1>4 DEF MovesOnly, Items
      <4> HIDE DEF to
      <4> QED BY <1>2, <1>3, <3>1, <4>1, HolderKept
    <3>3. j \in Bags => ~Holds(u, j, to)
      BY <1>6, <3>1, <3>2 DEF Around
    <3>4. j \notin Bags => ~Holds(u, j, to)
      <4> SUFFICES ASSUME j \notin Bags  PROVE ~Holds(u, j, to)
        OBVIOUS
      <4>1. j \notin Places
        BY <1>3 DEF Places, Items
      <4>2. to \in Items
        BY <3>1 DEF Items
      <4> HIDE DEF to
      <4>3. Holds(u, j, to) => j \in Places \cup {Nowhere}
        BY <1>2, <4>2, HolderPlace
      <4> QED BY <1>5, <4>1, <4>3
    <3>5. j # to
      BY <1>6
    <3> HIDE DEF to
    <3>6. Holds(u, j, i) <=> j = to \/ Holds(u, j, to)
      BY <1>2, <1>3, <3>1, InnerFacts
    <3> QED BY <3>3, <3>4, <3>5, <3>6
  <2> QED BY <2>1, <2>2
<1>8. SameInside(w, u, j)
  BY <1>2, <1>3, <1>7, InsideKept
<1>9. u.parent[j] = w.parent[j]
  BY <1>2, <1>3 DEF MovesOnly
<1> QED BY <1>7, <1>8, <1>9

(* What happens to the stacks at and in j: at most j itself grows, if it is   *)
(* a stack that i joins.                                                    *)
LEMMA FirstCounts ==
  ASSUME NEW w, NEW p, NEW q, NEW i, NEW j, Bargaining(w, p, q, i, j),
         NEW u, NEW d, NEW m, FirstGiving(w, u, q, i, j, d, m)
  PROVE  /\ j \notin Stacks => SameOffer(w, u, j)
         /\ j \in Stacks => /\ w.count[j] \in Nat \ {0} /\ u.count[j] >= w.count[j]
                            /\ u.count[j] <= w.count[j] + (IF i \in Stacks THEN w.count[i] ELSE 0)
<1> USE WorldAssumption
<1>1. FirstPlaces(w, u, i, j, d, m)
  BY FirstSettles
<1>2. /\ Placed(w) /\ Laid(w) /\ ParentTypes(w) /\ NoKnot(w)
      /\ Transferred(w, u, d, i, m) /\ Whole(w, i, m) /\ Arriving(w, i, m) = i
  BY <1>1 DEF FirstPlaces, Placed
<1>3. i \in Items /\ j \in Items /\ i # j /\ ~Holds(w, i, j) /\ ~Holds(w, j, i)
  BY DEF Bargaining
<1>4. SameInside(w, u, j)
  BY FirstInside
<1>5. /\ MayTransfer(w, d, i, m) /\ ~WithinItem(w, d.to, j)
      /\ d.item # NoItem => w.parent[d.item] = d.to
  BY DEF FirstGiving, Giving, MayTransfer, Spot
<1>6. /\ m \in Nat /\ (i \in Stacks => m = w.count[i])
      /\ Joining(w, d, i, m) \in Nat /\ Joining(w, d, i, m) <= m
      /\ ~SameType(i, d.item) => Joining(w, d, i, m) = 0
  BY <1>2, <1>3, <1>5, JoiningFacts DEF Whole
<1>7. \A x \in Stacks : x # i =>
        u.count[x] = IF x = d.item /\ SameType(i, d.item)
                     THEN w.count[x] + Joining(w, d, i, m) ELSE w.count[x]
  BY <1>2 DEF Transferred
<1>8. w.count \in [Stacks -> 0..StackMax] /\ StackMax \in Nat
  BY <1>2 DEF Laid, PlaceTypes
<1>9. ASSUME j \in Stacks
      PROVE  /\ w.count[j] \in Nat \ {0} /\ u.count[j] >= w.count[j]
             /\ u.count[j] <= w.count[j] + (IF i \in Stacks THEN w.count[i] ELSE 0)
  <2>1. w.parent[j] # Nowhere
    <3>1. CASE w.parent[j] = Nowhere
      <4>1. Root(w, j) = Nowhere
        BY <1>2, <1>3, <3>1, OutermostFacts DEF Items
      <4> QED BY <4>1 DEF Bargaining, Near
    <3> QED BY <3>1
  <2>2. w.count[j] \in Nat \ {0}
    BY <1>2, <1>3, <1>8, <1>9, <2>1 DEF Placed, Exists
  <2>3. SameType(i, d.item) => i \in Stacks
    BY DEF SameType
  <2> QED BY <1>3, <1>6, <1>7, <1>9, <2>2, <2>3
<1>10. ASSUME j \notin Stacks  PROVE SameOffer(w, u, j)
  <2> SUFFICES ASSUME NEW x \in Stacks, Holds(w, j, x)  PROVE u.count[x] = w.count[x]
    BY <1>4, <1>10 DEF SameOffer
  <2>1. x # i
    BY <1>3
  <2>2. x # d.item
    <3> SUFFICES ASSUME x = d.item  PROVE FALSE
      OBVIOUS
    <3>1. x \in Items /\ x # NoItem /\ w.parent[x] = d.to
      BY <1>5 DEF Items
    <3>2. d.to # j /\ (d.to \in Bags => ~Holds(w, j, d.to))
      BY <1>3, <1>5 DEF WithinItem, Items
    <3>3. CASE d.to \in Bags
      <4> DEFINE to == d.to
      <4>1. to \in Bags /\ to = w.parent[x] /\ to # j /\ ~Holds(w, j, to)
        BY <3>1, <3>2, <3>3
      <4> HIDE DEF to
      <4> QED BY <1>2, <3>1, <4>1, InnerFacts
    <3>4. CASE d.to \notin Bags
      <4>1. \A b : Holds(w, b, x) => b = w.parent[x]
        BY <1>2, <3>1, <3>4, OutermostFacts
      <4> QED BY <3>1, <3>2, <4>1
    <3> QED BY <3>3, <3>4
  <2> QED BY <1>7, <2>1, <2>2
<1> QED BY <1>9, <1>10

(* The containers that p has then, he had before, and not in i.              *)
LEMMA FirstBags ==
  ASSUME NEW w, NEW p, NEW q, NEW i, NEW j, Bargaining(w, p, q, i, j),
         NEW u, NEW d, NEW m, FirstGiving(w, u, q, i, j, d, m),
         NEW b \in Bags, Root(u, b) = p
  PROVE  b # i /\ ~Holds(w, i, b) /\ Root(w, b) = p
<1> USE WorldAssumption
<1>1. FirstPlaces(w, u, i, j, d, m)
  BY FirstSettles
<1>2. /\ Placed(w) /\ Placed(u) /\ ParentTypes(w) /\ ParentTypes(u) /\ NoKnot(w) /\ NoKnot(u)
      /\ MovesOnly(w, u, i) /\ Transferred(w, u, d, i, m)
  BY <1>1 DEF FirstPlaces
<1>3. i \in Items /\ b \in Items /\ p # q
  BY DEF Bargaining, Items
<1>4. MayTransfer(w, d, i, m) /\ Seat(w, d.to) = q
  BY DEF FirstGiving, Giving
<1>5. b # i /\ ~Holds(w, i, b)
  <2>1. CASE i \in Bags
    <3>1. i \in Items \ Stacks
      BY <1>3, <2>1
    <3>2. Root(u, i) = q
      <4>1. Went(w, u, d, i)
        BY <1>2, <1>4, <3>1, MovedOnly
      <4> QED BY <1>4, <4>1 DEF Went
    <3>3. b # i
      BY <1>3, <3>2
    <3>4. ASSUME Holds(w, i, b)  PROVE FALSE
      <4>1. ~Holds(w, i, i)
        BY <1>2, <2>1, HoldsFacts
      <4>2. Holds(u, i, b)
        BY <1>2, <1>3, <3>3, <3>4, <4>1, HoldsKept
      <4>3. Root(u, b) = Root(u, i)
        BY <1>2, <2>1, <1>3, <4>2, HoldsFacts
      <4> QED BY <1>3, <3>2, <4>3
    <3> QED BY <3>3, <3>4
  <2>2. CASE i \notin Bags
    <3>1. i \notin Places \cup {Nowhere}
      BY <1>3, <2>2 DEF Places, Items
    <3>2. Holds(w, i, b) => i \in Places \cup {Nowhere}
      BY <1>2, <1>3, HolderPlace
    <3> QED BY <2>2, <3>1, <3>2
  <2> QED BY <2>1, <2>2
<1>6. Root(u, b) = Root(w, b)
  BY <1>2, <1>3, <1>5, AboveKept
<1> QED BY <1>5, <1>6

(* They are not fuller than they may be.                                    *)
LEMMA FirstOverfull ==
  ASSUME NEW w, NEW p, NEW q, NEW i, NEW j, Bargaining(w, p, q, i, j), ~Overfull(w, p),
         NEW u, NEW d, NEW m, FirstGiving(w, u, q, i, j, d, m)
  PROVE  ~Overfull(u, p)
<1> SUFFICES ASSUME NEW b \in Bags, Root(u, b) = p, Len(u.list[b]) > Room  PROVE FALSE
  BY DEF Overfull
<1>1. FirstPlaces(w, u, i, j, d, m)
  BY FirstSettles
<1>2. Root(w, b) = p
  BY FirstBags
<1>3. Len(w.list[b]) <= Room /\ Room \in Nat /\ Len(w.list[b]) \in Nat /\ Len(u.list[b]) \in Nat
  <2>1. Laid(w) /\ Laid(u)
    BY <1>1 DEF FirstPlaces, Placed
  <2>2. Len(w.list[b]) \in Nat /\ Len(u.list[b]) \in Nat
    BY <2>1, ListLength
  <2>3. ~(Len(w.list[b]) > Room)
    BY <1>2 DEF Overfull
  <2> QED BY <2>2, <2>3, WorldAssumption
<1>4. NotFuller(w, u, b)
  <2>1. Placed(w) /\ i \in Items /\ MayTransfer(w, d, i, m) /\ u = Transfer(w, w.parent[i], d, i, m)
    BY <1>1 DEF FirstPlaces, FirstGiving, Giving, Bargaining
  <2> QED BY <2>1, TransferLists
<1> QED BY <1>3, <1>4 DEF NotFuller

(* j may be given back then, all that the offer was.                        *)
LEMMA SecondMay ==
  ASSUME NEW w, NEW p, NEW q, NEW i, NEW j, Bargaining(w, p, q, i, j), SplitsPossible(w, i, j),
         NEW u, NEW d, NEW m, FirstGiving(w, u, q, i, j, d, m), NEW n, n = ItemCount(w, j)
  PROVE  /\ Weighed(u) /\ u.parent[j] = w.parent[j] /\ u.parent[j] # Nowhere
         /\ MaySplit(u, j, n) /\ n \in 1..ItemCount(u, j)
<1> USE WorldAssumption
<1>1. /\ Placed(w) /\ Placed(u) /\ ParentTypes(w) /\ ParentTypes(u)
      /\ Transferred(w, u, d, i, m) /\ Whole(w, i, m)
  BY FirstSettles DEF FirstPlaces
<1>2. MayTransfer(w, d, i, m) /\ u = Transfer(w, w.parent[i], d, i, m)
  BY DEF FirstGiving, Giving
<1>3. i \in Items /\ j \in Items /\ i # j /\ Weighed(w)
  BY DEF Bargaining
<1>4. Weighed(u)
  BY <1>2, <1>3, TransferLoads
<1>5. MaySplit(u, j, n)
  <2>1. i \in Stacks => m = w.count[i]
    BY <1>1 DEF Whole
  <2> QED BY <1>1, <1>2, <1>3, <2>1, SecondSplits
<1>6. u.parent[j] = w.parent[j]
  BY FirstInside
<1>7. u.parent[j] # Nowhere
  <2>1. CASE w.parent[j] = Nowhere
    <3>1. Root(w, j) = Nowhere
      BY <1>1, <1>3, <2>1, OutermostFacts DEF Items
    <3> QED BY <3>1 DEF Bargaining, Near
  <2> QED BY <1>6, <2>1
<1>8. n \in 1..ItemCount(u, j)
  <2>1. CASE j \in Stacks
    <3>1. w.count[j] \in Nat \ {0} /\ u.count[j] >= w.count[j]
      BY <2>1, FirstCounts
    <3>2. u.count[j] \in Int
      BY <1>1, <2>1 DEF Placed, Laid, PlaceTypes
    <3> QED BY <2>1, <3>1, <3>2 DEF ItemCount
  <2>2. CASE j \notin Stacks
    BY <2>2 DEF ItemCount
  <2> QED BY <2>1, <2>2
<1> QED BY <1>4, <1>5, <1>6, <1>7, <1>8

(* p carries no more than he did, and less by i if he had that.             *)
LEMMA FirstCarried ==
  ASSUME NEW w, NEW p, NEW q, NEW i, NEW j, Bargaining(w, p, q, i, j),
         NEW u, NEW d, NEW m, FirstGiving(w, u, q, i, j, d, m)
  PROVE  /\ w.carried[p] \in Int /\ u.carried[p] \in Int /\ u.carried[p] <= w.carried[p]
         /\ i \in Stacks /\ Root(w, i) = p => u.carried[p] = w.carried[p] - w.count[i]
<1> USE WorldAssumption
<1> DEFINE c == w.parent[i]
           x == Moving(w, i, m)
           to == d.to
<1>1. /\ Placed(w) /\ Placed(u) /\ ParentTypes(w) /\ NoKnot(w) /\ Whole(w, i, m)
  BY FirstSettles DEF FirstPlaces
<1>2. MayTransfer(w, d, i, m) /\ u = Transfer(w, c, d, i, m) /\ Seat(w, to) = q
  BY DEF FirstGiving, Giving
<1>3. i \in Items /\ Weighed(w) /\ p \in Players /\ p # q
  BY DEF Bargaining
<1>4. Weighed(u) /\ Hauled(w, u, c, to, x)
  BY <1>2, <1>3, TransferLoads
<1>5. x \in Nat
  <2>1. CASE i \in Stacks
    <3>1. m \in Nat
      BY <1>1, <1>2, <1>3, JoiningFacts DEF Placed
    <3> QED BY <2>1, <3>1 DEF Moving
  <2>2. CASE i \notin Stacks
    BY <1>3, <2>2, WeightNatural DEF Moving
  <2> QED BY <2>1, <2>2
<1>6. i \in Stacks => x = w.count[i]
  BY <1>1 DEF Whole, Moving
<1>7. Holder(w, to) # p
  <2>1. NoPlayer # p /\ (to \in Players => to \notin Bags)
    BY <1>3 DEF Items
  <2> HIDE DEF to
  <2> QED BY <1>2, <1>3, <2>1 DEF Holder, Seat
<1>8. Root(w, i) = p => Holder(w, c) = p
  BY <1>1, <1>3, RootHolder
<1>9. /\ w.carried[p] = Load(w, p) /\ u.carried[p] = Load(u, p)
      /\ w.carried[p] \in Int
  BY <1>3, <1>4 DEF Weighed, Carrying, WeightTypes
<1> HIDE DEF x, c, to
<1>10. Load(u, p) = (Load(w, p) - Share(w, p, c, x)) + Share(w, p, to, x)
  BY <1>3, <1>4 DEF Hauled
<1>11. Share(w, p, to, x) = 0
  BY <1>7 DEF Share
<1>12. Share(w, p, c, x) = IF p = Holder(w, c) THEN x ELSE 0
  BY DEF Share
<1>13. u.carried[p] = w.carried[p] - (IF p = Holder(w, c) THEN x ELSE 0)
  BY <1>5, <1>9, <1>10, <1>11, <1>12
<1>14. /\ u.carried[p] \in Int /\ u.carried[p] <= w.carried[p]
       /\ p = Holder(w, c) => u.carried[p] = w.carried[p] - x
  BY <1>5, <1>9, <1>13
<1> QED BY <1>6, <1>8, <1>9, <1>14

(* j weighs what it did, unless it is a stack.                              *)
LEMMA FirstWeight ==
  ASSUME NEW w, NEW p, NEW q, NEW i, NEW j, Bargaining(w, p, q, i, j), j \notin Stacks,
         NEW u, NEW d, NEW m, FirstGiving(w, u, q, i, j, d, m)
  PROVE  Weight(u, j) = Weight(w, j)
<1> USE WorldAssumption
<1> DEFINE c == w.parent[i]
           to == d.to
<1>1. j \notin Bags => Weight(u, j) = Weight(w, j)
  BY DEF Weight
<1> SUFFICES ASSUME j \in Bags  PROVE u.weight[j] = w.weight[j]
  BY <1>1 DEF Weight
<1>2. /\ ParentTypes(w) /\ NoKnot(w)
  BY FirstSettles DEF FirstPlaces
<1>3. /\ MayTransfer(w, d, i, m) /\ u = Transfer(w, c, d, i, m)
      /\ ~WithinItem(w, to, j)
  BY DEF FirstGiving, Giving
<1>4. i \in Items /\ Weighed(w) /\ ~Holds(w, j, i)
  BY DEF Bargaining
<1>5. WeightsElsewhere(w, u, c, to)
  BY <1>3, <1>4, TransferElsewhere
<1>6. j # NoItem
  BY DEF Items
<1>7. Far(w, to, j)
  BY <1>3, <1>6 DEF Far, WithinItem, Around
<1>8. Far(w, c, j)
  <2>1. CASE c \in Bags
    <3> HIDE DEF c
    <3>1. c = w.parent[i]
      BY DEF c
    <3>2. \A b : Holds(w, b, i) <=> b = c \/ Holds(w, b, c)
      BY <1>2, <1>4, <2>1, <3>1, InnerFacts
    <3> QED BY <1>4, <3>2 DEF Far, Around
  <2>2. CASE c \notin Bags
    BY <2>2 DEF Far
  <2> QED BY <2>1, <2>2
<1> HIDE DEF c, to
<1> QED BY <1>5, <1>7, <1>8 DEF WeightsElsewhere

(* So p, who could carry j before, can now, unless it has become too heavy.  *)
LEMMA FirstCapacity ==
  ASSUME NEW w, NEW p, NEW q, NEW i, NEW j, Bargaining(w, p, q, i, j),
         HasCapacity(w, p, j, ItemCount(w, j)), ~Outgrown(w, p, i, j),
         NEW u, NEW d, NEW m, FirstGiving(w, u, q, i, j, d, m)
  PROVE  HasCapacity(u, p, j, ItemCount(u, j))
<1> USE WorldAssumption
<1> DEFINE a == w.carried[p]
           b == u.carried[p]
<1>1. /\ a \in Int /\ b \in Int /\ b <= a
      /\ i \in Stacks /\ Root(w, i) = p => b = a - w.count[i]
  BY FirstCarried
<1>2. /\ w.count \in [Stacks -> 0..StackMax] /\ u.count \in [Stacks -> 0..StackMax]
      /\ StackMax \in Nat /\ Capacity \in Nat /\ WeightTypes(w) /\ j \in Items
  BY FirstSettles DEF FirstPlaces, Placed, Laid, PlaceTypes, Bargaining, Weighed
<1>3. Root(w, j) # p
  BY DEF Bargaining, Near
<1>4. a + (IF j \in Stacks THEN w.count[j] ELSE Weight(w, j)) <= Capacity
  BY <1>3 DEF HasCapacity, ItemCount
<1>5. b + (IF j \in Stacks THEN u.count[j] ELSE Weight(u, j)) <= Capacity
  <2>1. CASE j \notin Stacks
    <3>1. Weight(u, j) = Weight(w, j)
      BY <2>1, FirstWeight
    <3>2. Weight(w, j) \in Int
      BY <1>2, LoadFacts
    <3> DEFINE y == Weight(w, j)
    <3>3. y \in Int /\ a + y <= Capacity /\ Weight(u, j) = y
      BY <1>4, <2>1, <3>1, <3>2
    <3> HIDE DEF y, a, b
    <3> QED BY <1>1, <1>2, <2>1, <3>3
  <2>2. CASE j \in Stacks
    <3> DEFINE ci == w.count[i]
               cj == w.count[j]
               k == u.count[j]
    <3>1. /\ k <= cj + (IF i \in Stacks THEN ci ELSE 0)
          /\ k \in Nat /\ cj \in Nat /\ (i \in Stacks => ci \in Nat) /\ a + cj <= Capacity
      BY <1>2, <1>4, <2>2, FirstCounts
    <3>2. i \in Stacks => Root(w, i) = p \/ ~(a + ci + cj > Capacity)
      BY <2>2 DEF Outgrown
    <3> HIDE DEF a, b, cj, k
    <3>3. b + k <= Capacity
      <4>1. CASE i \notin Stacks
        BY <1>1, <1>2, <3>1, <4>1
      <4>2. CASE i \in Stacks /\ Root(w, i) = p
        BY <1>1, <1>2, <3>1, <4>2
      <4>3. CASE i \in Stacks /\ ~(a + ci + cj > Capacity)
        <5> HIDE DEF ci
        <5> QED BY <1>1, <1>2, <3>1, <4>3
      <4> QED BY <3>2, <4>1, <4>2, <4>3
    <3> QED BY <2>2, <3>3 DEF k
  <2> QED BY <2>1, <2>2
<1> QED BY <1>5 DEF HasCapacity, ItemCount

(* A slot of his that takes j is free, if it was or had i in it.            *)
LEMMA FirstSlot ==
  ASSUME NEW w, NEW p, NEW q, NEW i, NEW j, Bargaining(w, p, q, i, j),
         NEW u, NEW d, NEW m, FirstGiving(w, u, q, i, j, d, m),
         HasCapacity(u, p, j, ItemCount(u, j)),
         NEW s \in Slots, s \in Fits[j], w.slot[p][s] \in {NoItem, i}
  PROVE  FreeSlot(u, p, j, s)
<1> USE WorldAssumption
<1>1. /\ Placed(w) /\ Placed(u) /\ u.parent[i] \in {d.to, Nowhere}
  BY FirstSettles DEF FirstPlaces
<1>2. /\ MayTransfer(w, d, i, m) /\ u = Transfer(w, w.parent[i], d, i, m) /\ Seat(w, d.to) = q
  BY DEF FirstGiving, Giving
<1>3. i \in Items /\ Weighed(w) /\ p \in Players /\ p # q
  BY DEF Bargaining
<1>4. SlotsEmptied(w, u, d.to)
  BY <1>2, <1>3, TransferElsewhere
<1>5. d.to # p
  BY <1>2, <1>3 DEF Seat, Items
<1>6. u.slot[p][s] \in {w.slot[p][s], NoItem}
  BY <1>3, <1>4, <1>5 DEF SlotsEmptied
<1>7. u.slot[p][s] # i
  <2>1. u.slot[p][s] # NoItem => u.parent[u.slot[p][s]] = p
    BY <1>1, <1>3 DEF Placed, Laid, SlotsFit
  <2> QED BY <1>1, <1>3, <1>5, <2>1
<1>8. u.slot[p][s] = NoItem
  BY <1>6, <1>7
<1> QED BY <1>8 DEF FreeSlot, PlayerQueryAdd

(* A container of his that had room apart from i has room for j now, and is   *)
(* found.                                                                   *)
LEMMA FirstBag ==
  ASSUME NEW w, NEW p, NEW q, NEW i, NEW j, Bargaining(w, p, q, i, j),
         NEW u, NEW d, NEW m, FirstGiving(w, u, q, i, j, d, m),
         HasCapacity(u, p, j, ItemCount(u, j)),
         NEW b \in Bags, Root(w, b) = p, b # i, ~Holds(w, i, b),
         Cardinality(ToSet(w.list[b]) \ {i}) < Room, NEW keep \in {i, NoItem}
  PROVE  Suits(u, p, j, b) /\ Among(b, SearchOrder(u, p, j, keep, {}))
<1> USE WorldAssumption
<1>1. /\ Placed(w) /\ Placed(u) /\ Laid(w) /\ Laid(u) /\ u.parent[i] \in {d.to, Nowhere}
      /\ ParentTypes(w) /\ ParentTypes(u) /\ NoKnot(w) /\ NoKnot(u) /\ MovesOnly(w, u, i)
  BY FirstSettles DEF FirstPlaces, Placed
<1>2. Seat(w, d.to) = q
  BY DEF FirstGiving, Giving
<1>3. /\ i \in Items /\ j \in Items /\ p \in Players /\ p # q /\ b \in Items
      /\ Root(w, j) \in Tiles \cup {q}
  BY DEF Bargaining, Items, Near
<1>4. Root(u, b) = p /\ ~Holds(u, i, b)
  BY <1>1, <1>3, AboveKept
<1>5. Len(u.list[b]) < Room
  <2>1. Inside(u, b) \subseteq Inside(w, b) \ {i}
    <3>1. b # d.to /\ b # Nowhere
      BY <1>2, <1>3 DEF Seat
    <3>2. \A x \in Items : x # i => u.parent[x] = w.parent[x]
      BY <1>1 DEF MovesOnly
    <3> QED BY <1>1, <3>1, <3>2 DEF Inside
  <2>2. Inside(w, b) = ToSet(w.list[b])
    <3>1. b \notin Players
      BY <1>3
    <3>2. Contents(w, b) = Inside(w, b)
      BY <1>1, ContentsInside DEF Places
    <3> QED BY <3>1, <3>2 DEF Contents
  <2>3. IsFiniteSet(Inside(w, b))
    BY <1>1, ListLength
  <2>4. IsFiniteSet(Inside(w, b) \ {i})
    BY <2>3, FS_Subset
  <2>5. /\ Cardinality(Inside(u, b)) <= Cardinality(Inside(w, b) \ {i})
        /\ Cardinality(Inside(w, b) \ {i}) \in Nat /\ Cardinality(Inside(u, b)) \in Nat
    <3>1. IsFiniteSet(Inside(u, b))
      BY <2>1, <2>4, FS_Subset
    <3> QED BY <2>1, <2>4, <3>1, FS_Subset, FS_CardinalityType
  <2>6. Len(u.list[b]) = Cardinality(Inside(u, b))
    BY <1>1, ListLength
  <2> QED BY <2>2, <2>5, <2>6
<1>6. j # b /\ ~Holds(u, j, b)
  <2>1. Root(w, j) # p
    BY <1>3
  <2>2. Root(u, j) = Root(w, j)
    BY FirstInside DEF SameInside
  <2>3. CASE j \in Bags
    <3>1. Holds(u, j, b) => Root(u, b) = Root(u, j)
      BY <1>1, <1>3, <2>3, HoldsFacts
    <3> QED BY <1>4, <2>1, <2>2, <3>1
  <2>4. CASE j \notin Bags
    <3>1. j \notin Places \cup {Nowhere}
      BY <1>3, <2>4 DEF Places, Items
    <3>2. Holds(u, j, b) => j \in Places \cup {Nowhere}
      BY <1>1, <1>3, HolderPlace
    <3> QED BY <2>4, <3>1, <3>2
  <2> QED BY <2>3, <2>4
<1>7. Suits(u, p, j, b)
  <2>1. Holder(u, b) = p
    BY <1>3, <1>4 DEF Holder
  <2>2. 0 # Wherever
    BY DEF Wherever
  <2>3. BagTakes(u, b, 0, j, ItemCount(u, j))
    BY <1>6, <2>1, <2>2 DEF BagTakes
  <2> QED BY <1>4, <1>5, <2>3 DEF Suits
<1>8. Among(b, SearchOrder(u, p, j, keep, {}))
  <2>1. NoItem \notin Bags /\ b # NoItem
    BY DEF Items
  <2>2. b \notin {j, keep} /\ \A x \in {j, keep} \cap Bags : ~Holds(u, x, b)
    BY <1>4, <1>6, <2>1
  <2> QED BY <1>1, <1>3, <1>4, <2>2, SearchComplete
<1> QED BY <1>7, <1>8

(* So p has a place for j after he gave i, if he had one of his own before.  *)
LEMMA FirstPlaceKept ==
  ASSUME NEW w, NEW p, NEW q, NEW i, NEW j, Bargaining(w, p, q, i, j),
         TradeFields \subseteq DOMAIN w, w.tradeItem[p] = i,
         HasCapacity(w, p, j, ItemCount(w, j)),
         HasOwnPlace(w, p, i, j), ~Outgrown(w, p, i, j),
         NEW u, NEW d, NEW m, FirstGiving(w, u, q, i, j, d, m)
  PROVE  ~NoPlace(u, p, j, u.tradeItem[p])
<1>1. HasCapacity(u, p, j, ItemCount(u, j))
  BY FirstCapacity
<1>2. u.tradeItem[p] \in {i, NoItem}
  <2> DEFINE g == w.tradeItem
  <2>1. OffersFrom(w, g) /\ g[p] = i
    BY DEF OffersFrom
  <2>2. u = Transfer(w, w.parent[i], d, i, m) /\ p \in Players
    BY DEF FirstGiving, Giving, Bargaining
  <2> HIDE DEF g
  <2>3. OffersFrom(u, g)
    BY <2>1, <2>2, TransferOfferings
  <2> QED BY <2>1, <2>2, <2>3 DEF OffersFrom
<1>3. CASE \E s \in Slots : s \in Fits[j] /\ w.slot[p][s] \in {NoItem, i}
  <2>1. PICK s \in Slots : s \in Fits[j] /\ w.slot[p][s] \in {NoItem, i}
    BY <1>3
  <2>2. FreeSlot(u, p, j, s)
    BY <1>1, <2>1, FirstSlot
  <2> QED BY <2>2 DEF NoPlace
<1>4. CASE \E b \in Bags : /\ Root(w, b) = p /\ b # i /\ ~Holds(w, i, b)
                           /\ Cardinality(ToSet(w.list[b]) \ {i}) < Room
  <2>1. PICK b \in Bags : /\ Root(w, b) = p /\ b # i /\ ~Holds(w, i, b)
                          /\ Cardinality(ToSet(w.list[b]) \ {i}) < Room
    BY <1>4
  <2>2. Suits(u, p, j, b) /\ Among(b, SearchOrder(u, p, j, u.tradeItem[p], {}))
    BY <1>1, <1>2, <2>1, FirstBag
  <2> QED BY <2>2 DEF NoPlace
<1> QED BY <1>3, <1>4 DEF HasOwnPlace
-----------------------------------------------------------------------------
(* What gifts do to what players carry.                                     *)

(* At a stack there are just its pieces.                                    *)
LEMMA StackCoins ==
  ASSUME NEW w, Laid(w), NEW i \in Stacks
  PROVE  Coins(w, i) = w.count[i]
<1> USE WorldAssumption
<1>1. PlaceTypes(w) /\ ParentTypes(w) /\ w.count \in [Stacks -> 0..StackMax] /\ StackMax \in Nat
  BY DEF Laid, PlaceTypes
<1>2. IsFiniteSet(Stacks)
  BY FS_Subset DEF Items
<1>3. \A x \in Stacks : w.count[x] \in Int
  BY <1>1
<1>4. \A x \in Stacks : ~Holds(w, i, x)
  <2> SUFFICES ASSUME NEW x \in Stacks  PROVE ~Holds(w, i, x)
    OBVIOUS
  <2>1. x \in Items /\ i \notin Places \cup {Nowhere}
    BY DEF Items, Places
  <2>2. Holds(w, i, x) => i \in Places \cup {Nowhere}
    BY <1>1, <2>1, HolderPlace
  <2> QED BY <2>1, <2>2
<1> DEFINE S == {i}
           f == w.count
           g == Inner(w, i)
<1>5. \A x \in Stacks : g[x] = IF x \in S THEN f[x] ELSE 0
  BY <1>4 DEF Inner
<1>6. /\ IsFiniteSet(S) /\ S \in SUBSET Stacks /\ \A x \in Stacks : f[x] \in Int
      /\ S \ {i} = {} /\ IsFiniteSet({}) /\ i \in S
  BY <1>3, FS_Singleton, FS_EmptySet
<1>7. Coins(w, i) = Total(g, Stacks)
  BY <1>1, PurseSum
<1>8. f[i] = w.count[i] /\ f[i] \in Int
  BY <1>3
<1> HIDE DEF S, f, g
<1>9. SumOver(f, S) = Total(g, Stacks)
  BY <1>2, <1>5, <1>6, MaskedSum
<1>10. SumOver(f, S) = Total(f, S)
  BY <1>6, FunctionSum DEF SumOver
<1>11. Total(f, S) = f[i] + Total(f, S \ {i})
  BY <1>6, TotalFacts
<1>12. Total(f, {}) = 0
  BY <1>6, TotalFacts
<1>13. Total(f, S) = f[i]
  <2>1. Total(f, S \ {i}) = 0
    BY <1>6, <1>12
  <2> QED BY <1>8, <1>11, <2>1
<1> QED BY <1>7, <1>8, <1>9, <1>10, <1>13

(* The pieces that go with n of i.                                          *)
Going(w, i, n) == IF i \in Stacks THEN n ELSE Coins(w, i)

(* Who gets them carries them, and nobody else does any more.               *)
LEMMA GiftCarried ==
  ASSUME NEW w, Placed(w), NEW i \in Items, NEW v, NEW p, NEW n, NEW guard, NEW d, NEW m,
         Giving(w, v, p, i, n, guard, d, m), NEW r \in Players, NEW x, x = Going(w, i, n)
  PROVE  Carries(v, r) = (Carries(w, r) - Given(Root(w, i) = r, x)) + Given(p = r, x)
<1>1. MayTransfer(w, d, i, m) /\ v = Transfer(w, w.parent[i], d, i, m) /\ Seat(w, d.to) = p
      /\ (i \in Stacks => m = n)
  BY DEF Giving
<1>2. Placed(v) /\ Transferred(w, v, d, i, m)
  BY <1>1, TransferFacts
<1>3. CASE i \in Stacks
  <2>1. x = m
    BY <1>1, <1>3 DEF Going
  <2>2. Carries(v, r) = (Carries(w, r) - Given(Root(w, i) = r, m)) + Given(Seat(w, d.to) = r, m)
    BY <1>1, <1>2, <1>3, StackCarried
  <2> QED BY <1>1, <2>1, <2>2
<1>4. CASE i \notin Stacks
  <2>1. x = Coins(w, i)
    BY <1>4 DEF Going
  <2>2. i \in Items \ Stacks
    BY <1>4
  <2>3. Carries(v, r) = (Carries(w, r) - Given(Root(w, i) = r, Coins(w, i)))
                           + Given(Seat(w, d.to) = r, Coins(w, i))
    BY <1>1, <1>2, <2>2, ItemCarried
  <2> QED BY <1>1, <2>1, <2>3
<1> QED BY <1>3, <1>4

(* It is with who got it, unless it is a stack.  What was not in it is where *)
(* it was.                                                                  *)
LEMMA GiftRoots ==
  ASSUME NEW w, Placed(w), NEW i \in Items, NEW v, NEW p, NEW n, NEW guard, NEW d, NEW m,
         Giving(w, v, p, i, n, guard, d, m)
  PROVE  /\ i \notin Stacks => Root(v, i) = p
         /\ \A y \in Items \ Stacks : y # i /\ ~Holds(w, i, y) => Root(v, y) = Root(w, y)
<1> USE WorldAssumption
<1>1. MayTransfer(w, d, i, m) /\ v = Transfer(w, w.parent[i], d, i, m) /\ Seat(w, d.to) = p
  BY DEF Giving
<1>2. Placed(v) /\ Transferred(w, v, d, i, m)
  BY <1>1, TransferFacts
<1>3. ParentTypes(w) /\ ParentTypes(v) /\ NoKnot(w) /\ NoKnot(v)
  BY <1>2 DEF Placed, Laid, PlaceTypes
<1>4. CASE i \notin Stacks
  <2>1. i \in Items \ Stacks
    BY <1>4
  <2>2. Went(w, v, d, i)
    BY <1>1, <1>2, <2>1, MovedOnly
  <2>3. Root(v, i) = p /\ MovesOnly(w, v, i)
    BY <1>1, <2>2 DEF Went
  <2>4. ASSUME NEW y \in Items \ Stacks, y # i, ~Holds(w, i, y)
        PROVE  Root(v, y) = Root(w, y)
    BY <2>3, <2>4, AboveKept
  <2> QED BY <2>3, <2>4
<1>5. CASE i \in Stacks
  <2>1. \A y \in Items \ Stacks : v.parent[y] = w.parent[y]
    <3>1. Arrives(w, d, i, m) => Arriving(w, i, m) \in Stacks
      <4> DEFINE o == Arriving(w, i, m)
      <4>1. /\ Whole(w, i, m) => o = i
            /\ ~Whole(w, i, m) /\ Arrives(w, d, i, m) =>
                 o \in Stacks /\ w.count[o] = 0 /\ w.parent[o] = Nowhere /\ o # i
        <5> HIDE DEF o
        <5>1. o = Arriving(w, i, m)
          BY DEF o
        <5> QED BY <1>1, <5>1, ArrivingFacts
      <4> QED BY <1>5, <4>1
    <3> QED BY <1>2, <1>5, <3>1 DEF Transferred
  <2>2. \A b \in Bags : v.parent[b] = w.parent[b]
    BY <2>1 DEF Items
  <2>3. ASSUME NEW y \in Items \ Stacks  PROVE Root(v, y) = Root(w, y)
    <3> DEFINE c == w.parent[y]
    <3>1. Seat(v, c) = Seat(w, c)
      <4> HIDE DEF c
      <4> QED BY <1>3, <2>2, SeatsStay
    <3>2. Seat(w, c) = Root(w, y)
      BY <1>3, SeatFacts
    <3>3. c = v.parent[y]
      BY <2>1
    <3> HIDE DEF c
    <3>4. Seat(v, c) = Root(v, y)
      BY <1>3, <3>3, SeatFacts
    <3> QED BY <3>1, <3>2, <3>4
  <2> QED BY <1>5, <2>3
<1> QED BY <1>4, <1>5

(* What SwapIsWhole says of an exchange.                                    *)
Swapped(w, v, p, q, i, j, got) ==
  /\ i \notin Stacks => Root(v, i) = q
  /\ j \notin Stacks => Root(v, j) = IF got THEN p ELSE Root(w, j)
  /\ Carries(v, q) = Carries(w, q) + Coins(w, i)
       - IF got /\ Root(w, j) = q THEN Coins(w, j) ELSE 0
  /\ Carries(v, p) = Carries(w, p) + (IF got THEN Coins(w, j) ELSE 0)
       - IF Root(w, i) = p THEN Coins(w, i) ELSE 0

(* The pieces at and in j are those that were offered.                      *)
LEMMA FirstGoing ==
  ASSUME NEW w, NEW p, NEW q, NEW i, NEW j, Bargaining(w, p, q, i, j),
         NEW u, NEW d, NEW m, FirstGiving(w, u, q, i, j, d, m)
  PROVE  Going(u, j, ItemCount(w, j)) = Coins(w, j)
<1>1. /\ Placed(w) /\ Placed(u) /\ Laid(w) /\ Laid(u) /\ PlaceTypes(w) /\ PlaceTypes(u)
      /\ j \in Items
  BY FirstSettles DEF FirstPlaces, Placed, Laid, Bargaining
<1>2. CASE j \in Stacks
  <2>1. Coins(w, j) = w.count[j]
    BY <1>1, <1>2, StackCoins
  <2> QED BY <1>2, <2>1 DEF Going, ItemCount
<1>3. CASE j \notin Stacks
  <2>1. SameOffer(w, u, j)
    BY <1>3, FirstCounts
  <2>2. Inner(u, j) = Inner(w, j)
    BY <2>1 DEF SameOffer, SameInside, Inner, Items
  <2>3. Coins(w, j) = Total(Inner(w, j), Stacks) /\ Coins(u, j) = Total(Inner(u, j), Stacks)
    BY <1>1, PurseSum
  <2> QED BY <1>3, <2>2, <2>3 DEF Going
<1> QED BY <1>2, <1>3

(* What p has given, q has; j is where it was.                              *)
LEMMA FirstGiven ==
  ASSUME NEW w, NEW p, NEW q, NEW i, NEW j, Bargaining(w, p, q, i, j),
         NEW u, NEW d, NEW m, FirstGiving(w, u, q, i, j, d, m)
  PROVE  Swapped(w, u, p, q, i, j, FALSE)
<1> DEFINE x == Going(w, i, ItemCount(w, i))
           a == Coins(w, i)
<1>1. Placed(w) /\ Laid(w) /\ PlaceTypes(w) /\ i \in Items
  BY FirstSettles DEF FirstPlaces, Placed, Laid, Bargaining
<1>2. x = a
  <2>1. i \in Stacks => Coins(w, i) = w.count[i]
    BY <1>1, StackCoins
  <2> QED BY <2>1 DEF Going, ItemCount
<1>3. /\ p \in Players /\ q \in Players /\ p # q /\ Root(w, i) # q
      /\ Giving(w, u, q, i, ItemCount(w, i), j, d, m)
  BY WorldAssumption DEF Bargaining, Near, FirstGiving
<1> HIDE DEF x
<1>4. ASSUME NEW r \in Players
      PROVE  Carries(u, r) = (Carries(w, r) - Given(Root(w, i) = r, x)) + Given(q = r, x)
  <2> DEFINE n == ItemCount(w, i)
  <2>1. Giving(w, u, q, i, n, j, d, m) /\ x = Going(w, i, n)
    BY <1>3 DEF x
  <2> HIDE DEF n
  <2> QED BY <1>1, <2>1, GiftCarried
<1>5. i \notin Stacks => Root(u, i) = q
  BY <1>1, <1>3, GiftRoots
<1>6. Root(u, j) = Root(w, j)
  BY FirstInside DEF SameInside
<1> DEFINE cp == Carries(w, p)
           cq == Carries(w, q)
<1>7. a \in Int /\ cp \in Int /\ cq \in Int
  BY <1>1, PurseSum
<1>8. Carries(u, q) = (cq - Given(Root(w, i) = q, a)) + Given(q = q, a)
  BY <1>2, <1>3, <1>4
<1>9. Carries(u, p) = (cp - Given(Root(w, i) = p, a)) + Given(q = p, a)
  BY <1>2, <1>3, <1>4
<1> HIDE DEF a, cp, cq
<1>10. Carries(u, q) = cq + a - 0
  BY <1>3, <1>7, <1>8 DEF Given
<1>11. Carries(u, p) = cp + 0 - IF Root(w, i) = p THEN a ELSE 0
  BY <1>3, <1>7, <1>9 DEF Given
<1> QED BY <1>5, <1>6, <1>10, <1>11 DEF Swapped, a, cp, cq

(* The other way, p gets all of j.                                          *)
LEMMA SecondGiven ==
  ASSUME NEW w, NEW p, NEW q, NEW i, NEW j, Bargaining(w, p, q, i, j),
         NEW u, NEW d, NEW m, FirstGiving(w, u, q, i, j, d, m),
         NEW v, Gives(u, v, p, j, ItemCount(w, j), NoItem)
  PROVE  Swapped(w, v, p, q, i, j, TRUE)
<1> DEFINE n == ItemCount(w, j)
           x == Going(u, j, n)
<1>1. PICK e, k : Giving(u, v, p, j, n, NoItem, e, k)
  BY DEF Gives
<1>2. Placed(u) /\ PlaceTypes(w) /\ PlaceTypes(u)
  BY FirstSettles DEF FirstPlaces, Placed, Laid
<1>3. /\ p \in Players /\ q \in Players /\ p # q /\ i \in Items /\ j \in Items /\ i # j
      /\ Root(w, j) # p
  BY WorldAssumption DEF Bargaining, Near
<1>4. Swapped(w, u, p, q, i, j, FALSE)
  BY FirstGiven
<1>5. Root(u, j) = Root(w, j) /\ ~Holds(u, j, i)
  BY FirstInside DEF SameInside
<1>6. x = Coins(w, j)
  BY FirstGoing
<1> HIDE DEF n, x
<1>7. ASSUME NEW r \in Players
      PROVE  Carries(v, r) = (Carries(u, r) - Given(Root(u, j) = r, x)) + Given(p = r, x)
  <2>1. x = Going(u, j, n)
    BY DEF x
  <2> QED BY <1>1, <1>2, <1>3, <2>1, GiftCarried
<1>8. /\ j \notin Stacks => Root(v, j) = p
      /\ i \notin Stacks => Root(v, i) = Root(u, i)
  BY <1>1, <1>2, <1>3, <1>5, GiftRoots
<1> DEFINE a == Coins(w, i)
           b == Coins(w, j)
           cp == Carries(w, p)
           cq == Carries(w, q)
<1>9. a \in Int /\ b \in Int /\ cp \in Int /\ cq \in Int
  BY <1>2, PurseSum
<1>10. Carries(u, q) = cq + a - 0 /\ Carries(u, p) = cp + 0 - (IF Root(w, i) = p THEN a ELSE 0)
  BY <1>4 DEF Swapped
<1>11. Carries(v, q) = (Carries(u, q) - Given(Root(w, j) = q, b)) + Given(p = q, b)
  BY <1>3, <1>5, <1>6, <1>7
<1>12. Carries(v, p) = (Carries(u, p) - Given(Root(w, j) = p, b)) + Given(p = p, b)
  BY <1>3, <1>5, <1>6, <1>7
<1> HIDE DEF a, b, cp, cq
<1>13. Carries(v, q) = cq + a - (IF Root(w, j) = q THEN b ELSE 0)
  BY <1>3, <1>9, <1>10, <1>11 DEF Given
<1>14. Carries(v, p) = cp + b - (IF Root(w, i) = p THEN a ELSE 0)
  BY <1>3, <1>9, <1>10, <1>12 DEF Given
<1>15. i \notin Stacks => Root(v, i) = q
  BY <1>4, <1>8 DEF Swapped
<1> QED BY <1>8, <1>13, <1>14, <1>15 DEF Swapped, a, b, cp, cq

(* Both items changed hands, or p gave his away: that only if he has no place *)
(* of his own for j, or if it has grown too heavy.                          *)
Bartered(w, v, p, q, i, j) ==
  \E got \in BOOLEAN : /\ HasOwnPlace(w, p, i, j) /\ ~Outgrown(w, p, i, j) => got
                       /\ Swapped(w, v, p, q, i, j, got)

(* What is on offer exists.                                                 *)
LEMMA NearExists ==
  ASSUME NEW w, Placed(w), NEW p \in Players, NEW i \in Items, Near(w, p, i)
  PROVE  w.parent[i] # Nowhere /\ ItemCount(w, i) \in 1..ItemCount(w, i)
<1> USE WorldAssumption
<1>1. ParentTypes(w) /\ PlaceTypes(w) /\ (w.parent[i] # Nowhere => Exists(w, i))
  BY DEF Placed, Laid, PlaceTypes
<1>2. w.parent[i] # Nowhere
  <2>1. CASE w.parent[i] = Nowhere
    <3>1. Root(w, i) = Nowhere
      BY <1>1, <2>1, OutermostFacts DEF Items
    <3> QED BY <3>1 DEF Near
  <2> QED BY <2>1
<1>3. ItemCount(w, i) \in Nat \ {0}
  <2>1. i \in Stacks => w.count[i] \in Nat
    BY <1>1 DEF PlaceTypes
  <2> QED BY <1>1, <1>2, <2>1 DEF ItemCount, Exists
<1> QED BY <1>2, <1>3

(* What comes of the first move.                                            *)
LEMMA FirstMove ==
  ASSUME NEW w, NEW p, NEW q, NEW i, NEW j, Bargaining(w, p, q, i, j), ~Overfull(w, q),
         NEW r, r = MoveItem(w, w.parent[i], q, Wherever, i, ItemCount(w, i), FALSE, j)
  PROVE  \/ r.w = w /\ ~r.ok
         \/ r.ok /\ \E d, m : FirstGiving(w, r.w, q, i, j, d, m)
<1>1. Weighed(w) /\ Placed(w) /\ q \in Players /\ p \in Players /\ i \in Items /\ Near(w, p, i)
  BY DEF Bargaining, Weighed
<1> DEFINE n == ItemCount(w, i)
<1>2. w.parent[i] # Nowhere /\ n \in 1..n /\ MaySplit(w, i, n)
  BY <1>1, NearExists, CountOf
<1>3. r = MoveItem(w, w.parent[i], q, Wherever, i, n, FALSE, j) /\ n \in 1..ItemCount(w, i)
  BY <1>2
<1> HIDE DEF n
<1>4. \/ Stays(w, r) /\ (j = NoItem => NoPlace(w, q, i, w.tradeItem[q]))
      \/ r.ok /\ Gives(w, r.w, q, i, n, j)
  BY <1>1, <1>2, <1>3, GiftMoves
<1>5. CASE Stays(w, r)
  BY <1>5 DEF Stays
<1>6. CASE r.ok /\ Gives(w, r.w, q, i, n, j)
  BY <1>6 DEF Gives, FirstGiving, n
<1> QED BY <1>4, <1>5, <1>6

(* What comes of the second.                                                *)
LEMMA SecondMove ==
  ASSUME NEW w, NEW p, NEW q, NEW i, NEW j, Bargaining(w, p, q, i, j), ~Overfull(w, p),
         SplitsPossible(w, i, j), NEW u, NEW d, NEW m, FirstGiving(w, u, q, i, j, d, m),
         NEW r, r = MoveItem(u, w.parent[j], p, Wherever, j, ItemCount(w, j), FALSE, NoItem)
  PROVE  \/ r.w = u /\ NoPlace(u, p, j, u.tradeItem[p])
         \/ Gives(u, r.w, p, j, ItemCount(w, j), NoItem)
<1>1. p \in Players /\ j \in Items
  BY DEF Bargaining
<1> DEFINE n == ItemCount(w, j)
           guard == NoItem
<1>2. /\ Weighed(u) /\ u.parent[j] = w.parent[j] /\ u.parent[j] # Nowhere
      /\ MaySplit(u, j, n) /\ n \in 1..ItemCount(u, j)
  BY SecondMay
<1>3. ~Overfull(u, p)
  BY FirstOverfull
<1>4. r = MoveItem(u, u.parent[j], p, Wherever, j, n, FALSE, guard) /\ guard = NoItem
  BY <1>2
<1> HIDE DEF n, guard
<1>5. \/ Stays(u, r) /\ (guard = NoItem => NoPlace(u, p, j, u.tradeItem[p]))
      \/ r.ok /\ Gives(u, r.w, p, j, n, guard)
  BY <1>1, <1>2, <1>3, <1>4, GiftMoves
<1>6. CASE Stays(u, r) /\ NoPlace(u, p, j, u.tradeItem[p])
  BY <1>6 DEF Stays
<1>7. CASE Gives(u, r.w, p, j, n, guard)
  BY <1>4, <1>7 DEF n
<1> QED BY <1>4, <1>5, <1>6, <1>7

(* A swap that does anything exchanges the items, or p gives his away.       *)
LEMMA SwapGives ==
  ASSUME NEW w, NEW p, NEW q, NEW i, NEW j, Bargaining(w, p, q, i, j),
         TradeFields \subseteq DOMAIN w, w.tradeItem[p] = i, w.tradeItem[q] = j,
         ~Overfull(w, p), ~Overfull(w, q), SplitsPossible(w, i, j),
         NEW v, v = Swap(w, p, q), v # w
  PROVE  Bartered(w, v, p, q, i, j)
<1> DEFINE given == MoveItem(w, w.parent[i], q, Wherever, i, ItemCount(w, i), FALSE, j)
           last  == MoveItem(given.w, w.parent[j], p, Wherever, j, ItemCount(w, j), FALSE, NoItem)
<1>1. /\ TestAddItem(w, p, j)
      /\ v = IF ~given.ok THEN given.w ELSE last.w
  BY DEF Swap
<1>2. Laid(w) /\ p \in Players /\ j \in Items
  BY DEF Bargaining, Weighed, Placed
<1>3. HasCapacity(w, p, j, ItemCount(w, j))
  BY <1>1, <1>2, TestedCapacity
<1>4. \/ given.w = w /\ ~given.ok
      \/ given.ok /\ \E d, m : FirstGiving(w, given.w, q, i, j, d, m)
  <2> DEFINE r == given
  <2>1. r = MoveItem(w, w.parent[i], q, Wherever, i, ItemCount(w, i), FALSE, j)
    OBVIOUS
  <2> HIDE DEF given
  <2> QED BY <2>1, FirstMove
<1> DEFINE u == given.w
<1>5. last = MoveItem(u, w.parent[j], p, Wherever, j, ItemCount(w, j), FALSE, NoItem)
  OBVIOUS
<1> HIDE DEF given, last
<1>6. PICK d, m : FirstGiving(w, u, q, i, j, d, m)
  BY <1>1, <1>4
<1>7. v = last.w
  BY <1>1, <1>4
<1> HIDE DEF u
<1>8. \/ last.w = u /\ NoPlace(u, p, j, u.tradeItem[p])
      \/ Gives(u, last.w, p, j, ItemCount(w, j), NoItem)
  BY <1>5, <1>6, SecondMove
<1>9. CASE v = u /\ NoPlace(u, p, j, u.tradeItem[p])
  <2>1. ~(HasOwnPlace(w, p, i, j) /\ ~Outgrown(w, p, i, j))
    BY <1>3, <1>6, <1>9, FirstPlaceKept
  <2>2. Swapped(w, v, p, q, i, j, FALSE)
    BY <1>6, <1>9, FirstGiven
  <2> QED BY <2>1, <2>2 DEF Bartered
<1>10. CASE Gives(u, v, p, j, ItemCount(w, j), NoItem)
  <2>1. Swapped(w, v, p, q, i, j, TRUE)
    BY <1>6, <1>10, SecondGiven
  <2> QED BY <2>1 DEF Bartered
<1> QED BY <1>7, <1>8, <1>9, <1>10
(* The last of both accepts: as an exchange.                                 *)
LastAccept(p, q, i, j) ==
  /\ p \in Players /\ AcceptTrade(p) /\ q = world.tradePartner[p]
  /\ i = world.tradeItem[p] /\ j = world.tradeItem[q]
  /\ q # NoPlayer /\ world.tradeState[q] = "accept"
  /\ ~Overfull(world, p) /\ ~Overfull(world, q) /\ world'.parent # world.parent

(* w has the items, the players and the offers of the world.                 *)
Like(w) == /\ SameItems(world, w) /\ TradeFields \subseteq DOMAIN w
           /\ w.at = world.at /\ w.tradeItem = world.tradeItem

(* Places, pieces and weights are all that matters.                         *)
LEMMA SamePurses ==
  ASSUME NEW w, PlaceTypes(w), NEW v, PlaceTypes(v), v.parent = w.parent, v.count = w.count,
         NEW r
  PROVE  Carries(v, r) = Carries(w, r) /\ Coins(v, r) = Coins(w, r)
<1>1. (\A x : Root(v, x) = Root(w, x)) /\ (\A b, x : Holds(v, b, x) <=> Holds(w, b, x))
  BY SameParents
<1>2. Purse(v, r) = Purse(w, r) /\ Inner(v, r) = Inner(w, r)
  BY <1>1 DEF Purse, Inner
<1> QED BY <1>2, PurseSum

(* So an exchange is the same before and after trades are reset.            *)
LEMMA SameExchanged ==
  ASSUME NEW w, NEW x, SameItems(w, x), PlaceTypes(w), PlaceTypes(x),
         NEW v, NEW y, PlaceTypes(v), PlaceTypes(y), y.parent = v.parent, y.count = v.count,
         NEW p, NEW q, NEW i, NEW j, Bartered(x, v, p, q, i, j)
  PROVE  Bartered(w, y, p, q, i, j)
<1>1. /\ x.parent = w.parent /\ x.list = w.list /\ x.slot = w.slot /\ x.count = w.count
      /\ x.carried = w.carried
  BY DEF SameItems, SamePlaces
<1>2. /\ \A z : Root(x, z) = Root(w, z) /\ Root(y, z) = Root(v, z)
      /\ \A b, z : Holds(x, b, z) <=> Holds(w, b, z)
  BY <1>1, SameParents
<1>3. HasOwnPlace(w, p, i, j) <=> HasOwnPlace(x, p, i, j)
  BY <1>1, <1>2 DEF HasOwnPlace
<1>4. Outgrown(w, p, i, j) <=> Outgrown(x, p, i, j)
  BY <1>1, <1>2 DEF Outgrown
<1>5. /\ Coins(w, i) = Coins(x, i) /\ Coins(w, j) = Coins(x, j)
      /\ Carries(w, p) = Carries(x, p) /\ Carries(w, q) = Carries(x, q)
  BY <1>1, SamePurses
<1>6. Carries(y, p) = Carries(v, p) /\ Carries(y, q) = Carries(v, q)
  BY SamePurses
<1>7. PICK got \in BOOLEAN :
        /\ HasOwnPlace(x, p, i, j) /\ ~Outgrown(x, p, i, j) => got
        /\ Swapped(x, v, p, q, i, j, got)
  BY DEF Bartered
<1>8. Swapped(w, y, p, q, i, j, got)
  BY <1>2, <1>5, <1>6, <1>7 DEF Swapped
<1> QED BY <1>3, <1>4, <1>7, <1>8 DEF Bartered

(* What was offered is there, near and apart.                               *)
LEMMA AcceptBargaining ==
  ASSUME Dealt(world), Sound(world), NEW p, NEW q, NEW i, NEW j, LastAccept(p, q, i, j),
         i # NoItem, j # NoItem, NEW w, Like(w)
  PROVE  Bargaining(w, p, q, i, j)
<1> USE WorldAssumption
<1>1. /\ SameItems(world, w) /\ w.at = world.at /\ w.parent = world.parent
  BY DEF Like, SameItems, SamePlaces
<1>2. Weighed(w)
  <2>1. Sound(w)
    BY <1>1, SameSound
  <2> QED BY <2>1 DEF Sound
<1>3. p \in Players /\ q \in Players /\ p # q /\ i \in Items /\ j \in Items /\ i # j
  <2>1. TradeTypes(world, {}) /\ Offers(world, Players) /\ p \in Players
        /\ (world.tradePartner[p] # NoPlayer =>
               world.tradePartner[p] \in Players /\ Paired(world, p, world.tradePartner[p]))
    BY DEF Dealt, Trading, LastAccept
  <2>2. q \in Players /\ q # p
    BY <2>1 DEF LastAccept, Paired
  <2>3. i \in Items /\ j \in Items
    BY <2>1, <2>2 DEF LastAccept, TradeTypes
  <2> QED BY <2>1, <2>2, <2>3 DEF LastAccept, Offers
<1>4. i = world.tradeItem[p] /\ j = world.tradeItem[q]
  BY DEF LastAccept
<1>5. Near(world, p, i) /\ Near(world, q, j)
  BY <1>3, <1>4 DEF Dealt, Held
<1>6. ~Holds(world, i, j) /\ ~Holds(world, j, i)
  BY <1>3, <1>4 DEF Dealt, Separate
<1>7. /\ \A x : Root(w, x) = Root(world, x)
      /\ \A b, x : Holds(w, b, x) <=> Holds(world, b, x)
  BY <1>1, SameParents
<1>8. Near(w, p, i) /\ Near(w, q, j)
  BY <1>1, <1>5, <1>7 DEF Near
<1> QED BY <1>2, <1>3, <1>6, <1>7, <1>8 DEF Bargaining

(* Game::playerAcceptTrade, by the last of both.                            *)
LEMMA AcceptExchanges ==
  ASSUME Dealt(world), Sound(world), NEW p, NEW q, NEW i, NEW j, LastAccept(p, q, i, j)
  PROVE  Bartered(world, world', p, q, i, j)
<1> DEFINE w == [world EXCEPT
                  !.tradeState = [@ EXCEPT ![p] = "transfer", ![q] = "transfer"],
                  !.tradeItems = @ \ {i, j}]
           v == Swap(w, p, q)
<1>1. /\ Placed(world) /\ Trading(world, {}) /\ p \in Players /\ PlaceTypes(world)
      /\ ItemFields \subseteq DOMAIN world /\ TradeFields \subseteq DOMAIN world
  BY DEF Dealt, LastAccept, Placed, Laid, PlaceTypes, Trading, TradeTypes
<1>2. Like(w)
  BY <1>1 DEF Like, SameItems, SamePlaces, ItemFields, TradeFields
<1>3. Swapping(w, p, q)
  BY <1>1, SwappingFacts DEF LastAccept
<1>4. w.tradeItem[p] = i /\ w.tradeItem[q] = j
  BY <1>2 DEF LastAccept, Like
<1> HIDE DEF w
<1>5. SameItems(world, w) /\ Placed(w) /\ PlaceTypes(w) /\ w.parent = world.parent
  <2>1. SameItems(world, w)
    BY <1>2 DEF Like
  <2>2. Placed(w)
    BY <1>1, <2>1, SamePlaced DEF SameItems
  <2> QED BY <2>1, <2>2 DEF Placed, Laid, SameItems, SamePlaces
<1>6. SplitsPossible(w, i, j)
  <2>1. SplitsPossible(world, i, j)
    BY DEF LastAccept, AcceptTrade
  <2> QED BY <1>5, <2>1 DEF SplitsPossible, Unused, SameItems, SamePlaces
<1>7. world' = Reset(v, {p, q})
  BY <1>3 DEF Swapping
<1>8. Placed(v) /\ PlaceTypes(v) /\ ItemFields \subseteq DOMAIN v
  <2>1. /\ p \in Players /\ q \in Players /\ {i, j} \subseteq Items \cup {NoItem}
        /\ (i = j => i = NoItem)
    <3>1. TradeTypes(world, {}) /\ Offers(world, Players) /\ q \in Players /\ q # p
      BY <1>1, <1>3 DEF Trading, Swapping
    <3> QED BY <1>1, <3>1 DEF TradeTypes, Offers, LastAccept
  <2>2. Swaps(w, v)
    BY <1>4, <1>5, <1>6, <2>1, SwapSteps
  <2> HIDE DEF v
  <2>3. Placed(v)
    BY <1>5, <2>2, SwapsPlaces
  <2> QED BY <2>3 DEF Placed, Laid, PlaceTypes
<1>9. i # NoItem /\ j # NoItem
  <2>1. ASSUME i = NoItem \/ j = NoItem  PROVE FALSE
    <3>1. v = w
      BY <1>4, <2>1 DEF Swap
    <3> HIDE DEF v
    <3>2. world'.parent = world.parent
      BY <1>5, <1>7, <1>8, <3>1 DEF Reset, ItemFields
    <3> QED BY <3>2 DEF LastAccept
  <2> QED BY <2>1
<1> HIDE DEF v
<1>10. /\ world'.parent = v.parent /\ world'.count = v.count
       /\ SamePlaces(v, world')
  BY <1>7, <1>8 DEF Reset, ItemFields, SamePlaces
<1>11. PlaceTypes(world')
  <2>1. Placed(world')
    BY <1>8, <1>10, SamePlaced
  <2> QED BY <2>1 DEF Placed, Laid
<1>12. v # w
  <2>1. world'.parent # world.parent
    BY DEF LastAccept
  <2> QED BY <1>5, <1>10, <2>1
<1>13. ~Overfull(w, p) /\ ~Overfull(w, q)
  <2>1. ~Overfull(world, p) /\ ~Overfull(world, q)
    BY DEF LastAccept
  <2>2. \A x : Root(w, x) = Root(world, x)
    BY <1>5, SameParents
  <2>3. w.list = world.list
    BY <1>5 DEF SameItems, SamePlaces
  <2> QED BY <2>1, <2>2, <2>3 DEF Overfull
<1>14. Bargaining(w, p, q, i, j)
  BY <1>2, <1>9, AcceptBargaining
<1>15. TradeFields \subseteq DOMAIN w
  BY <1>2 DEF Like
<1>16. Bartered(w, v, p, q, i, j)
  BY <1>4, <1>6, <1>12, <1>13, <1>14, <1>15, SwapGives DEF v
<1> QED BY <1>1, <1>5, <1>8, <1>10, <1>11, <1>16, SameExchanged

(* For any players, items, containers and places: what the last accept of a   *)
(* trade does, if it does anything, is to exchange both items, each with all *)
(* that is in it or all of its pieces, or to give that of the player who     *)
(* accepted last for nothing, which does not happen to who has a place for   *)
(* the other one that stays his.                                            *)
THEOREM SwapIsWholeHolds == Spec => SwapIsWhole
<1> DEFINE Done == \A p \in Players :
             LET q    == world.tradePartner[p]
                 i    == world.tradeItem[p]
                 j    == world.tradeItem[q]
                 back == HasOwnPlace(world, p, i, j) /\ ~Outgrown(world, p, i, j)
                 swap == /\ q # NoPlayer /\ world.tradeState[q] = "accept"
                         /\ ~Overfull(world, p) /\ ~Overfull(world, q)
                         /\ world'.parent # world.parent
                         /\ AcceptTrade(p)
             IN swap => \E got \in BOOLEAN :
                  /\ back => got
                  /\ i \notin Stacks => Root(world', i) = q
                  /\ j \notin Stacks => Root(world', j) = IF got THEN p ELSE Root(world, j)
                  /\ Carries(world', q) = Carries(world, q) + Coins(world, i)
                       - IF got /\ Root(world, j) = q THEN Coins(world, j) ELSE 0
                  /\ Carries(world', p) = Carries(world, p) + (IF got THEN Coins(world, j) ELSE 0)
                       - IF Root(world, i) = p THEN Coins(world, i) ELSE 0
<1>1. Offering /\ Balanced /\ [Next]_world => Done
  <2> SUFFICES ASSUME Dealt(world), Sound(world), NEW p \in Players
               PROVE  LET q    == world.tradePartner[p]
                          i    == world.tradeItem[p]
                          j    == world.tradeItem[q]
                      IN LastAccept(p, q, i, j) => Bartered(world, world', p, q, i, j)
    BY DEF Offering, Balanced, LastAccept, Bartered, Swapped
  <2> QED BY AcceptExchanges
<1> QED BY <1>1, OfferingHolds, BalancedHolds, PTL DEF Spec, SwapIsWhole
=============================================================================
