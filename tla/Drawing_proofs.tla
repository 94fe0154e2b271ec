--------------------------- MODULE Drawing_proofs ---------------------------
(* How a layout is drawn, for every netlist and every request. The first   *)
(* part is about the placement the router is given: aligning the layers    *)
(* keeps the order and the gaps that were measured for them, and these     *)
(* gaps are wide enough for the wires that cross them. The second part is  *)
(* about groups that are open: the frame of the only one is cleared, and   *)
(* what is set out in a frame keeps apart.                                 *)
EXTENDS NodePlacement, ExpandedGroups, DigraphFacts, SequenceTheorems

-----------------------------------------------------------------------------
(* Numbers.                                                                *)

LEMMA ProductsGrow ==
  ASSUME NEW a \in Int, NEW b \in Int, NEW c \in Int, c > 0
  PROVE  /\ a < b => a * c < b * c
         /\ a <= b => a * c <= b * c
OBVIOUS

-----------------------------------------------------------------------------
(* Sums of lists of numbers.                                               *)

(* What goes through a list from its beginning has a stage after each      *)
(* element.                                                                *)
StagesFrom(n, V, base, apply) ==
  {h \in [0..n -> V] : h[0] = base /\ \A i \in 1..n : h[i] = apply[<<i, h[i - 1]>>]}

LEMMA StagesExist ==
  ASSUME NEW n \in Nat, NEW V, NEW base \in V,
         NEW apply, \A i \in 1..n : \A v \in V : apply[<<i, v>>] \in V
  PROVE  StagesFrom(n, V, base, apply) # {}
<1>1. PICK g \in [SUBSET (1..n) -> V] :
        /\ g[{}] = base
        /\ \A s \in SUBSET (1..n) : s # {} => g[s] = apply[<<Max(s), g[s \ {Max(s)}]>>]
  <2>1. Folds(n, V, base, apply) # {}
    BY FoldExists
  <2> QED BY <2>1 DEF Folds
<1>2. StagesOf(n, V, base, apply, g[1..n]) # {}
  BY <1>1, RecursionInSteps
<1> QED BY <1>2 DEF StagesOf, StagesFrom

MadeAlike(n, g, h) == g[0] = h[0] /\ \A i \in 1..n : g[i - 1] = h[i - 1] => g[i] = h[i]
Alike(n, g, h) == \A i \in 0..n : g[i] = h[i]

\* Two lists of stages that are made alike are alike.
LEMMA StagesAgree ==
  ASSUME NEW n \in Nat, NEW g, NEW h, MadeAlike(n, g, h)
  PROVE  Alike(n, g, h)
<1>0. g[0] = h[0] /\ \A i \in 1..n : g[i - 1] = h[i - 1] => g[i] = h[i]
  BY DEF MadeAlike
<1>1. PICK Good : Good = {k \in Nat : k <= n => g[k] = h[k]}
  OBVIOUS
<1>2. 0 \in Good
  BY <1>0, <1>1
<1>3. ASSUME NEW k \in Nat, k \in Good PROVE k + 1 \in Good
  <2>1. CASE k + 1 <= n
    <3>1. k + 1 \in 1..n /\ (k + 1) - 1 = k /\ g[k] = h[k]
      BY <1>1, <1>3, <2>1
    <3> QED BY <1>0, <1>1, <3>1
  <2>2. CASE ~ (k + 1 <= n)
    BY <1>1, <2>2
  <2> QED BY <2>1, <2>2
<1>4. \A k \in Nat : k \in Good
  BY <1>2, <1>3, CountingUp
<1> QED BY <1>1, <1>4 DEF Alike

\* The sums of the beginnings of a list.
Sums(n, f, h) ==
  /\ h \in [0..n -> Int] /\ h[0] = 0
  /\ \A i \in 1..n : f[i] \in Int /\ h[i] = h[i - 1] + f[i]

LEMMA SumsExist ==
  ASSUME NEW n \in Nat, NEW f, \A i \in 1..n : f[i] \in Int
  PROVE  \E h : Sums(n, f, h)
<1>1. PICK apply : apply = [p \in (1..n) \X Int |-> p[2] + f[p[1]]]
  OBVIOUS
<1>2. \A i \in 1..n : \A v \in Int : apply[<<i, v>>] = v + f[i] /\ v + f[i] \in Int
  BY <1>1
<1>3. PICK h \in [0..n -> Int] : h[0] = 0 /\ \A i \in 1..n : h[i] = apply[<<i, h[i - 1]>>]
  <2>1. \A i \in 1..n : \A v \in Int : apply[<<i, v>>] \in Int
    BY <1>2
  <2>2. 0 \in Int
    OBVIOUS
  <2>3. PICK V : V = Int
    OBVIOUS
  <2>4. \E h \in [0..n -> V] : h[0] = 0 /\ \A i \in 1..n : h[i] = apply[<<i, h[i - 1]>>]
    <3>1. 0 \in V /\ \A i \in 1..n : \A v \in V : apply[<<i, v>>] \in V
      BY <2>1, <2>3
    <3>2. StagesFrom(n, V, 0, apply) # {}
      BY ONLY <3>1, n \in Nat, StagesExist
    <3> QED BY <3>2 DEF StagesFrom
  <2> QED BY <2>3, <2>4
<1>4. ASSUME NEW i \in 1..n PROVE h[i] = h[i - 1] + f[i]
  <2>1. i - 1 \in 0..n
    OBVIOUS
  <2> QED BY <1>2, <1>3, <2>1
<1> QED BY <1>3, <1>4 DEF Sums

LEMMA TotalIsSum ==
  ASSUME NEW n \in Nat, NEW s, Len(s) = n, NEW h, Sums(n, s, h)
  PROVE  Total(s) = h[n]
<1>1. h = [i \in 0..n |-> IF i = 0 THEN 0 ELSE h[i - 1] + s[i]]
  BY DEF Sums
<1>2. PICK sum : /\ sum = [i \in 0..n |-> IF i = 0 THEN 0 ELSE sum[i - 1] + s[i]]
                 /\ Total(s) = sum[n]
  <2>1. PICK sum : sum = CHOOSE g : g = [i \in 0..n |-> IF i = 0 THEN 0 ELSE g[i - 1] + s[i]]
    OBVIOUS
  <2>2. sum = [i \in 0..n |-> IF i = 0 THEN 0 ELSE sum[i - 1] + s[i]]
    BY <1>1, <2>1
  <2>3. Total(s) = sum[n]
    BY <2>1 DEF Total
  <2> QED BY <2>2, <2>3
<1>3. sum[0] = 0 /\ \A i \in 1..n : sum[i] = sum[i - 1] + s[i]
  BY <1>2
<1>4. \A i \in 0..n : sum[i] = h[i]
  <2>1. sum[0] = h[0] /\ \A i \in 1..n : sum[i - 1] = h[i - 1] => sum[i] = h[i]
    BY <1>3 DEF Sums
  <2> QED
    <3>1. MadeAlike(n, sum, h)
      BY ONLY <2>1 DEF MadeAlike
    <3>2. Alike(n, sum, h)
      BY ONLY n \in Nat, <3>1, StagesAgree
    <3> QED BY ONLY <3>2 DEF Alike
<1> QED BY <1>2, <1>4

\* The totals of all beginnings of a list.
LEMMA PrefixTotals ==
  ASSUME NEW n \in Nat, NEW f, NEW h, Sums(n, f, h), NEW k \in 0..n
  PROVE  Total([i \in 1..k |-> f[i]]) = h[k]
<1>1. PICK s : s = [i \in 1..k |-> f[i]]
  OBVIOUS
<1>2. PICK g : g = [i \in 0..k |-> h[i]]
  OBVIOUS
<1>3. Len(s) = k
  BY <1>1
<1>4. Sums(k, s, g)
  BY <1>1, <1>2 DEF Sums
<1>5. Total(s) = g[k]
  BY <1>3, <1>4, TotalIsSum
<1> QED BY <1>1, <1>2, <1>5

\* The total of a part of a list.
LEMMA PartTotal ==
  ASSUME NEW n \in Nat, NEW f, NEW h, Sums(n, f, h), NEW j \in 1..n, NEW k \in j..n
  PROVE  Total([i \in 1..(k - j + 1) |-> f[j + i - 1]]) = h[k] - h[j - 1]
<1>1. PICK m \in Nat : m = k - j + 1
  OBVIOUS
<1>2. PICK s : s = [i \in 1..m |-> f[j + i - 1]]
  OBVIOUS
<1>3. PICK g : g = [i \in 0..m |-> h[j - 1 + i] - h[j - 1]]
  OBVIOUS
<1>4. Len(s) = m
  BY <1>2
<1>5. Sums(m, s, g)
  <2>1. \A i \in 0..m : j - 1 + i \in 0..n /\ h[j - 1 + i] \in Int /\ h[j - 1] \in Int
    BY <1>1 DEF Sums
  <2>2. ASSUME NEW i \in 1..m PROVE g[i] = g[i - 1] + s[i]
    <3>1. j + i - 1 \in 1..n /\ (j + i - 1) - 1 = j - 1 + (i - 1) /\ j + i - 1 = j - 1 + i
      BY <1>1
    <3>2. h[j + i - 1] = h[j - 1 + (i - 1)] + f[j + i - 1]
      BY <3>1 DEF Sums
    <3>3. s[i] = f[j + i - 1] /\ f[j + i - 1] \in Int
      BY <1>2, <3>1 DEF Sums
    <3>4. i - 1 \in 0..m /\ g[i] = h[j - 1 + i] - h[j - 1] /\ g[i - 1] = h[j - 1 + (i - 1)] - h[j - 1]
      BY <1>1, <1>3
    <3>5. PICK a \in Int, b \in Int, c \in Int :
            a = h[j - 1 + i] /\ b = h[j - 1 + (i - 1)] /\ c = h[j - 1]
      <4>1. i \in 0..m /\ i - 1 \in 0..m
        OBVIOUS
      <4>2. h[j - 1 + i] \in Int /\ h[j - 1 + (i - 1)] \in Int /\ h[j - 1] \in Int
        BY ONLY <2>1, <4>1
      <4> QED BY ONLY <4>2
    <3>6. a = b + s[i]
      BY <3>1, <3>2, <3>3, <3>5
    <3>7. g[i] = a - c /\ g[i - 1] = b - c
      BY <3>4, <3>5
    <3> QED BY ONLY <3>3, <3>5, <3>6, <3>7
  <2>3. \A i \in 1..m : s[i] \in Int
    BY <1>1, <1>2 DEF Sums
  <2>4. g[0] = 0 /\ g \in [0..m -> Int]
    <3>1. 0 \in 0..m /\ j - 1 + 0 = j - 1 /\ h[j - 1] \in Int
      BY <1>1, <2>1
    <3>2. g[0] = h[j - 1 + 0] - h[j - 1]
      BY <1>3, <3>1
    <3>3. \A i \in 0..m : h[j - 1 + i] - h[j - 1] \in Int
      BY <2>1
    <3>4. g[0] = 0
      BY ONLY <3>1, <3>2
    <3>5. g \in [0..m -> Int]
      BY ONLY <1>3, <3>3
    <3> QED BY <3>4, <3>5
  <2> QED BY <2>2, <2>3, <2>4 DEF Sums
<1>6. Total(s) = g[m]
  BY <1>4, <1>5, TotalIsSum
<1> QED BY <1>1, <1>2, <1>3, <1>6

\* A total of numbers is a number, of numbers that are not negative is not negative.
LEMMA TotalIsNumber ==
  ASSUME NEW n \in Nat, NEW s, Len(s) = n, \A i \in 1..n : s[i] \in Int
  PROVE  /\ Total(s) \in Int
         /\ (\A i \in 1..n : s[i] >= 0) => Total(s) >= 0
<1>1. PICK h : Sums(n, s, h)
  BY SumsExist
<1>2. Total(s) = h[n] /\ n \in 0..n
  BY <1>1, TotalIsSum
<1>3. h[n] \in Int
  BY <1>1, <1>2 DEF Sums
<1>4. ASSUME \A i \in 1..n : s[i] >= 0 PROVE h[n] >= 0
  <2>1. PICK Good : Good = {i \in Nat : i <= n => h[i] >= 0}
    OBVIOUS
  <2>2. 0 \in Good
    BY <1>1, <2>1 DEF Sums
  <2>3. ASSUME NEW i \in Nat, i \in Good PROVE i + 1 \in Good
    <3>1. ASSUME i + 1 <= n PROVE h[i + 1] >= 0
      <4>1. i + 1 \in 1..n /\ (i + 1) - 1 = i /\ i \in 0..n /\ i <= n
        BY <3>1
      <4>2. h[i + 1] = h[i] + s[i + 1] /\ h[i] \in Int /\ s[i + 1] \in Int /\ s[i + 1] >= 0
        BY <1>1, <1>4, <4>1 DEF Sums
      <4>3. h[i] >= 0
        BY <2>1, <2>3, <4>1
      <4> QED BY <4>2, <4>3
    <3> QED BY <2>1, <3>1
  <2>4. n \in Good
    BY <2>2, <2>3, CountingUp
  <2> QED BY <2>1, <2>4
<1> QED BY <1>2, <1>3, <1>4

-----------------------------------------------------------------------------
(* Greatest values.                                                        *)

LEMMA LargestFacts ==
  ASSUME NEW T, T \subseteq Int, IsFiniteSet(T), T # {}
  PROVE  Largest(T) \in T /\ Largest(T) \in Int /\ \A y \in T : y <= Largest(T)
<1>1. PICK x \in T : \A y \in T : x >= y
  BY GreatestOfFinite
<1>2. \A y \in T : y <= x
  BY <1>1
<1> QED BY <1>2 DEF Largest

LEMMA SmallestFacts ==
  ASSUME NEW T, T \subseteq Int, IsFiniteSet(T), T # {}
  PROVE  Smallest(T) \in T /\ Smallest(T) \in Int /\ \A y \in T : Smallest(T) <= y
<1>1. Min(T) \in T /\ \A y \in T : Min(T) <= y
  BY Extremes
<1> QED BY <1>1 DEF Smallest

Values(f, S) == {f[x] : x \in S}

\* A number and the values of a function on a finite set.
LEMMA LargestWith ==
  ASSUME NEW S, IsFiniteSet(S), NEW f, \A x \in S : f[x] \in Int, NEW a \in Int,
         NEW T, T = {a} \cup Values(f, S)
  PROVE  T \subseteq Int /\ IsFiniteSet(T) /\ T # {} /\ Largest(T) \in Int
<1>1. IsFiniteSet(Values(f, S))
  BY ImageIsFinite DEF Values
<1>2. IsFiniteSet(T)
  BY <1>1, FS_Singleton, FS_Union
<1>3. T \subseteq Int /\ T # {}
  BY DEF Values
<1> QED BY <1>2, <1>3, LargestFacts

-----------------------------------------------------------------------------
(* Elements by their rank.                                                  *)

AheadOf(S, before, x) == {y \in S : <<y, x>> \in before}

\* In a finite set with a strict order there is an element with any number before it.
LEMMA RankedElement ==
  ASSUME NEW S, IsFiniteSet(S), NEW before,
         \A x, y, z \in S : <<x, y>> \in before /\ <<y, z>> \in before => <<x, z>> \in before,
         \A x \in S : <<x, x>> \notin before,
         \A x, y \in S : x = y \/ <<x, y>> \in before \/ <<y, x>> \in before,
         NEW i \in 1..Cardinality(S)
  PROVE  \E x \in S : Cardinality(AheadOf(S, before, x)) = i - 1
<1>1. PICK order \in Listings(S) : \A j, k \in DOMAIN order : j < k => <<order[j], order[k]>> \in before
  BY OrderExists
<1>2. PICK n \in Nat : n = Cardinality(S)
  BY FS_CardinalityType
<1>3. order \in [1..n -> S] /\ IsInjective(order) /\ DOMAIN order = 1..n
  BY <1>1, <1>2 DEF Listings
<1>4. \A k \in 0..n : IsFiniteSet(1..k) /\ Cardinality(1..k) = k
  BY FS_Interval, 1 \in Int
<1>5. PICK T : T = {order[j] : j \in 1..n}
  OBVIOUS
<1>6. \A j, k \in 1..n : order[j] = order[k] => j = k
  BY <1>3 DEF IsInjective
<1>7. T = S
  <2>1. n \in 0..n
    OBVIOUS
  <2>2. Cardinality(T) = n
    BY <1>4, <1>5, <1>6, <2>1, ImageIsFinite
  <2>3. T \subseteq S
    BY <1>3, <1>5
  <2> QED BY <1>2, <2>2, <2>3, FS_Subset
<1>8. PICK x \in S : x = order[i]
  BY <1>2, <1>3
<1>9. {y \in S : <<y, x>> \in before} = {order[j] : j \in 1..(i - 1)}
  <2>1. i \in 1..n /\ \A j \in 1..(i - 1) : j \in 1..n /\ j < i
    BY <1>2
  <2>2. ASSUME NEW j \in 1..(i - 1) PROVE order[j] \in S /\ <<order[j], x>> \in before
    BY <1>1, <1>3, <1>8, <2>1
  <2>3. ASSUME NEW y \in S, <<y, x>> \in before PROVE \E j \in 1..(i - 1) : y = order[j]
    <3>1. PICK j \in 1..n : y = order[j]
      BY <1>5, <1>7
    <3>2. j # i
      BY <1>8, <2>3, <3>1
    <3>3. ~ (i < j)
      <4>1. ASSUME i < j PROVE FALSE
        <5>1. <<x, y>> \in before
          BY <1>1, <1>3, <1>8, <2>1, <3>1, <4>1
        <5> QED BY <2>3, <5>1
      <4> QED BY <4>1
    <3>4. j \in 1..(i - 1)
      BY <2>1, <3>2, <3>3
    <3> QED BY <3>1, <3>4
  <2> QED BY <2>2, <2>3
<1>10. Cardinality({order[j] : j \in 1..(i - 1)}) = i - 1
  <2>1. i - 1 \in 0..n /\ \A j \in 1..(i - 1) : j \in 1..n
    BY <1>2
  <2>2. IsFiniteSet(1..(i - 1)) /\ Cardinality(1..(i - 1)) = i - 1
    BY <1>4, <2>1
  <2>3. \A j, k \in 1..(i - 1) : order[j] = order[k] => j = k
    BY <1>6, <2>1
  <2> QED BY <2>2, <2>3, ImageIsFinite
<1> QED BY <1>9, <1>10 DEF AheadOf

StrictlyOrders(before, S) ==
  /\ \A x, y, z \in S : <<x, y>> \in before /\ <<y, z>> \in before => <<x, z>> \in before
  /\ \A x \in S : <<x, x>> \notin before
  /\ \A x, y \in S : x = y \/ <<x, y>> \in before \/ <<y, x>> \in before

\* The i-th element of the list has i - 1 elements of the set before it.
RanksBy(order, S, before) ==
  /\ order \in [1..Cardinality(S) -> S]
  /\ \A i \in 1..Cardinality(S) : Cardinality(AheadOf(S, before, order[i])) = i - 1

\* Such a list has every element once, in its order.
LEMMA RanksListAll ==
  ASSUME NEW S, IsFiniteSet(S), NEW before, StrictlyOrders(before, S),
         NEW order, RanksBy(order, S, before)
  PROVE  /\ Cardinality(S) \in Nat /\ Len(order) = Cardinality(S) /\ DOMAIN order = 1..Cardinality(S)
         /\ \A i \in 1..Cardinality(S) : order[i] \in S
         /\ \A x \in S : \E i \in 1..Cardinality(S) : order[i] = x
         /\ \A i, j \in 1..Cardinality(S) : order[i] = order[j] => i = j
         /\ \A i, j \in 1..Cardinality(S) : i < j => <<order[i], order[j]>> \in before
<1>1. PICK n \in Nat : n = Cardinality(S)
  BY FS_CardinalityType
<1>2. order \in [1..n -> S] /\ \A i \in 1..n : Cardinality(AheadOf(S, before, order[i])) = i - 1
  BY <1>1 DEF RanksBy
<1>3. \A i, j \in 1..n : order[i] = order[j] => i = j
  <2>1. ASSUME NEW i \in 1..n, NEW j \in 1..n, order[i] = order[j] PROVE i = j
    <3>1. i - 1 = j - 1
      BY <1>2, <2>1
    <3> QED BY <3>1
  <2> QED BY <2>1
<1>4. PICK T : T = {order[i] : i \in 1..n}
  OBVIOUS
<1>5. T = S
  <2>1. IsFiniteSet(1..n) /\ Cardinality(1..n) = n
    BY FS_Interval, 1 \in Int
  <2>2. Cardinality(T) = n
    BY <1>3, <1>4, <2>1, ImageIsFinite
  <2>3. T \subseteq S
    BY <1>2, <1>4
  <2> QED BY <1>1, <2>2, <2>3, FS_Subset
<1>6. ASSUME NEW i \in 1..n, NEW j \in 1..n, i < j PROVE <<order[i], order[j]>> \in before
  <2>1. SUFFICES ASSUME <<order[j], order[i]>> \in before PROVE FALSE
    <3>1. order[i] \in S /\ order[j] \in S /\ order[i] # order[j]
      BY <1>2, <1>3, <1>6
    <3> QED BY <3>1 DEF StrictlyOrders
  <2>2. PICK x, y : x = order[i] /\ y = order[j] /\ x \in S /\ y \in S
    BY <1>2
  <2>3. PICK A, B : A = AheadOf(S, before, x) /\ B = AheadOf(S, before, y)
    OBVIOUS
  <2>4. \A z \in S : <<z, y>> \in before => <<z, x>> \in before
    BY <2>1, <2>2 DEF StrictlyOrders
  <2>5. B \subseteq A
    BY <2>3, <2>4 DEF AheadOf
  <2>6. IsFiniteSet(A)
    <3>1. A \subseteq S
      BY <2>3 DEF AheadOf
    <3> QED BY <3>1, FS_Subset
  <2>7. Cardinality(B) <= Cardinality(A)
    BY <2>5, <2>6, FS_Subset
  <2>8. Cardinality(A) = i - 1 /\ Cardinality(B) = j - 1
    BY <1>2, <2>2, <2>3
  <2> QED BY <1>6, <2>7, <2>8
<1>7. Len(order) = n /\ DOMAIN order = 1..n
  BY <1>2
<1>8. \A x \in S : \E i \in 1..n : order[i] = x
  BY <1>4, <1>5
<1> QED BY <1>1, <1>2, <1>3, <1>6, <1>7, <1>8

LEMMA RankIsHeld ==
  ASSUME NEW S, IsFiniteSet(S), NEW before, StrictlyOrders(before, S), NEW i \in 1..Cardinality(S)
  PROVE  \E x \in S : Cardinality(AheadOf(S, before, x)) = i - 1
BY RankedElement DEF StrictlyOrders

LEMMA LexOfTwo ==
  ASSUME NEW a, NEW b, NEW c, NEW d
  PROVE  LexLess(<<a, b>>, <<c, d>>) <=> (a < c \/ (a = c /\ b < d))
<1>1. PICK s, t : s = <<a, b>> /\ t = <<c, d>>
  OBVIOUS
<1>2. Len(s) = 2 /\ s[1] = a /\ s[2] = b /\ t[1] = c /\ t[2] = d
  BY <1>1
<1>3. LexLess(s, t) <=> \E i \in 1..2 : s[i] < t[i] /\ \A j \in 1..(i - 1) : s[j] = t[j]
  BY <1>2 DEF LexLess
<1>4. /\ \A j \in 1..(1 - 1) : FALSE
      /\ \A j : j \in 1..(2 - 1) <=> j = 1
      /\ \A i : i \in 1..2 <=> (i = 1 \/ i = 2)
  OBVIOUS
<1>5. LexLess(s, t) <=> (s[1] < t[1] \/ (s[1] = t[1] /\ s[2] < t[2]))
  BY ONLY <1>3, <1>4
<1> QED BY <1>1, <1>2, <1>5

\* A number and, where it is the same, another that differs from element to element.
LEMMA PairsOrder ==
  ASSUME NEW S, NEW a, NEW b, \A x \in S : a[x] \in Int /\ b[x] \in Int,
         \A x, y \in S : a[x] = a[y] /\ b[x] = b[y] => x = y, NEW before,
         \A x, y \in S : <<x, y>> \in before <=> (a[x] < a[y] \/ (a[x] = a[y] /\ b[x] < b[y]))
  PROVE  StrictlyOrders(before, S)
<1>1. \A x \in S : <<x, x>> \notin before
  <2>1. ASSUME NEW x \in S PROVE <<x, x>> \notin before
    <3>1. a[x] \in Int /\ b[x] \in Int
      OBVIOUS
    <3>2. ~ (a[x] < a[x] \/ (a[x] = a[x] /\ b[x] < b[x]))
      BY <3>1
    <3> QED BY <3>2
  <2> QED BY <2>1
<1>2. ASSUME NEW x \in S, NEW y \in S PROVE x = y \/ <<x, y>> \in before \/ <<y, x>> \in before
  <2>1. a[x] \in Int /\ b[x] \in Int /\ a[y] \in Int /\ b[y] \in Int
    OBVIOUS
  <2>2. \/ (a[x] = a[y] /\ b[x] = b[y])
        \/ a[x] < a[y] \/ (a[x] = a[y] /\ b[x] < b[y])
        \/ a[y] < a[x] \/ (a[y] = a[x] /\ b[y] < b[x])
    BY <2>1
  <2> QED BY <2>2
<1>3. ASSUME NEW x \in S, NEW y \in S, NEW z \in S, <<x, y>> \in before, <<y, z>> \in before
      PROVE  <<x, z>> \in before
  <2>1. a[x] \in Int /\ b[x] \in Int /\ a[y] \in Int /\ b[y] \in Int /\ a[z] \in Int /\ b[z] \in Int
    OBVIOUS
  <2>2. a[x] < a[y] \/ (a[x] = a[y] /\ b[x] < b[y])
    BY <1>3
  <2>3. a[y] < a[z] \/ (a[y] = a[z] /\ b[y] < b[z])
    BY <1>3
  <2>4. a[x] < a[z] \/ (a[x] = a[z] /\ b[x] < b[z])
    BY ONLY <2>1, <2>2, <2>3
  <2> QED BY <2>4
<1> QED BY <1>1, <1>2, <1>3 DEF StrictlyOrders

-----------------------------------------------------------------------------
(* Products and quotients.                                                 *)

\* What the comparison of two quotients says of a threshold that one of them keeps.
LEMMA QuotientsCompare ==
  ASSUME NEW a \in Int, NEW b \in Int, NEW c \in Int, NEW d \in Int, NEW v \in Int, b > 0, d > 0
  PROVE  /\ a * d > c * b /\ a < v * b => c < v * d
         /\ a * d <= c * b /\ a >= v * b => c >= v * d
<1>1. PICK x \in Int, y \in Int : x = v * b /\ y = v * d
  OBVIOUS
<1>2. x * d = y * b
  BY <1>1
<1>3. a < x => a * d < x * d
  BY ProductsGrow
<1>4. y <= c => y * b <= c * b
  BY ProductsGrow
<1>5. c < y => c * b < y * b
  BY ProductsGrow
<1>6. x <= a => x * d <= a * d
  BY ProductsGrow
<1>7. a * d \in Int /\ c * b \in Int /\ x * d \in Int /\ y * b \in Int
  OBVIOUS
<1> QED BY ONLY <1>1, <1>2, <1>3, <1>4, <1>5, <1>6, <1>7, a \in Int, c \in Int

\* The quotient is the greatest threshold that is kept.
LEMMA QuotientKeeps ==
  ASSUME NEW a \in Int, NEW b \in Int, b > 0
  PROVE  a \div b \in Int /\ \A v \in Int : (a \div b >= v) <=> (a >= v * b)
<1>1. PICK q \in Int, r \in Int : q = a \div b /\ a = q * b + r /\ 0 <= r /\ r < b
  <2>1. a \div b \in Int /\ a % b \in Int /\ a = b * (a \div b) + (a % b) /\ 0 <= a % b /\ a % b < b
    OBVIOUS
  <2> QED BY <2>1
<1>2. ASSUME NEW v \in Int PROVE (q >= v) <=> (a >= v * b)
  <2>1. CASE q >= v
    <3>1. v * b <= q * b
      BY <2>1, ProductsGrow
    <3> QED BY <1>1, <2>1, <3>1
  <2>2. CASE q < v
    <3>1. (q + 1) * b <= v * b
      BY <2>2, ProductsGrow
    <3>2. (q + 1) * b = q * b + b
      OBVIOUS
    <3> QED BY <1>1, <2>2, <3>1, <3>2
  <2> QED BY <2>1, <2>2
<1> QED BY <1>1, <1>2

-----------------------------------------------------------------------------
(* Blocks.                                                                 *)

\* How far the sums are above what they would be if all were at v.
Level(S, W, v, i) == S[i] - v * W[i]

Increasing(n, W) == \A i, j \in 0..n : i < j => W[i] < W[j]

\* Sums of numbers and of their weights.
Levels(n, S, W) ==
  n \in Nat /\ S \in [0..n -> Int] /\ W \in [0..n -> Int] /\ Increasing(n, W)

LEMMA LevelFacts ==
  ASSUME NEW n, NEW S, NEW W, Levels(n, S, W), NEW i \in 0..n, NEW j \in 0..n, i < j, NEW v \in Int
  PROVE  /\ Level(S, W, v, i) \in Int /\ Level(S, W, v, j) \in Int
         /\ W[j] - W[i] \in Int /\ W[j] - W[i] > 0 /\ S[j] - S[i] \in Int
         /\ (Level(S, W, v, j) >= Level(S, W, v, i)) <=> (S[j] - S[i] >= v * (W[j] - W[i]))
<1>1. S[i] \in Int /\ S[j] \in Int /\ W[i] \in Int /\ W[j] \in Int /\ W[i] < W[j]
  BY DEF Levels, Increasing
<1>2. PICK x \in Int, y \in Int : x = v * W[i] /\ y = v * W[j]
  BY <1>1
<1>3. v * (W[j] - W[i]) = y - x
  BY <1>1, <1>2
<1> QED BY <1>1, <1>2, <1>3 DEF Level

Blocks == [first : Int, last : Int, weight : Int, sum : Int]

(* A block is the sum of its part; whatever it keeps on the whole, it keeps *)
(* from its beginning, and whatever it does not, it does not to its end.    *)
IsBlock(n, S, W, b) ==
  /\ b \in Blocks /\ 1 <= b.first /\ b.first <= b.last /\ b.last <= n
  /\ b.sum = S[b.last] - S[b.first - 1] /\ b.weight = W[b.last] - W[b.first - 1]
  /\ \A v \in Int :
       /\ Level(S, W, v, b.last) >= Level(S, W, v, b.first - 1) =>
            \A k \in b.first..b.last : Level(S, W, v, k) >= Level(S, W, v, b.first - 1)
       /\ Level(S, W, v, b.last) < Level(S, W, v, b.first - 1) =>
            \A k \in b.first..b.last : Level(S, W, v, b.last) < Level(S, W, v, k - 1)

\* Two blocks that follow each other.
LEMMA BlocksCompare ==
  ASSUME NEW n, NEW S, NEW W, Levels(n, S, W), NEW a, NEW b, IsBlock(n, S, W, a), IsBlock(n, S, W, b),
         b.first = a.last + 1, NEW v \in Int
  PROVE  /\ Exceeds(a, b) /\ Level(S, W, v, a.last) < Level(S, W, v, a.first - 1)
              => Level(S, W, v, b.last) < Level(S, W, v, b.first - 1)
         /\ ~Exceeds(a, b) /\ Level(S, W, v, a.last) >= Level(S, W, v, a.first - 1)
              => Level(S, W, v, b.last) >= Level(S, W, v, b.first - 1)
<1>1. /\ a.first - 1 \in 0..n /\ a.last \in 0..n /\ a.first - 1 < a.last
      /\ b.first - 1 \in 0..n /\ b.last \in 0..n /\ b.first - 1 < b.last
  <2>1. /\ a.first \in Int /\ a.last \in Int /\ 1 <= a.first /\ a.first <= a.last /\ a.last <= n
        /\ b.first \in Int /\ b.last \in Int /\ 1 <= b.first /\ b.first <= b.last /\ b.last <= n
    BY DEF IsBlock, Blocks
  <2>2. n \in Nat
    BY DEF Levels
  <2>3. b.first - 1 = a.last /\ a.last < b.last
    BY ONLY <2>1, b.first = a.last + 1
  <2> QED BY ONLY <2>1, <2>2, <2>3
<1>2. /\ a.sum = S[a.last] - S[a.first - 1] /\ a.weight = W[a.last] - W[a.first - 1]
      /\ b.sum = S[b.last] - S[b.first - 1] /\ b.weight = W[b.last] - W[b.first - 1]
  BY DEF IsBlock
<1>3. /\ a.sum \in Int /\ a.weight \in Int /\ a.weight > 0
      /\ Level(S, W, v, a.first - 1) \in Int /\ Level(S, W, v, a.last) \in Int
      /\ (Level(S, W, v, a.last) >= Level(S, W, v, a.first - 1)) <=> (a.sum >= v * a.weight)
  BY <1>1, <1>2, LevelFacts
<1>4. /\ b.sum \in Int /\ b.weight \in Int /\ b.weight > 0
      /\ Level(S, W, v, b.first - 1) \in Int /\ Level(S, W, v, b.last) \in Int
      /\ (Level(S, W, v, b.last) >= Level(S, W, v, b.first - 1)) <=> (b.sum >= v * b.weight)
  BY <1>1, <1>2, LevelFacts
<1>5. /\ a.sum * b.weight > b.sum * a.weight /\ a.sum < v * a.weight => b.sum < v * b.weight
      /\ a.sum * b.weight <= b.sum * a.weight /\ a.sum >= v * a.weight => b.sum >= v * b.weight
  BY <1>3, <1>4, QuotientsCompare
<1>6. PICK x \in Int, y \in Int, p \in Int, q \in Int :
        x = a.sum * b.weight /\ y = b.sum * a.weight /\ p = v * a.weight /\ q = v * b.weight
  BY <1>3, <1>4
<1> QED BY ONLY <1>3, <1>4, <1>5, <1>6 DEF Exceeds

\* A node alone is a block.
LEMMA OneIsBlock ==
  ASSUME NEW n, NEW S, NEW W, Levels(n, S, W), NEW i \in 1..n
  PROVE  IsBlock(n, S, W, Block(i, i, W[i] - W[i - 1], S[i] - S[i - 1]))
<1>1. PICK b : b = Block(i, i, W[i] - W[i - 1], S[i] - S[i - 1])
  OBVIOUS
<1>2. n \in Nat /\ i \in Int /\ i - 1 \in 0..n /\ i \in 0..n /\ i - 1 < i
  BY DEF Levels
<1>3. b \in Blocks /\ b.first = i /\ b.last = i /\ b.sum = S[i] - S[i - 1] /\ b.weight = W[i] - W[i - 1]
  <2>1. S[i] - S[i - 1] \in Int /\ W[i] - W[i - 1] \in Int
    BY <1>2 DEF Levels
  <2> QED BY <1>1, <1>2, <2>1 DEF Block, Blocks
<1>4. \A k \in i..i : k = i
  BY <1>2
<1>5. i <= n /\ 1 <= i /\ i <= i
  BY <1>2
<1> QED BY <1>1, <1>3, <1>4, <1>5 DEF IsBlock

\* Two blocks in the wrong order are one.
LEMMA JoinedIsBlock ==
  ASSUME NEW n, NEW S, NEW W, Levels(n, S, W), NEW a, NEW b, IsBlock(n, S, W, a), IsBlock(n, S, W, b),
         b.first = a.last + 1, Exceeds(a, b)
  PROVE  IsBlock(n, S, W, Block(a.first, b.last, a.weight + b.weight, a.sum + b.sum))
<1>1. PICK c : c = Block(a.first, b.last, a.weight + b.weight, a.sum + b.sum)
  OBVIOUS
<1>2. /\ a \in Blocks /\ b \in Blocks /\ a.first \in Int /\ a.last \in Int /\ b.first \in Int /\ b.last \in Int
      /\ n \in Nat /\ 1 <= a.first /\ a.first <= a.last /\ b.first <= b.last /\ b.last <= n
      /\ a.sum \in Int /\ b.sum \in Int /\ a.weight \in Int /\ b.weight \in Int
  BY DEF IsBlock, Blocks, Levels
<1>3. c \in Blocks /\ c.first = a.first /\ c.last = b.last /\ c.sum = a.sum + b.sum /\ c.weight = a.weight + b.weight
  BY <1>1, <1>2 DEF Block, Blocks
<1>4. \A i \in 0..n : S[i] \in Int /\ W[i] \in Int
  BY DEF Levels
<1>5. c.sum = S[c.last] - S[c.first - 1] /\ c.weight = W[c.last] - W[c.first - 1]
  <2>1. /\ a.sum = S[a.last] - S[a.first - 1] /\ a.weight = W[a.last] - W[a.first - 1]
        /\ b.sum = S[b.last] - S[a.last] /\ b.weight = W[b.last] - W[a.last]
    <3>1. b.first - 1 = a.last
      BY <1>2
    <3> QED BY <3>1 DEF IsBlock
  <2>2. a.last \in 0..n /\ a.first - 1 \in 0..n /\ b.last \in 0..n
    BY <1>2
  <2> QED BY <1>3, <1>4, <2>1, <2>2
<1>6. ASSUME NEW v \in Int
      PROVE  /\ Level(S, W, v, c.last) >= Level(S, W, v, c.first - 1) =>
                  \A k \in c.first..c.last : Level(S, W, v, k) >= Level(S, W, v, c.first - 1)
             /\ Level(S, W, v, c.last) < Level(S, W, v, c.first - 1) =>
                  \A k \in c.first..c.last : Level(S, W, v, c.last) < Level(S, W, v, k - 1)
  <2>1. PICK d : d = [i \in 0..n |-> Level(S, W, v, i)]
    OBVIOUS
  <2>2. \A i \in 0..n : d[i] \in Int /\ d[i] = Level(S, W, v, i)
    <3>1. \A i \in 0..n : Level(S, W, v, i) \in Int
      BY <1>4 DEF Level
    <3> QED BY <2>1, <3>1
  <2>3. PICK p \in Int, q \in Int, r \in Int : p = a.first - 1 /\ q = a.last /\ r = b.last
    BY <1>2
  <2>4. 0 <= p /\ p < q /\ q < r /\ r <= n /\ a.first = p + 1 /\ b.first = q + 1 /\ b.first - 1 = q
    BY <1>2, <2>3
  <2>5. /\ d[q] >= d[p] => \A k \in (p + 1)..q : d[k] >= d[p]
        /\ d[q] < d[p] => \A k \in (p + 1)..q : d[q] < d[k - 1]
    <3>1. \A k \in (p + 1)..q : k \in 0..n /\ k - 1 \in 0..n
      BY <2>4, <1>2
    <3>2. p \in 0..n /\ q \in 0..n
      BY <2>4, <1>2
    <3> QED BY <2>2, <2>3, <2>4, <3>1, <3>2 DEF IsBlock
  <2>6. /\ d[r] >= d[q] => \A k \in (q + 1)..r : d[k] >= d[q]
        /\ d[r] < d[q] => \A k \in (q + 1)..r : d[r] < d[k - 1]
    <3>1. \A k \in (q + 1)..r : k \in 0..n /\ k - 1 \in 0..n
      BY <2>4, <1>2
    <3>2. r \in 0..n /\ q \in 0..n
      BY <2>4, <1>2
    <3> QED BY <2>2, <2>3, <2>4, <3>1, <3>2 DEF IsBlock
  <2>7. d[q] < d[p] => d[r] < d[q]
    <3>1. r \in 0..n /\ q \in 0..n /\ p \in 0..n
      BY <2>4, <1>2
    <3>2. Level(S, W, v, a.last) < Level(S, W, v, a.first - 1)
              => Level(S, W, v, b.last) < Level(S, W, v, b.first - 1)
      BY BlocksCompare
    <3> QED BY <2>2, <2>3, <2>4, <3>1, <3>2
  <2>8. p \in 0..n /\ q \in 0..n /\ r \in 0..n /\ d[p] \in Int /\ d[q] \in Int /\ d[r] \in Int
    BY <2>2, <2>4, <1>2
  <2>9. ASSUME d[r] >= d[p], NEW k \in (p + 1)..r PROVE d[k] >= d[p]
    <3>1. d[q] >= d[p]
      BY <2>7, <2>8, <2>9
    <3>2. CASE k <= q
      BY <2>5, <3>1, <3>2
    <3>3. CASE k > q
      <4>1. k \in (q + 1)..r /\ k \in 0..n /\ d[k] \in Int
        BY <2>2, <2>4, <3>3, <1>2
      <4>2. CASE d[r] >= d[q]
        BY <2>6, <2>8, <3>1, <4>1, <4>2
      <4>3. CASE d[r] < d[q]
        <5>1. CASE k = r
          BY <2>9, <5>1
        <5>2. CASE k # r
          <6>1. k + 1 \in (q + 1)..r /\ (k + 1) - 1 = k
            BY <2>4, <4>1, <5>2
          <6>2. d[r] < d[k]
            BY <2>6, <4>3, <6>1
          <6> QED BY <2>8, <2>9, <4>1, <6>2
        <5> QED BY <5>1, <5>2
      <4> QED BY <2>8, <4>2, <4>3
    <3> QED BY <2>8, <3>2, <3>3
  <2>10. ASSUME d[r] < d[p], NEW k \in (p + 1)..r PROVE d[r] < d[k - 1]
    <3>0. k - 1 \in 0..n /\ d[k - 1] \in Int
      BY <2>2, <2>4, <1>2
    <3>1. d[r] < d[q]
      BY <2>7, <2>8, <2>10
    <3>2. CASE k > q
      <4>1. k \in (q + 1)..r
        BY <2>4, <3>2
      <4> QED BY <2>6, <3>1, <4>1
    <3>3. CASE k <= q
      <4>1. CASE d[q] < d[p]
        <5>1. k \in (p + 1)..q
          BY <3>3
        <5> QED BY <2>5, <2>8, <3>0, <3>1, <4>1, <5>1
      <4>2. CASE d[q] >= d[p]
        <5>1. CASE k = p + 1
          BY <2>10, <5>1
        <5>2. CASE k # p + 1
          <6>1. k - 1 \in (p + 1)..q
            BY <3>3, <5>2, <2>4
          <6> QED BY <2>5, <2>8, <2>10, <3>0, <4>2, <6>1
        <5> QED BY <5>1, <5>2
      <4> QED BY <2>8, <4>1, <4>2
    <3> QED BY <2>8, <3>2, <3>3
  <2>11. c.first = p + 1 /\ c.last = r /\ c.first - 1 = p
    BY <1>3, <2>3, <2>4
  <2>12. \A k \in (p + 1)..r : k \in 0..n /\ k - 1 \in 0..n
    BY <2>4, <1>2
  <2>13. Level(S, W, v, p) = d[p] /\ Level(S, W, v, r) = d[r]
    BY <2>2, <2>8
  <2>14. \A k \in (p + 1)..r : Level(S, W, v, k) = d[k] /\ Level(S, W, v, k - 1) = d[k - 1]
    BY <2>2, <2>12
  <2>15. ASSUME d[r] >= d[p], NEW k \in (p + 1)..r PROVE Level(S, W, v, k) >= Level(S, W, v, p)
    <3>1. d[k] >= d[p]
      BY <2>9, <2>15
    <3> QED BY <2>13, <2>14, <3>1
  <2>16. ASSUME d[r] < d[p], NEW k \in (p + 1)..r PROVE Level(S, W, v, r) < Level(S, W, v, k - 1)
    <3>1. d[r] < d[k - 1]
      BY <2>10, <2>16
    <3> QED BY <2>13, <2>14, <3>1
  <2> QED BY <2>11, <2>13, <2>15, <2>16
<1>7. c \in Blocks /\ 1 <= c.first /\ c.first <= c.last /\ c.last <= n
  <2>1. a.last < b.last /\ a.first <= b.last
    BY <1>2
  <2> QED BY <1>2, <1>3, <2>1
<1>8. IsBlock(n, S, W, c)
  BY ONLY <1>5, <1>6, <1>7 DEF IsBlock
<1> QED BY ONLY <1>1, <1>8

\* Blocks side by side, from the first node to the m-th.
IsRow(n, S, W, m, bs) ==
  /\ bs \in Seq(Blocks) /\ Len(bs) >= 1
  /\ \A i \in 1..Len(bs) : IsBlock(n, S, W, bs[i])
  /\ bs[1].first = 1 /\ bs[Len(bs)].last = m
  /\ \A i \in 1..(Len(bs) - 1) : bs[i + 1].first = bs[i].last + 1

\* The first k blocks lie in the right order.
Rising(bs, k) == \A i \in 1..(k - 1) : ~Exceeds(bs[i], bs[i + 1])

LEMMA PoolOnceType ==
  ASSUME NEW bs \in Seq(Blocks)
  PROVE  /\ PoolOnce(bs) \in Seq(Blocks)
         /\ LET m == Len(bs)
                c == Block(bs[m - 1].first, bs[m].last, bs[m - 1].weight + bs[m].weight,
                           bs[m - 1].sum + bs[m].sum)
            IN  m > 1 /\ Exceeds(bs[m - 1], bs[m]) =>
                  /\ Len(PoolOnce(bs)) = m - 1 /\ PoolOnce(bs)[m - 1] = c
                  /\ \A i \in 1..(m - 2) : PoolOnce(bs)[i] = bs[i]
<1>1. PICK m \in Nat : m = Len(bs)
  OBVIOUS
<1>2. CASE ~ (m > 1 /\ Exceeds(bs[m - 1], bs[m]))
  BY <1>1, <1>2 DEF PoolOnce
<1>3. CASE m > 1 /\ Exceeds(bs[m - 1], bs[m])
  <2>1. PICK c : c = Block(bs[m - 1].first, bs[m].last, bs[m - 1].weight + bs[m].weight,
                           bs[m - 1].sum + bs[m].sum)
    OBVIOUS
  <2>2. c \in Blocks
    <3>1. bs[m - 1] \in Blocks /\ bs[m] \in Blocks
      BY <1>1, <1>3
    <3>2. /\ bs[m - 1].first \in Int /\ bs[m].last \in Int
          /\ bs[m - 1].weight + bs[m].weight \in Int /\ bs[m - 1].sum + bs[m].sum \in Int
      <4>1. PICK a \in Blocks, b \in Blocks : a = bs[m - 1] /\ b = bs[m]
        BY <3>1
      <4>2. /\ a.first \in Int /\ b.last \in Int /\ a.weight \in Int /\ b.weight \in Int
            /\ a.sum \in Int /\ b.sum \in Int
        BY DEF Blocks
      <4> QED BY ONLY <4>1, <4>2
    <3> QED BY <2>1, <3>2 DEF Block, Blocks
  <2>3. PICK s : s = SubSeq(bs, 1, m - 2)
    OBVIOUS
  <2>4. s \in Seq(Blocks) /\ Len(s) = m - 2 /\ \A i \in 1..(m - 2) : s[i] = bs[i]
    <3>1. \A i \in 1..(m - 2) : i \in 1..Len(bs) /\ bs[i] \in Blocks
      BY <1>1
    <3>2. m - 2 \in Nat /\ m - 2 <= Len(bs)
      BY <1>1, <1>3
    <3> QED BY <1>1, <2>3, <3>1, <3>2
  <2>5. PoolOnce(bs) = Append(s, c)
    BY <1>1, <1>3, <2>1, <2>3 DEF PoolOnce
  <2>6. /\ Append(s, c) \in Seq(Blocks) /\ Len(Append(s, c)) = m - 1
        /\ Append(s, c)[m - 1] = c /\ \A i \in 1..(m - 2) : Append(s, c)[i] = s[i]
    BY <1>3, <2>2, <2>4
  <2> QED BY <1>1, <2>1, <2>4, <2>5, <2>6
<1> QED BY <1>1, <1>2, <1>3

LEMMA PooledOnce ==
  ASSUME NEW n, NEW S, NEW W, Levels(n, S, W), NEW m, NEW bs, IsRow(n, S, W, m, bs),
         Rising(bs, Len(bs) - 1)
  PROVE  /\ IsRow(n, S, W, m, PoolOnce(bs)) /\ Rising(PoolOnce(bs), Len(PoolOnce(bs)) - 1)
         /\ Len(PoolOnce(bs)) = Len(bs) - 1 \/ Rising(PoolOnce(bs), Len(PoolOnce(bs)))
         /\ Rising(bs, Len(bs)) => PoolOnce(bs) = bs
<1>1. PICK k \in Nat : k = Len(bs) /\ k >= 1
  BY DEF IsRow
<1>2. CASE ~ (k > 1 /\ Exceeds(bs[k - 1], bs[k]))
  <2>1. PoolOnce(bs) = bs
    BY <1>1, <1>2 DEF PoolOnce
  <2>2. Rising(bs, k)
    <3> SUFFICES ASSUME NEW i \in 1..(k - 1) PROVE ~Exceeds(bs[i], bs[i + 1])
      BY DEF Rising
    <3>1. CASE i = k - 1
      <4>1. i + 1 = k /\ k > 1
        BY <3>1
      <4> QED BY <1>2, <3>1, <4>1
    <3>2. CASE i # k - 1
      <4>1. i \in 1..((k - 1) - 1)
        BY <3>2
      <4> QED BY <1>1, <4>1 DEF Rising
    <3> QED BY <3>1, <3>2
  <2> QED BY <1>1, <2>1, <2>2
<1>3. CASE k > 1 /\ Exceeds(bs[k - 1], bs[k])
  <2>1. PICK ps : ps = PoolOnce(bs)
    OBVIOUS
  <2>2. PICK c : c = Block(bs[k - 1].first, bs[k].last, bs[k - 1].weight + bs[k].weight,
                           bs[k - 1].sum + bs[k].sum)
    OBVIOUS
  <2>3. bs \in Seq(Blocks)
    BY DEF IsRow
  <2>4. ps \in Seq(Blocks) /\ Len(ps) = k - 1 /\ ps[k - 1] = c /\ \A i \in 1..(k - 2) : ps[i] = bs[i]
    BY <1>1, <1>3, <2>1, <2>2, <2>3, PoolOnceType
  <2>5. /\ k - 1 \in 1..k /\ k \in 1..k /\ k - 1 \in 1..(k - 1) /\ (k - 1) + 1 = k
    BY <1>3
  <2>6. bs[k].first = bs[k - 1].last + 1 /\ IsBlock(n, S, W, bs[k - 1]) /\ IsBlock(n, S, W, bs[k])
    BY <1>1, <2>5 DEF IsRow
  <2>7. IsBlock(n, S, W, c)
    BY <1>3, <2>2, <2>6, JoinedIsBlock
  <2>8. c.first = bs[k - 1].first /\ c.last = bs[k].last
    BY <2>2 DEF Block
  <2>9. IsRow(n, S, W, m, ps)
    <3>1. \A i \in 1..(k - 1) : IsBlock(n, S, W, ps[i])
      <4> TAKE i \in 1..(k - 1)
      <4>1. CASE i = k - 1
        BY <2>4, <2>7, <4>1
      <4>2. CASE i # k - 1
        <5>1. i \in 1..(k - 2) /\ i \in 1..k
          BY <4>2
        <5> QED BY <1>1, <2>4, <5>1 DEF IsRow
      <4> QED BY <4>1, <4>2
    <3>2. ps[1].first = 1
      <4>1. CASE k = 2
        <5>1. ps[1] = c /\ bs[k - 1].first = 1
          BY <1>1, <2>4, <4>1 DEF IsRow
        <5> QED BY <2>8, <5>1
      <4>2. CASE k # 2
        <5>1. 1 \in 1..(k - 2)
          BY <1>3, <4>2
        <5> QED BY <2>4, <5>1 DEF IsRow
      <4> QED BY <4>1, <4>2
    <3>3. ps[k - 1].last = m
      BY <1>1, <2>4, <2>8 DEF IsRow
    <3>4. ASSUME NEW i \in 1..((k - 1) - 1) PROVE ps[i + 1].first = ps[i].last + 1
      <4>1. i \in 1..(k - 2) /\ ps[i] = bs[i] /\ i \in 1..(k - 1)
        BY <2>4
      <4>2. bs[i + 1].first = bs[i].last + 1
        BY <1>1, <4>1 DEF IsRow
      <4>3. CASE i = k - 2
        <5>1. i + 1 = k - 1
          BY <4>3
        <5> QED BY <2>4, <2>8, <4>1, <4>2, <5>1
      <4>4. CASE i # k - 2
        <5>1. i + 1 \in 1..(k - 2)
          BY <4>1, <4>4
        <5> QED BY <2>4, <4>1, <4>2, <5>1
      <4> QED BY <4>3, <4>4
    <3>5. k - 1 >= 1
      BY <1>3
    <3> QED BY <2>4, <3>1, <3>2, <3>3, <3>4, <3>5 DEF IsRow
  <2>10. Rising(ps, Len(ps) - 1)
    <3> SUFFICES ASSUME NEW i \in 1..((k - 1) - 1 - 1) PROVE ~Exceeds(ps[i], ps[i + 1])
      BY <2>4 DEF Rising
    <3>1. i \in 1..(k - 2) /\ i + 1 \in 1..(k - 2) /\ i \in 1..((k - 1) - 1)
      OBVIOUS
    <3> QED BY <1>1, <2>4, <3>1 DEF Rising
  <2>11. ~ Rising(bs, k)
    BY <1>3, <2>5 DEF Rising
  <2> QED BY <1>1, <2>1, <2>4, <2>9, <2>10, <2>11
<1> QED BY <1>2, <1>3

\* Pool merges until no block lies in the wrong order.
LEMMA PoolInSteps ==
  ASSUME NEW bs \in Seq(Blocks)
  PROVE  \E h \in [0..Len(bs) -> Seq(Blocks)] :
           h[0] = bs /\ Pool(bs) = h[Len(bs)] /\ \A k \in 1..Len(bs) : h[k] = PoolOnce(h[k - 1])
<1>1. PICK n \in Nat : n = Len(bs)
  OBVIOUS
<1>2. PICK V : V = Seq(Blocks)
  OBVIOUS
<1>3. PICK apply : apply = [p \in (1..n) \X V |-> PoolOnce(p[2])]
  OBVIOUS
<1>4. \A i \in 1..n : \A v \in V : apply[<<i, v>>] = PoolOnce(v) /\ apply[<<i, v>>] \in V
  BY <1>2, <1>3, PoolOnceType
<1>5. PICK h \in [0..n -> V] : h[0] = bs /\ \A i \in 1..n : h[i] = apply[<<i, h[i - 1]>>]
  <2>1. bs \in V
    BY <1>2
  <2>2. StagesFrom(n, V, bs, apply) # {}
    BY ONLY <1>1, <1>4, <2>1, StagesExist
  <2> QED BY <2>2 DEF StagesFrom
<1>6. \A i \in 1..n : h[i] = PoolOnce(h[i - 1])
  <2> TAKE i \in 1..n
  <2>1. i - 1 \in 0..n
    OBVIOUS
  <2>2. h[i - 1] \in V
    BY <1>5, <2>1
  <2> QED BY <1>4, <1>5, <2>2
<1>7. h = [k \in 0..n |-> IF k = 0 THEN bs ELSE PoolOnce(h[k - 1])]
  BY <1>5, <1>6
<1>8. PICK merged : /\ merged = [k \in 0..n |-> IF k = 0 THEN bs ELSE PoolOnce(merged[k - 1])]
                    /\ Pool(bs) = merged[n]
  <2>1. PICK merged : merged = CHOOSE g : g = [k \in 0..n |-> IF k = 0 THEN bs ELSE PoolOnce(g[k - 1])]
    OBVIOUS
  <2>2. merged = [k \in 0..n |-> IF k = 0 THEN bs ELSE PoolOnce(merged[k - 1])]
    BY <1>7, <2>1
  <2>3. Pool(bs) = merged[n]
    BY <1>1, <2>1 DEF Pool
  <2> QED BY <2>2, <2>3
<1>9. \A k \in 0..n : merged[k] = h[k]
  <2>1. merged[0] = h[0] /\ \A i \in 1..n : merged[i - 1] = h[i - 1] => merged[i] = h[i]
    BY <1>5, <1>6, <1>8
  <2> QED
    <3>1. MadeAlike(n, merged, h)
      BY ONLY <2>1 DEF MadeAlike
    <3>2. Alike(n, merged, h)
      BY ONLY n \in Nat, <3>1, StagesAgree
    <3> QED BY ONLY <3>2 DEF Alike
<1>10. n \in 0..n
  BY <1>1
<1> QED BY <1>1, <1>2, <1>5, <1>6, <1>8, <1>9, <1>10

LEMMA Pooled ==
  ASSUME NEW n, NEW S, NEW W, Levels(n, S, W), NEW m, NEW bs, IsRow(n, S, W, m, bs),
         Rising(bs, Len(bs) - 1)
  PROVE  IsRow(n, S, W, m, Pool(bs)) /\ Rising(Pool(bs), Len(Pool(bs)))
<1>1. bs \in Seq(Blocks)
  BY DEF IsRow
<1>2. PICK k \in Nat : k = Len(bs)
  BY <1>1
<1>3. PICK h \in [0..k -> Seq(Blocks)] :
        h[0] = bs /\ Pool(bs) = h[k] /\ \A i \in 1..k : h[i] = PoolOnce(h[i - 1])
  BY <1>1, <1>2, PoolInSteps
<1>4. PICK Good : Good = {i \in Nat : i <= k =>
        /\ IsRow(n, S, W, m, h[i]) /\ Rising(h[i], Len(h[i]) - 1)
        /\ Len(h[i]) <= k - i \/ Rising(h[i], Len(h[i]))}
  OBVIOUS
<1>5. 0 \in Good
  <2>1. Len(h[0]) <= k - 0
    BY <1>2, <1>3
  <2> QED BY <1>3, <1>4, <2>1
<1>6. ASSUME NEW i \in Nat, i \in Good PROVE i + 1 \in Good
  <2> SUFFICES ASSUME i + 1 <= k
               PROVE  /\ IsRow(n, S, W, m, h[i + 1]) /\ Rising(h[i + 1], Len(h[i + 1]) - 1)
                      /\ Len(h[i + 1]) <= k - (i + 1) \/ Rising(h[i + 1], Len(h[i + 1]))
    BY <1>4
  <2>1. i + 1 \in 1..k /\ (i + 1) - 1 = i /\ i <= k /\ i \in 0..k
    OBVIOUS
  <2>2. /\ IsRow(n, S, W, m, h[i]) /\ Rising(h[i], Len(h[i]) - 1)
        /\ Len(h[i]) <= k - i \/ Rising(h[i], Len(h[i]))
    BY <1>4, <1>6, <2>1
  <2>3. h[i + 1] = PoolOnce(h[i]) /\ Len(h[i]) \in Nat /\ h[i + 1] \in Seq(Blocks)
    <3>1. h[i] \in Seq(Blocks) /\ h[i + 1] \in Seq(Blocks)
      BY <1>3, <2>1
    <3> QED BY <1>3, <2>1, <3>1
  <2>4. /\ IsRow(n, S, W, m, h[i + 1]) /\ Rising(h[i + 1], Len(h[i + 1]) - 1)
        /\ Len(h[i + 1]) = Len(h[i]) - 1 \/ Rising(h[i + 1], Len(h[i + 1]))
        /\ Rising(h[i], Len(h[i])) => h[i + 1] = h[i]
    <3>1. PICK g : g = h[i]
      OBVIOUS
    <3>2. /\ IsRow(n, S, W, m, PoolOnce(g)) /\ Rising(PoolOnce(g), Len(PoolOnce(g)) - 1)
          /\ Len(PoolOnce(g)) = Len(g) - 1 \/ Rising(PoolOnce(g), Len(PoolOnce(g)))
          /\ Rising(g, Len(g)) => PoolOnce(g) = g
      <4>1. IsRow(n, S, W, m, g) /\ Rising(g, Len(g) - 1)
        BY <2>2, <3>1
      <4> QED BY ONLY <4>1, Levels(n, S, W), PooledOnce
    <3> QED BY ONLY <2>3, <3>1, <3>2
  <2>5. CASE Rising(h[i], Len(h[i]))
    BY <2>4, <2>5
  <2>6. CASE Len(h[i]) <= k - i /\ Len(h[i + 1]) = Len(h[i]) - 1
    BY <2>3, <2>4, <2>6
  <2> QED BY <2>2, <2>4, <2>5, <2>6
<1>7. k \in Good
  BY <1>5, <1>6, CountingUp
<1>8. IsRow(n, S, W, m, h[k]) /\ (Len(h[k]) <= k - k \/ Rising(h[k], Len(h[k])))
  BY <1>4, <1>7
<1>9. ~ (Len(h[k]) <= k - k)
  <2>1. Len(h[k]) >= 1 /\ Len(h[k]) \in Nat
    BY <1>8 DEF IsRow
  <2> QED BY <2>1
<1> QED BY <1>3, <1>8, <1>9

-----------------------------------------------------------------------------
(* The projection.                                                         *)

\* The sums s with the positive weights w, and the sums of their beginnings.
Weighted(n, s, w, S, W) ==
  n \in Nat /\ Sums(n, s, S) /\ Sums(n, w, W) /\ \A i \in 1..n : w[i] > 0

LEMMA WeightedLevels ==
  ASSUME NEW n, NEW s, NEW w, NEW S, NEW W, Weighted(n, s, w, S, W)
  PROVE  Levels(n, S, W)
<1>1. n \in Nat /\ S \in [0..n -> Int] /\ W \in [0..n -> Int]
  BY DEF Weighted, Sums
<1>2. ASSUME NEW i \in 0..n, NEW j \in 0..n, i < j PROVE W[i] < W[j]
  <2>1. PICK Good : Good = {d \in Nat : i + d + 1 <= n => W[i] < W[i + d + 1]}
    OBVIOUS
  <2>2. ASSUME NEW k \in 1..n PROVE k - 1 \in 0..n /\ W[k - 1] \in Int /\ W[k] \in Int /\ W[k - 1] < W[k]
    <3>1. k - 1 \in 0..n /\ k \in 0..n
      BY <1>1
    <3>2. W[k] = W[k - 1] + w[k] /\ w[k] \in Int /\ w[k] > 0
      BY DEF Weighted, Sums
    <3>3. W[k - 1] \in Int /\ W[k] \in Int
      BY <1>1, <3>1
    <3> QED BY ONLY <3>1, <3>2, <3>3
  <2>3. 0 \in Good
    <3>1. ASSUME i + 0 + 1 <= n PROVE W[i] < W[i + 0 + 1]
      <4>1. i + 1 \in 1..n /\ (i + 1) - 1 = i /\ i + 0 + 1 = i + 1
        BY <1>1, <3>1
      <4> QED BY <2>2, <4>1
    <3> QED BY <2>1, <3>1
  <2>4. ASSUME NEW d \in Nat, d \in Good PROVE d + 1 \in Good
    <3>1. ASSUME i + (d + 1) + 1 <= n PROVE W[i] < W[i + (d + 1) + 1]
      <4>1. PICK k \in 1..n : k = i + (d + 1) + 1 /\ k - 1 = i + d + 1 /\ i + d + 1 <= n
        BY <1>1, <3>1
      <4>2. W[i] < W[k - 1]
        BY <2>1, <2>4, <4>1
      <4>3. W[k - 1] < W[k] /\ W[k - 1] \in Int /\ W[k] \in Int
        BY <2>2
      <4>4. W[i] \in Int
        BY <1>1
      <4> QED BY <4>1, <4>2, <4>3, <4>4
    <3> QED BY <2>1, <3>1
  <2>5. \A d \in Nat : d \in Good
    BY <2>3, <2>4, CountingUp
  <2>6. PICK d \in Nat : i + d + 1 = j
    <3>1. j - i - 1 \in Nat /\ i + (j - i - 1) + 1 = j
      BY <1>1, <1>2
    <3> QED BY <3>1
  <2>7. j <= n
    BY <1>1
  <2> QED BY <2>1, <2>5, <2>6, <2>7
<1> QED BY <1>1, <1>2 DEF Levels, Increasing

\* One node after the other is added to the blocks.
BlocksAfter(n, s, w, h) ==
  /\ h \in [0..n -> Seq(Blocks)] /\ h[0] = <<>>
  /\ \A i \in 1..n : h[i] = Pool(Append(h[i - 1], Block(i, i, w[i], s[i])))
ReadOff(n, bs) ==
  [i \in 1..n |-> (CHOOSE b \in Range(bs) : b.first <= i /\ i <= b.last).sum
                   \div (CHOOSE b \in Range(bs) : b.first <= i /\ i <= b.last).weight]

LEMMA BlocksInSteps ==
  ASSUME NEW n \in Nat, NEW s, NEW w, Len(s) = n,
         \A i \in 1..n : s[i] \in Int /\ w[i] \in Int
  PROVE  \E h : BlocksAfter(n, s, w, h) /\ IsotonicProjection(s, w) = ReadOff(n, h[n])
<1>2. PICK V : V = Seq(Blocks)
  OBVIOUS
<1>3. PICK apply : apply = [p \in (1..n) \X V |-> Pool(Append(p[2], Block(p[1], p[1], w[p[1]], s[p[1]])))]
  OBVIOUS
<1>4. ASSUME NEW i \in 1..n, NEW v \in V
      PROVE  apply[<<i, v>>] = Pool(Append(v, Block(i, i, w[i], s[i]))) /\ apply[<<i, v>>] \in V
  <2>1. apply[<<i, v>>] = Pool(Append(v, Block(i, i, w[i], s[i])))
    BY <1>3
  <2>2. Block(i, i, w[i], s[i]) \in Blocks
    <3>1. i \in Int /\ w[i] \in Int /\ s[i] \in Int
      OBVIOUS
    <3> QED BY ONLY <3>1 DEF Block, Blocks
  <2>3. Append(v, Block(i, i, w[i], s[i])) \in Seq(Blocks)
    BY <1>2, <2>2
  <2>4. Pool(Append(v, Block(i, i, w[i], s[i]))) \in Seq(Blocks)
    <3>1. PICK bs \in Seq(Blocks) : bs = Append(v, Block(i, i, w[i], s[i]))
      BY <2>3
    <3>2. PICK g \in [0..Len(bs) -> Seq(Blocks)] : Pool(bs) = g[Len(bs)]
      BY PoolInSteps
    <3>3. Len(bs) \in 0..Len(bs)
      OBVIOUS
    <3> QED BY <3>1, <3>2, <3>3
  <2> QED BY <1>2, <2>1, <2>4
<1>5. PICK h \in [0..n -> V] : h[0] = <<>> /\ \A i \in 1..n : h[i] = apply[<<i, h[i - 1]>>]
  <2>1. <<>> \in V /\ \A i \in 1..n : \A v \in V : apply[<<i, v>>] \in V
    BY <1>2, <1>4
  <2>2. StagesFrom(n, V, <<>>, apply) # {}
    BY ONLY n \in Nat, <2>1, StagesExist
  <2> QED BY <2>2 DEF StagesFrom
<1>6. \A i \in 1..n : h[i] = Pool(Append(h[i - 1], Block(i, i, w[i], s[i])))
  <2> TAKE i \in 1..n
  <2>1. i - 1 \in 0..n
    OBVIOUS
  <2>2. h[i - 1] \in V
    BY <1>5, <2>1
  <2> QED BY <1>4, <1>5, <2>2
<1>7. h = [i \in 0..n |-> IF i = 0 THEN <<>> ELSE Pool(Append(h[i - 1], Block(i, i, w[i], s[i])))]
  BY <1>5, <1>6
<1>8. PICK blocks : blocks = CHOOSE g : g = [i \in 0..n |-> IF i = 0 THEN <<>> ELSE
                                    Pool(Append(g[i - 1], Block(i, i, w[i], s[i])))]
  OBVIOUS
<1>9. blocks = [i \in 0..n |-> IF i = 0 THEN <<>> ELSE
                                    Pool(Append(blocks[i - 1], Block(i, i, w[i], s[i])))]
  BY <1>7, <1>8
<1>10. \A k \in 0..n : blocks[k] = h[k]
  <2>1. blocks[0] = h[0] /\ \A i \in 1..n : blocks[i - 1] = h[i - 1] => blocks[i] = h[i]
    BY <1>5, <1>6, <1>9
  <2> QED
    <3>1. MadeAlike(n, blocks, h)
      BY ONLY <2>1 DEF MadeAlike
    <3>2. Alike(n, blocks, h)
      BY ONLY n \in Nat, <3>1, StagesAgree
    <3> QED BY ONLY <3>2 DEF Alike
<1>11. blocks[n] = h[n]
  BY <1>10
<1>12. IsotonicProjection(s, w) = ReadOff(n, blocks[n])
  BY <1>8 DEF IsotonicProjection, ReadOff
<1>13. IsotonicProjection(s, w) = ReadOff(n, h[n])
  BY ONLY <1>11, <1>12 DEF ReadOff
<1>14. BlocksAfter(n, s, w, h)
  BY ONLY <1>2, <1>5, <1>6 DEF BlocksAfter
<1> QED BY ONLY <1>13, <1>14

\* In the end the nodes are in blocks that lie in the right order.
LEMMA RowInTheEnd ==
  ASSUME NEW n, NEW s, NEW w, NEW S, NEW W, Weighted(n, s, w, S, W), n >= 1,
         NEW h, BlocksAfter(n, s, w, h)
  PROVE  IsRow(n, S, W, n, h[n]) /\ Rising(h[n], Len(h[n]))
<1>1. n \in Nat /\ Levels(n, S, W)
  BY WeightedLevels DEF Weighted
<1>0. /\ h \in [0..n -> Seq(Blocks)] /\ h[0] = <<>>
      /\ \A i \in 1..n : h[i] = Pool(Append(h[i - 1], Block(i, i, w[i], s[i])))
  BY DEF BlocksAfter
<1>2. PICK Good : Good = {i \in Nat : i >= 1 /\ i <= n => IsRow(n, S, W, i, h[i]) /\ Rising(h[i], Len(h[i]))}
  OBVIOUS
<1>3. 0 \in Good
  BY <1>2
<1>4. ASSUME NEW i \in Nat, i \in Good PROVE i + 1 \in Good
  <2> SUFFICES ASSUME i + 1 <= n PROVE IsRow(n, S, W, i + 1, h[i + 1]) /\ Rising(h[i + 1], Len(h[i + 1]))
    BY <1>2
  <2>1. PICK k \in 1..n : k = i + 1 /\ k - 1 = i /\ i \in 0..n
    BY <1>1
  <2>2. PICK c : c = Block(k, k, w[k], s[k])
    OBVIOUS
  <2>3. IsBlock(n, S, W, c)
    <3>1. w[k] = W[k] - W[k - 1] /\ s[k] = S[k] - S[k - 1]
      <4>1. S[k] = S[k - 1] + s[k] /\ W[k] = W[k - 1] + w[k] /\ s[k] \in Int /\ w[k] \in Int
        BY DEF Weighted, Sums
      <4>2. S[k - 1] \in Int /\ W[k - 1] \in Int
        BY <2>1 DEF Weighted, Sums
      <4> QED BY ONLY <4>1, <4>2
    <3> QED BY <1>1, <2>2, <3>1, OneIsBlock
  <2>4. c \in Blocks /\ c.first = k /\ c.last = k
    BY <2>2, <2>3 DEF IsBlock, Block
  <2>5. PICK old \in Seq(Blocks) : old = h[i]
    BY <1>0, <2>1
  <2>6. PICK bs : bs = Append(old, c)
    OBVIOUS
  <2>7. PICK m \in Nat : m = Len(old)
    OBVIOUS
  <2>8. /\ bs \in Seq(Blocks) /\ Len(bs) = m + 1 /\ bs[m + 1] = c
        /\ \A j \in 1..m : bs[j] = old[j]
    BY <2>4, <2>5, <2>6, <2>7
  <2>9. IsRow(n, S, W, k, bs) /\ Rising(bs, m)
    <3>1. CASE i = 0
      <4>1. m = 0
        BY <1>0, <2>5, <2>7, <3>1
      <4>2. k = 1
        BY <2>1, <3>1
      <4>3. Rising(bs, m)
        BY <4>1 DEF Rising
      <4>4. \A j \in 1..(m + 1) : j = 1
        BY <4>1
      <4>5. m + 1 = 1 /\ \A j \in 1..((m + 1) - 1) : FALSE
        BY <4>1
      <4> QED BY <2>3, <2>4, <2>8, <4>2, <4>3, <4>4, <4>5 DEF IsRow
    <3>2. CASE i # 0
      <4>1. IsRow(n, S, W, i, old) /\ Rising(old, m) /\ m >= 1
        <5>1. i >= 1 /\ i <= n
          BY <2>1, <3>2
        <5>2. IsRow(n, S, W, i, h[i]) /\ Rising(h[i], Len(h[i]))
          BY <1>2, <1>4, <5>1
        <5> QED BY <2>5, <2>7, <5>2 DEF IsRow
      <4>2. \A j \in 1..(m + 1) : IsBlock(n, S, W, bs[j])
        <5> TAKE j \in 1..(m + 1)
        <5>1. CASE j = m + 1
          BY <2>3, <2>8, <5>1
        <5>2. CASE j # m + 1
          <6>1. j \in 1..m
            BY <5>2
          <6> QED BY <2>7, <2>8, <4>1, <6>1 DEF IsRow
        <5> QED BY <5>1, <5>2
      <4>3. bs[1].first = 1
        <5>1. 1 \in 1..m
          BY <4>1
        <5> QED BY <2>8, <4>1, <5>1 DEF IsRow
      <4>4. ASSUME NEW j \in 1..((m + 1) - 1) PROVE bs[j + 1].first = bs[j].last + 1
        <5>1. j \in 1..m /\ bs[j] = old[j]
          BY <2>8
        <5>2. CASE j = m
          <6>1. bs[j + 1] = c /\ old[j].last = i
            BY <2>7, <2>8, <4>1, <5>2 DEF IsRow
          <6> QED BY <2>1, <2>4, <5>1, <6>1
        <5>3. CASE j # m
          <6>1. j + 1 \in 1..m /\ j \in 1..(m - 1)
            BY <5>1, <5>3
          <6> QED BY <2>7, <2>8, <4>1, <5>1, <6>1 DEF IsRow
        <5> QED BY <5>2, <5>3
      <4>5. Rising(bs, m)
        <5>1. \A j \in 1..(m - 1) : j \in 1..m /\ j + 1 \in 1..m
          OBVIOUS
        <5> QED BY <2>8, <4>1, <5>1 DEF Rising
      <4>6. m + 1 >= 1
        OBVIOUS
      <4> QED BY <2>4, <2>8, <4>2, <4>3, <4>4, <4>5, <4>6 DEF IsRow
    <3> QED BY <3>1, <3>2
  <2>10. (m + 1) - 1 = m
    OBVIOUS
  <2>11. IsRow(n, S, W, k, Pool(bs)) /\ Rising(Pool(bs), Len(Pool(bs)))
    BY <1>1, <2>8, <2>9, <2>10, Pooled
  <2>12. h[k] = Pool(bs)
    BY <1>0, <2>1, <2>2, <2>5, <2>6
  <2> QED BY <2>1, <2>11, <2>12
<1>5. n \in Good
  BY <1>1, <1>3, <1>4, CountingUp
<1> QED BY <1>1, <1>2, <1>5

-----------------------------------------------------------------------------
(* What the projection is.                                                 *)

\* A place of a row of blocks is in one of them, and the blocks do not overlap.
LEMMA RowCovers ==
  ASSUME NEW n, NEW S, NEW W, n \in Nat, NEW m \in 1..n, NEW bs, IsRow(n, S, W, m, bs), NEW i \in 1..m
  PROVE  \E j \in 1..Len(bs) : bs[j].first <= i /\ i <= bs[j].last
<1>1. PICK k \in Nat : k = Len(bs) /\ k >= 1
  BY DEF IsRow
<1>2. \A j \in 1..k : bs[j].first \in Int /\ bs[j].last \in Int
  <2> TAKE j \in 1..k
  <2>1. PICK b : b = bs[j] /\ b \in Blocks
    BY <1>1 DEF IsRow, IsBlock
  <2> QED BY <2>1 DEF Blocks
<1>4. PICK Late : Late = {d \in Nat : d <= k - 1 =>
        \/ \E j \in 1..k : bs[j].first <= i /\ i <= bs[j].last
        \/ bs[d + 1].last < i}
  OBVIOUS
<1>5. 0 \in Late
  <2>1. bs[1].first = 1 /\ 0 + 1 = 1 /\ 1 \in 1..k
    BY <1>1 DEF IsRow
  <2> QED BY <1>2, <1>4, <2>1
<1>6. ASSUME NEW d \in Nat, d \in Late PROVE d + 1 \in Late
  <2> SUFFICES ASSUME d + 1 <= k - 1, ~ \E j \in 1..k : bs[j].first <= i /\ i <= bs[j].last
               PROVE  bs[(d + 1) + 1].last < i
    BY <1>4
  <2>1. d + 1 \in 1..(k - 1) /\ d + 1 \in 1..k /\ (d + 1) + 1 \in 1..k /\ d <= k - 1
    BY <1>1
  <2>2. bs[d + 1].last < i
    BY <1>4, <1>6, <2>1
  <2>3. bs[(d + 1) + 1].first = bs[d + 1].last + 1
    BY <1>1, <2>1 DEF IsRow
  <2>4. bs[(d + 1) + 1].first <= i
    BY <1>2, <2>1, <2>2, <2>3
  <2> QED BY <1>2, <2>1, <2>4
<1>7. k - 1 \in Late
  <2>1. k - 1 \in Nat
    BY <1>1
  <2> QED BY <1>5, <1>6, <2>1, CountingUp
<1>8. bs[k].last = m /\ (k - 1) + 1 = k
  BY <1>1 DEF IsRow
<1> QED BY <1>1, <1>4, <1>7, <1>8

(* The level v that the block of i keeps is kept from its beginning on to   *)
(* the end of the row; one it does not keep is not kept from the first      *)
(* place to its end.                                                       *)
LEMMA RowSplits ==
  ASSUME NEW n, NEW S, NEW W, Levels(n, S, W), NEW bs, IsRow(n, S, W, n, bs), Rising(bs, Len(bs)),
         NEW j \in 1..Len(bs), NEW v \in Int
  PROVE  /\ Level(S, W, v, bs[j].last) >= Level(S, W, v, bs[j].first - 1) =>
              \A k \in bs[j].first..n : Level(S, W, v, k) >= Level(S, W, v, bs[j].first - 1)
         /\ Level(S, W, v, bs[j].last) < Level(S, W, v, bs[j].first - 1) =>
              \A k \in 1..bs[j].last : Level(S, W, v, bs[j].last) < Level(S, W, v, k - 1)
<1>1. PICK m \in Nat : m = Len(bs) /\ m >= 1
  BY DEF IsRow
<1>2. n \in Nat
  BY DEF Levels
<1>3. PICK d : d = [i \in 0..n |-> Level(S, W, v, i)]
  OBVIOUS
<1>4. \A i \in 0..n : d[i] \in Int /\ d[i] = Level(S, W, v, i)
  <2> TAKE i \in 0..n
  <2>1. S[i] \in Int /\ W[i] \in Int
    BY DEF Levels
  <2>2. Level(S, W, v, i) \in Int
    BY <2>1 DEF Level
  <2> QED BY <1>3, <2>2
<1>5. PICK first, last : /\ first = [i \in 1..m |-> bs[i].first] /\ last = [i \in 1..m |-> bs[i].last]
  OBVIOUS
<1>6. ASSUME NEW i \in 1..m
      PROVE  /\ bs[i].first = first[i] /\ bs[i].last = last[i]
             /\ first[i] \in 1..n /\ last[i] \in 1..n /\ first[i] <= last[i]
             /\ first[i] - 1 \in 0..n /\ last[i] \in 0..n
             /\ d[last[i]] >= d[first[i] - 1] => \A k \in first[i]..last[i] : d[k] >= d[first[i] - 1]
             /\ d[last[i]] < d[first[i] - 1] => \A k \in first[i]..last[i] : d[last[i]] < d[k - 1]
  <2>1. PICK b : b = bs[i] /\ IsBlock(n, S, W, b)
    BY <1>1 DEF IsRow
  <2>2. /\ b.first = first[i] /\ b.last = last[i] /\ b.first \in Int /\ b.last \in Int
        /\ 1 <= b.first /\ b.first <= b.last /\ b.last <= n
    BY <1>5, <2>1 DEF IsBlock, Blocks
  <2>3. b.first \in 1..n /\ b.last \in 1..n /\ b.first - 1 \in 0..n /\ b.last \in 0..n
    BY <1>2, <2>2
  <2>4. \A k \in b.first..b.last : k \in 0..n /\ k - 1 \in 0..n
    BY <1>2, <2>2
  <2>5. /\ d[b.last] >= d[b.first - 1] => \A k \in b.first..b.last : d[k] >= d[b.first - 1]
        /\ d[b.last] < d[b.first - 1] => \A k \in b.first..b.last : d[b.last] < d[k - 1]
    BY <1>4, <2>1, <2>3, <2>4 DEF IsBlock
  <2> QED BY <2>1, <2>2, <2>3, <2>5
<1>7. ASSUME NEW i \in 1..(m - 1)
      PROVE  /\ i \in 1..m /\ i + 1 \in 1..m /\ first[i + 1] = last[i] + 1
             /\ d[last[i]] >= d[first[i] - 1] => d[last[i + 1]] >= d[last[i]]
  <2>1. i \in 1..m /\ i + 1 \in 1..m
    BY <1>1
  <2>2. IsBlock(n, S, W, bs[i]) /\ IsBlock(n, S, W, bs[i + 1]) /\ bs[i + 1].first = bs[i].last + 1
    BY <1>1, <2>1 DEF IsRow
  <2>3. ~Exceeds(bs[i], bs[i + 1])
    BY <1>1 DEF Rising
  <2>4. Level(S, W, v, bs[i].last) >= Level(S, W, v, bs[i].first - 1) =>
          Level(S, W, v, bs[i + 1].last) >= Level(S, W, v, bs[i + 1].first - 1)
    BY <2>2, <2>3, BlocksCompare
  <2>5. first[i + 1] = last[i] + 1 /\ first[i + 1] - 1 = last[i]
    BY <1>6, <2>1, <2>2
  <2>6. /\ bs[i].last = last[i] /\ bs[i].first - 1 = first[i] - 1 /\ first[i] - 1 \in 0..n /\ last[i] \in 0..n
        /\ bs[i + 1].last = last[i + 1] /\ bs[i + 1].first - 1 = last[i] /\ last[i + 1] \in 0..n
    BY <1>6, <2>1, <2>5
  <2>7. d[last[i]] >= d[first[i] - 1] => d[last[i + 1]] >= d[last[i]]
    BY <1>4, <2>4, <2>6
  <2> QED BY <2>1, <2>5, <2>7
<1>8. ASSUME d[last[j]] >= d[first[j] - 1], NEW k \in first[j]..n PROVE d[k] >= d[first[j] - 1]
  <2>1. PICK Up : Up = {e \in Nat : j + e <= m =>
          /\ d[last[j + e]] >= d[first[j + e] - 1] /\ d[first[j + e] - 1] >= d[first[j] - 1]
          /\ \A q \in first[j + e]..last[j + e] : d[q] >= d[first[j] - 1]}
    OBVIOUS
  <2>2. j \in 1..m
    BY <1>1
  <2>3. 0 \in Up
    <3>1. j + 0 = j
      BY <2>2
    <3>2. d[first[j] - 1] >= d[first[j] - 1]
      BY <1>4, <1>6, <2>2
    <3> QED BY <1>6, <1>8, <2>1, <2>2, <3>1, <3>2
  <2>4. ASSUME NEW e \in Nat, e \in Up PROVE e + 1 \in Up
    <3> SUFFICES ASSUME j + (e + 1) <= m
                 PROVE  /\ d[last[j + (e + 1)]] >= d[first[j + (e + 1)] - 1]
                        /\ d[first[j + (e + 1)] - 1] >= d[first[j] - 1]
                        /\ \A q \in first[j + (e + 1)]..last[j + (e + 1)] : d[q] >= d[first[j] - 1]
      BY <2>1
    <3>1. PICK i \in 1..(m - 1) : i = j + e /\ i + 1 = j + (e + 1) /\ j + e <= m
      BY <2>2
    <3>2. /\ d[last[i]] >= d[first[i] - 1] /\ d[first[i] - 1] >= d[first[j] - 1]
      BY <2>1, <2>4, <3>1
    <3>3. i \in 1..m /\ i + 1 \in 1..m /\ first[i + 1] = last[i] + 1 /\ d[last[i + 1]] >= d[last[i]]
      BY <1>7, <3>2
    <3>4. first[i + 1] - 1 = last[i]
      BY <1>6, <3>3
    <3>5. d[last[i + 1]] >= d[first[i + 1] - 1] /\ d[first[i + 1] - 1] >= d[first[j] - 1]
      <4>1. d[last[i]] \in Int /\ d[first[i] - 1] \in Int /\ d[first[j] - 1] \in Int
        BY <1>4, <1>6, <2>2, <3>3
      <4> QED BY ONLY <3>2, <3>3, <3>4, <4>1
    <3>6. ASSUME NEW q \in first[i + 1]..last[i + 1] PROVE d[q] >= d[first[j] - 1]
      <4>1. d[q] >= d[first[i + 1] - 1]
        BY <1>6, <3>3, <3>5, <3>6
      <4>2. q \in 0..n
        <5>1. first[i + 1] \in 1..n /\ last[i + 1] \in 1..n
          BY ONLY <1>6, <3>3
        <5>2. q \in first[i + 1]..last[i + 1]
          OBVIOUS
        <5> QED BY ONLY <1>2, <5>1, <5>2
      <4>3. d[q] \in Int /\ d[first[i + 1] - 1] \in Int /\ d[first[j] - 1] \in Int
        BY <1>4, <1>6, <2>2, <3>3, <4>2
      <4> QED BY ONLY <3>5, <4>1, <4>3
    <3> QED BY ONLY <3>1, <3>5, <3>6
  <2>5. PICK i \in 1..m : first[i] <= k /\ k <= last[i]
    <3>1. k \in 1..n
      BY <1>2, <1>6, <2>2
    <3>2. n \in 1..n
      BY <1>2, <3>1
    <3>3. \E i \in 1..Len(bs) : bs[i].first <= k /\ k <= bs[i].last
      BY <1>2, <3>1, <3>2, RowCovers
    <3> QED BY <1>1, <1>6, <3>3
  <2>6. i >= j
    <3> SUFFICES ASSUME i < j PROVE FALSE
      BY <2>2
    <3>1. PICK Before : Before = {e \in Nat : i + e + 1 <= m => last[i] < first[i + e + 1]}
      OBVIOUS
    <3>2. 0 \in Before
      <4>1. ASSUME i + 0 + 1 <= m PROVE last[i] < first[i + 0 + 1]
        <5>1. i \in 1..(m - 1) /\ i + 0 + 1 = i + 1
          BY <4>1
        <5>2. first[i + 1] = last[i] + 1 /\ last[i] \in Int
          BY <1>6, <1>7, <5>1
        <5> QED BY <5>1, <5>2
      <4> QED BY <3>1, <4>1
    <3>3. ASSUME NEW e \in Nat, e \in Before PROVE e + 1 \in Before
      <4>1. ASSUME i + (e + 1) + 1 <= m PROVE last[i] < first[i + (e + 1) + 1]
        <5>1. PICK p \in 1..(m - 1) : p = i + e + 1 /\ p + 1 = i + (e + 1) + 1 /\ i + e + 1 <= m
          BY <4>1
        <5>2. first[p + 1] = last[p] + 1 /\ p \in 1..m
          BY <1>7
        <5>11. first[p] \in 1..n /\ last[p] \in 1..n /\ first[p] <= last[p] /\ last[i] \in 1..n
          BY ONLY <1>6, <5>2, i \in 1..m
        <5>3. first[p] <= last[p] /\ last[p] \in Int /\ first[p] \in Int /\ last[i] \in Int
          BY ONLY <5>11
        <5>4. last[i] < first[p]
          BY <3>1, <3>3, <5>1
        <5> QED BY <5>1, <5>2, <5>3, <5>4
      <4> QED BY <3>1, <4>1
    <3>4. \A e \in Nat : e \in Before
      BY <3>2, <3>3, CountingUp
    <3>5. PICK e \in Nat : i + e + 1 = j
      <4>1. j - i - 1 \in Nat /\ i + (j - i - 1) + 1 = j
        BY <2>2
      <4> QED BY <4>1
    <3>6. last[i] < first[j]
      <4>1. last[i] < first[i + e + 1]
        <5>1. i + e + 1 <= m
          BY <2>2, <3>5
        <5> QED BY <3>1, <3>4, <5>1
      <4> QED BY <3>5, <4>1
    <3> QED BY <1>6, <2>2, <2>5, <3>6
  <2>7. PICK e \in Nat : j + e = i
    <3>1. i - j \in Nat /\ j + (i - j) = i
      BY <2>2, <2>6
    <3> QED BY <3>1
  <2>8. e \in Up
    BY <2>3, <2>4, CountingUp
  <2>9. k \in first[i]..last[i]
    BY <1>6, <2>5
  <2> QED BY <2>1, <2>7, <2>8, <2>9
<1>9. ASSUME d[last[j]] < d[first[j] - 1], NEW k \in 1..last[j] PROVE d[last[j]] < d[k - 1]
  <2>1. PICK Down : Down = {e \in Nat : j - e >= 1 =>
          /\ d[last[j - e]] < d[first[j - e] - 1] /\ d[last[j - e]] >= d[last[j]]
          /\ \A q \in first[j - e]..last[j - e] : d[last[j]] < d[q - 1]}
    OBVIOUS
  <2>2. j \in 1..m
    BY <1>1
  <2>3. 0 \in Down
    <3>1. j - 0 = j
      BY <2>2
    <3>2. d[last[j]] >= d[last[j]]
      BY <1>4, <1>6, <2>2
    <3> QED BY <1>6, <1>9, <2>1, <2>2, <3>1, <3>2
  <2>4. ASSUME NEW e \in Nat, e \in Down PROVE e + 1 \in Down
    <3> SUFFICES ASSUME j - (e + 1) >= 1
                 PROVE  /\ d[last[j - (e + 1)]] < d[first[j - (e + 1)] - 1]
                        /\ d[last[j - (e + 1)]] >= d[last[j]]
                        /\ \A q \in first[j - (e + 1)]..last[j - (e + 1)] : d[last[j]] < d[q - 1]
      BY <2>1
    <3>1. PICK i \in 1..(m - 1) : i = j - (e + 1) /\ i + 1 = j - e /\ j - e >= 1
      BY <2>2
    <3>2. /\ d[last[i + 1]] < d[first[i + 1] - 1] /\ d[last[i + 1]] >= d[last[j]]
      BY <2>1, <2>4, <3>1
    <3>3. i \in 1..m /\ i + 1 \in 1..m /\ first[i + 1] = last[i] + 1
          /\ (d[last[i]] >= d[first[i] - 1] => d[last[i + 1]] >= d[last[i]])
      BY <1>7
    <3>4. first[i + 1] - 1 = last[i]
      BY <1>6, <3>3
    <3>5. /\ d[last[i]] \in Int /\ d[first[i] - 1] \in Int /\ d[last[i + 1]] \in Int /\ d[last[j]] \in Int
      BY <1>4, <1>6, <2>2, <3>3
    <3>6. d[last[i]] < d[first[i] - 1] /\ d[last[i]] > d[last[j]]
      BY ONLY <3>2, <3>3, <3>4, <3>5
    <3>7. ASSUME NEW q \in first[i]..last[i] PROVE d[last[j]] < d[q - 1]
      <4>1. d[last[i]] < d[q - 1]
        BY <1>6, <3>3, <3>6, <3>7
      <4>2. q - 1 \in 0..n
        <5>1. first[i] \in 1..n /\ last[i] \in 1..n
          BY ONLY <1>6, <3>3
        <5>2. q \in first[i]..last[i]
          OBVIOUS
        <5> QED BY ONLY <1>2, <5>1, <5>2
      <4>3. d[q - 1] \in Int
        BY <1>4, <4>2
      <4> QED BY ONLY <3>5, <3>6, <4>1, <4>3
    <3>8. d[last[i]] >= d[last[j]]
      BY ONLY <3>5, <3>6
    <3> QED BY ONLY <3>1, <3>6, <3>7, <3>8
  <2>5. PICK i \in 1..m : first[i] <= k /\ k <= last[i]
    <3>1. k \in 1..n
      BY <1>2, <1>6, <2>2
    <3>2. n \in 1..n
      BY <1>2, <3>1
    <3>3. \E i \in 1..Len(bs) : bs[i].first <= k /\ k <= bs[i].last
      BY <1>2, <3>1, <3>2, RowCovers
    <3> QED BY <1>1, <1>6, <3>3
  <2>6. i <= j
    <3> SUFFICES ASSUME j < i PROVE FALSE
      BY <2>2
    <3>1. PICK Before : Before = {e \in Nat : j + e + 1 <= m => last[j] < first[j + e + 1]}
      OBVIOUS
    <3>2. 0 \in Before
      <4>1. ASSUME j + 0 + 1 <= m PROVE last[j] < first[j + 0 + 1]
        <5>1. j \in 1..(m - 1) /\ j + 0 + 1 = j + 1
          BY <2>2, <4>1
        <5>2. first[j + 1] = last[j] + 1 /\ last[j] \in Int
          BY <1>6, <1>7, <5>1, <2>2
        <5> QED BY <5>1, <5>2
      <4> QED BY <3>1, <4>1
    <3>3. ASSUME NEW e \in Nat, e \in Before PROVE e + 1 \in Before
      <4>1. ASSUME j + (e + 1) + 1 <= m PROVE last[j] < first[j + (e + 1) + 1]
        <5>1. PICK p \in 1..(m - 1) : p = j + e + 1 /\ p + 1 = j + (e + 1) + 1 /\ j + e + 1 <= m
          BY <2>2, <4>1
        <5>2. first[p + 1] = last[p] + 1 /\ p \in 1..m
          BY <1>7
        <5>11. first[p] \in 1..n /\ last[p] \in 1..n /\ first[p] <= last[p] /\ last[j] \in 1..n
          BY ONLY <1>6, <2>2, <5>2
        <5>3. first[p] <= last[p] /\ last[p] \in Int /\ first[p] \in Int /\ last[j] \in Int
          BY ONLY <5>11
        <5>4. last[j] < first[p]
          BY <3>1, <3>3, <5>1
        <5> QED BY <5>1, <5>2, <5>3, <5>4
      <4> QED BY <3>1, <4>1
    <3>4. \A e \in Nat : e \in Before
      BY <3>2, <3>3, CountingUp
    <3>5. PICK e \in Nat : j + e + 1 = i
      <4>1. i - j - 1 \in Nat /\ j + (i - j - 1) + 1 = i
        BY <2>2
      <4> QED BY <4>1
    <3>6. last[j] < first[i]
      <4>1. last[j] < first[j + e + 1]
        <5>1. j + e + 1 <= m
          BY <3>5
        <5> QED BY <3>1, <3>4, <5>1
      <4> QED BY <3>5, <4>1
    <3> QED BY <1>6, <2>2, <2>5, <3>6
  <2>7. PICK e \in Nat : j - e = i
    <3>1. j - i \in Nat /\ j - (j - i) = i
      BY <2>2, <2>6
    <3> QED BY <3>1
  <2>8. e \in Down
    BY <2>3, <2>4, CountingUp
  <2>9. k \in first[i]..last[i]
    BY <1>6, <2>5
  <2>10. j - e >= 1
    BY <2>7
  <2> QED BY <2>1, <2>7, <2>8, <2>9, <2>10
<1>10. j \in 1..m /\ bs[j].first = first[j] /\ bs[j].last = last[j]
  BY <1>1, <1>6
<1>11. first[j] - 1 \in 0..n /\ last[j] \in 0..n /\ first[j] \in 1..n
  BY <1>6, <1>10
<1>12. Level(S, W, v, last[j]) = d[last[j]] /\ Level(S, W, v, first[j] - 1) = d[first[j] - 1]
  BY <1>4, <1>11
<1>13. \A k \in first[j]..n : k \in 0..n
  BY <1>2, <1>11
<1>14. \A k \in 1..last[j] : k - 1 \in 0..n
  BY <1>2, <1>11
<1>15. ASSUME d[last[j]] >= d[first[j] - 1], NEW k \in first[j]..n PROVE Level(S, W, v, k) >= d[first[j] - 1]
  <2>1. Level(S, W, v, k) = d[k]
    BY <1>4, <1>13
  <2> QED BY <1>8, <1>15, <2>1
<1>16. ASSUME d[last[j]] < d[first[j] - 1], NEW k \in 1..last[j] PROVE d[last[j]] < Level(S, W, v, k - 1)
  <2>1. Level(S, W, v, k - 1) = d[k - 1]
    BY <1>4, <1>14
  <2> QED BY <1>9, <1>16, <2>1
<1> QED BY ONLY <1>10, <1>12, <1>15, <1>16

(* The value of a node is the greatest threshold that its block keeps: from *)
(* a place before it on it is kept by every run to the end, and the next    *)
(* one is missed by every run to a place behind it.                         *)
IsNearest(n, S, W, i, v) ==
  /\ v \in Int
  /\ \E p \in 1..i : \A k \in i..n : Level(S, W, v, k) >= Level(S, W, v, p - 1)
  /\ \E q \in i..n : \A j \in 1..i : Level(S, W, v + 1, q) < Level(S, W, v + 1, j - 1)

LEMMA ProjectionFacts ==
  ASSUME NEW n, NEW s, NEW w, NEW S, NEW W, Weighted(n, s, w, S, W), n >= 1, Len(s) = n
  PROVE  /\ IsotonicProjection(s, w) = [i \in 1..n |-> IsotonicProjection(s, w)[i]]
         /\ \A i \in 1..n : IsNearest(n, S, W, i, IsotonicProjection(s, w)[i])
<1>1. n \in Nat /\ Levels(n, S, W)
  BY WeightedLevels DEF Weighted
<1>2. \A i \in 1..n : s[i] \in Int /\ w[i] \in Int
  BY DEF Weighted, Sums
<1>3. PICK h : BlocksAfter(n, s, w, h) /\ IsotonicProjection(s, w) = ReadOff(n, h[n])
  BY <1>1, <1>2, BlocksInSteps
<1>4. IsRow(n, S, W, n, h[n]) /\ Rising(h[n], Len(h[n]))
  BY <1>3, RowInTheEnd
<1>5. PICK bs : bs = h[n]
  OBVIOUS
<1>6. PICK y : y = IsotonicProjection(s, w)
  OBVIOUS
<1>7. ASSUME NEW i \in 1..n PROVE IsNearest(n, S, W, i, y[i])
  <2>1. PICK b : b = CHOOSE c \in Range(bs) : c.first <= i /\ i <= c.last
    OBVIOUS
  <2>2. y[i] = b.sum \div b.weight
    BY <1>3, <1>5, <1>6, <2>1 DEF ReadOff
  <2>3. \E j \in 1..Len(bs) : bs[j].first <= i /\ i <= bs[j].last
    <3>1. n \in 1..n
      BY <1>1
    <3> QED BY <1>1, <1>4, <1>5, <3>1, RowCovers
  <2>4. b \in Range(bs) /\ b.first <= i /\ i <= b.last
    <3>1. bs \in Seq(Blocks)
      BY <1>4, <1>5 DEF IsRow
    <3>2. \E c \in Range(bs) : c.first <= i /\ i <= c.last
      BY <2>3, <3>1 DEF Range
    <3> QED BY <2>1, <3>2
  <2>5. PICK j \in 1..Len(bs) : b = bs[j]
    <3>1. bs \in Seq(Blocks)
      BY <1>4, <1>5 DEF IsRow
    <3> QED BY <2>4, <3>1 DEF Range
  <2>6. IsBlock(n, S, W, b)
    BY <1>4, <1>5, <2>5 DEF IsRow
  <2>7. PICK f \in Int, g \in Int : f = b.first /\ g = b.last /\ 1 <= f /\ f <= i /\ i <= g /\ g <= n
    BY <2>4, <2>6 DEF IsBlock, Blocks
  <2>8. f - 1 \in 0..n /\ g \in 0..n /\ f - 1 < g /\ f \in 1..i /\ g \in i..n
    BY <1>1, <2>7
  <2>9. /\ b.sum = S[g] - S[f - 1] /\ b.weight = W[g] - W[f - 1]
    BY <2>6, <2>7 DEF IsBlock
  <2>10. /\ b.sum \in Int /\ b.weight \in Int /\ b.weight > 0
         /\ \A v \in Int : (Level(S, W, v, g) >= Level(S, W, v, f - 1)) <=> (b.sum >= v * b.weight)
    <3>1. PICK x, z : x = S[g] - S[f - 1] /\ z = W[g] - W[f - 1]
      OBVIOUS
    <3>2. x \in Int /\ z \in Int /\ z > 0
      BY <1>1, <2>8, <3>1, LevelFacts
    <3>3. ASSUME NEW v \in Int
          PROVE  (Level(S, W, v, g) >= Level(S, W, v, f - 1)) <=> (x >= v * z)
      BY <1>1, <2>8, <3>1, LevelFacts
    <3> QED BY ONLY <2>9, <3>1, <3>2, <3>3
  <2>19. b.sum \div b.weight \in Int
         /\ \A u \in Int : (b.sum \div b.weight >= u) <=> (b.sum >= u * b.weight)
    BY <2>10, QuotientKeeps
  <2>11. PICK v \in Int : v = y[i] /\ (\A u \in Int : (v >= u) <=> (b.sum >= u * b.weight))
    BY ONLY <2>2, <2>19
  <2>12. Level(S, W, v, g) >= Level(S, W, v, f - 1)
    BY <2>10, <2>11
  <2>13. Level(S, W, v + 1, g) < Level(S, W, v + 1, f - 1)
    <3>1. ~ (v >= v + 1) /\ v + 1 \in Int
      OBVIOUS
    <3>2. ~ (Level(S, W, v + 1, g) >= Level(S, W, v + 1, f - 1))
      BY <2>10, <2>11, <3>1
    <3>3. Level(S, W, v + 1, g) \in Int /\ Level(S, W, v + 1, f - 1) \in Int
      BY <1>1, <2>8, <3>1, LevelFacts
    <3> QED BY ONLY <3>2, <3>3
  <2>14. \A k \in f..n : Level(S, W, v, k) >= Level(S, W, v, f - 1)
    <3>1. bs[j].first = f /\ bs[j].last = g
      BY <2>5, <2>7
    <3> QED BY <1>1, <1>4, <1>5, <2>12, <3>1, RowSplits
  <2>15. \A k \in 1..g : Level(S, W, v + 1, g) < Level(S, W, v + 1, k - 1)
    <3>1. bs[j].first = f /\ bs[j].last = g /\ v + 1 \in Int
      BY <2>5, <2>7
    <3> QED BY <1>1, <1>4, <1>5, <2>13, <3>1, RowSplits
  <2>16. \A k \in i..n : k \in f..n
    BY <2>7
  <2>17. \A k \in 1..i : k \in 1..g
    BY <2>7
  <2>18. IsNearest(n, S, W, i, v)
    BY ONLY <2>8, <2>14, <2>15, <2>16, <2>17, v \in Int DEF IsNearest
  <2> QED BY <2>11, <2>18
<1>8. y = [i \in 1..n |-> y[i]]
  BY <1>3, <1>6 DEF ReadOff
<1> QED BY <1>6, <1>7, <1>8

\* The values of the projection do not decrease.
LEMMA NearestRises ==
  ASSUME NEW n, NEW S, NEW W, Levels(n, S, W), NEW i \in 1..(n - 1), NEW v, NEW u,
         IsNearest(n, S, W, i, v), IsNearest(n, S, W, i + 1, u)
  PROVE  v <= u
<1>1. v \in Int /\ u \in Int /\ n \in Nat
  BY DEF IsNearest, Levels
<1> SUFFICES ASSUME v >= u + 1 PROVE FALSE
  BY <1>1
<1>2. PICK p \in 1..i : \A k \in i..n : Level(S, W, v, k) >= Level(S, W, v, p - 1)
  BY DEF IsNearest
<1>3. PICK q \in (i + 1)..n : \A j \in 1..(i + 1) : Level(S, W, u + 1, q) < Level(S, W, u + 1, j - 1)
  BY DEF IsNearest
<1>4. /\ q \in i..n /\ p \in 1..(i + 1) /\ p - 1 \in 0..n /\ q \in 0..n /\ p - 1 < q /\ u + 1 \in Int
  BY <1>1
<1>5. Level(S, W, v, q) >= Level(S, W, v, p - 1) /\ Level(S, W, u + 1, q) < Level(S, W, u + 1, p - 1)
  BY <1>2, <1>3, <1>4
<1>6. PICK s \in Int, w \in Int : s = S[q] - S[p - 1] /\ w = W[q] - W[p - 1] /\ w > 0
  BY <1>4, LevelFacts
<1>7. s >= v * w
  BY <1>1, <1>4, <1>5, <1>6, LevelFacts
<1>8. ~ (s >= (u + 1) * w)
  <2>1. /\ Level(S, W, u + 1, q) \in Int /\ Level(S, W, u + 1, p - 1) \in Int
        /\ (Level(S, W, u + 1, q) >= Level(S, W, u + 1, p - 1)) <=> (s >= (u + 1) * w)
    BY <1>4, <1>6, LevelFacts
  <2> QED BY <1>5, <2>1
<1>9. (u + 1) * w <= v * w
  BY <1>1, <1>4, <1>6, ProductsGrow
<1>10. PICK x \in Int, y \in Int : x = v * w /\ y = (u + 1) * w
  BY <1>1, <1>6
<1> QED BY ONLY <1>6, <1>7, <1>8, <1>9, <1>10

-----------------------------------------------------------------------------
(* A netlist.                                                              *)

LEMMA NetlistFacts ==
  ASSUME netlist \in Netlists
  PROVE  /\ Nodes = 1..Len(netlist.rank) /\ Len(netlist.rank) \in Nat /\ IsFiniteSet(Nodes)
         /\ Len(Layers) \in Nat /\ DOMAIN Layers = 1..Len(Layers)
         /\ DOMAIN Edges = 1..Len(Edges) /\ Len(Edges) \in Nat /\ IsFiniteSet(DOMAIN Edges)
         /\ DOMAIN netlist.bundles = 1..Len(netlist.bundles) /\ Len(netlist.bundles) \in Nat
         /\ IsFiniteSet(DOMAIN netlist.bundles)
<1>1. IsNetlist(netlist)
  BY NetlistsAssumption
<1>2. netlist.rank \in Seq(Nat) /\ netlist.layers \in Seq(Seq(DOMAIN netlist.rank))
  BY <1>1 DEF IsNetlist
<1>3. /\ DOMAIN netlist.edges = 1..Len(netlist.edges) /\ Len(netlist.edges) \in Nat
      /\ DOMAIN netlist.bundles = 1..Len(netlist.bundles) /\ Len(netlist.bundles) \in Nat
  BY <1>1 DEF IsNetlist
<1>4. /\ DOMAIN netlist.rank = 1..Len(netlist.rank) /\ Len(netlist.rank) \in Nat
      /\ DOMAIN netlist.layers = 1..Len(netlist.layers) /\ Len(netlist.layers) \in Nat
  BY <1>2
<1>5. \A k \in Nat : IsFiniteSet(1..k)
  BY FS_Interval, 1 \in Int
<1> QED BY <1>3, <1>4, <1>5 DEF Nodes, Layers, Edges

LEMMA NodeFacts ==
  ASSUME netlist \in Netlists, NEW n \in Nodes
  PROVE  /\ Rank(n) \in Nat /\ Rank(n) + 1 \in DOMAIN Layers
         /\ netlist.height[n] \in Int /\ netlist.width[n] \in Int
         /\ PositionIn(Layers[Rank(n) + 1], n) \in 1..Len(Layers[Rank(n) + 1])
         /\ Layers[Rank(n) + 1][PositionIn(Layers[Rank(n) + 1], n)] = n
<1>1. IsNetlist(netlist)
  BY NetlistsAssumption
<1>2. netlist.rank \in Seq(Nat) /\ netlist.layers \in Seq(Seq(DOMAIN netlist.rank))
  BY <1>1 DEF IsNetlist
<1>3. /\ netlist.width \in [DOMAIN netlist.rank -> Int] /\ netlist.height \in [DOMAIN netlist.rank -> Int]
      /\ netlist.rank[n] + 1 \in DOMAIN netlist.layers /\ n \in Range(netlist.layers[netlist.rank[n] + 1])
  BY <1>1 DEF IsNetlist, Nodes
<1>4. netlist.rank[n] \in Nat /\ n \in DOMAIN netlist.rank
  BY <1>2 DEF Nodes
<1>5. PICK layer \in Seq(DOMAIN netlist.rank) : layer = netlist.layers[netlist.rank[n] + 1]
  BY <1>2, <1>3
<1>6. DOMAIN layer = 1..Len(layer) /\ \E p \in DOMAIN layer : layer[p] = n
  BY <1>3, <1>5 DEF Range
<1>7. PositionIn(layer, n) \in 1..Len(layer) /\ layer[PositionIn(layer, n)] = n
  BY <1>6 DEF PositionIn
<1> QED BY <1>3, <1>4, <1>5, <1>7 DEF Rank, Layers

LEMMA LayerFacts ==
  ASSUME netlist \in Netlists, NEW l \in DOMAIN Layers
  PROVE  /\ Len(Layers[l]) \in Nat /\ Len(Layers[l]) >= 1 /\ DOMAIN Layers[l] = 1..Len(Layers[l])
         /\ \A p \in 1..Len(Layers[l]) :
              /\ Layers[l][p] \in Nodes /\ Rank(Layers[l][p]) + 1 = l
              /\ PositionIn(Layers[l], Layers[l][p]) = p
<1>1. IsNetlist(netlist)
  BY NetlistsAssumption
<1>2. netlist.layers \in Seq(Seq(DOMAIN netlist.rank))
  BY <1>1 DEF IsNetlist
<1>3. PICK layer \in Seq(DOMAIN netlist.rank) : layer = netlist.layers[l]
  BY <1>2 DEF Layers
<1>4. /\ layer # <<>> /\ IsInjective(layer) /\ \A p \in DOMAIN layer : netlist.rank[layer[p]] = l - 1
  BY <1>1, <1>3 DEF IsNetlist, Layers
<1>5. Len(layer) \in Nat /\ Len(layer) >= 1 /\ DOMAIN layer = 1..Len(layer)
  BY <1>3, <1>4
<1>6. l \in Int
  BY <1>2 DEF Layers
<1>7. ASSUME NEW p \in 1..Len(layer)
      PROVE  /\ layer[p] \in DOMAIN netlist.rank /\ netlist.rank[layer[p]] + 1 = l
             /\ PositionIn(layer, layer[p]) = p
  <2>1. layer[p] \in DOMAIN netlist.rank
    BY <1>3
  <2>2. netlist.rank[layer[p]] + 1 = l
    BY <1>4, <1>5, <1>6
  <2>3. \A q \in DOMAIN layer : layer[q] = layer[p] => q = p
    BY <1>4, <1>5 DEF IsInjective
  <2>4. PositionIn(layer, layer[p]) = p
    BY <1>5, <2>3 DEF PositionIn
  <2> QED BY <2>1, <2>2, <2>4
<1> QED BY <1>3, <1>5, <1>7 DEF Layers, Nodes, Rank

\* The measured gaps are numbers.
GapsAreNumbers ==
  \A l \in DOMAIN Layers : \A p \in 1..(Len(Layers[l]) - 1) : nodeGaps[l][p] \in Int

Positions == [Nodes -> [x : Int, y : Int]]

LEMMA OffsetFacts ==
  ASSUME netlist \in Netlists, GapsAreNumbers, NEW l \in DOMAIN Layers
  PROVE  /\ \A p \in 1..Len(Layers[l]) : OffsetIn(l, p) \in Int
         /\ \A p \in 1..(Len(Layers[l]) - 1) :
              OffsetIn(l, p + 1) = OffsetIn(l, p) + netlist.height[Layers[l][p]] + nodeGaps[l][p]
<1>0. Len(Layers[l]) \in Nat /\ Len(Layers[l]) >= 1
  BY LayerFacts
<1>1. PICK n \in Nat : n = Len(Layers[l]) - 1
  BY <1>0
<1>2. PICK f : f = [p \in 1..n |-> netlist.height[Layers[l][p]] + nodeGaps[l][p]]
  OBVIOUS
<1>3. ASSUME NEW p \in 1..n
      PROVE  netlist.height[Layers[l][p]] \in Int /\ nodeGaps[l][p] \in Int
             /\ f[p] = netlist.height[Layers[l][p]] + nodeGaps[l][p]
  <2>1. p \in 1..Len(Layers[l]) /\ p \in 1..(Len(Layers[l]) - 1)
    BY <1>1, LayerFacts
  <2>2. Layers[l][p] \in Nodes
    BY <2>1, LayerFacts
  <2> QED BY <1>2, <2>1, <2>2, NodeFacts DEF GapsAreNumbers
<1>4. PICK h : Sums(n, f, h)
  <2>1. \A p \in 1..n : f[p] \in Int
    BY <1>3
  <2> QED BY <2>1, SumsExist
<1>5. ASSUME NEW p \in 1..(n + 1) PROVE OffsetIn(l, p) = h[p - 1] /\ h[p - 1] \in Int
  <2>1. p - 1 \in 0..n /\ \A i \in 1..(p - 1) : i \in 1..n
    OBVIOUS
  <2>2. [i \in 1..(p - 1) |-> netlist.height[Layers[l][i]] + nodeGaps[l][i]] = [i \in 1..(p - 1) |-> f[i]]
    BY <1>3, <2>1
  <2>3. Total([i \in 1..(p - 1) |-> f[i]]) = h[p - 1]
    BY <1>4, <2>1, PrefixTotals
  <2> QED BY <1>4, <2>1, <2>2, <2>3 DEF OffsetIn, Sums
<1>6. ASSUME NEW p \in 1..n
      PROVE  OffsetIn(l, p + 1) = OffsetIn(l, p) + netlist.height[Layers[l][p]] + nodeGaps[l][p]
  <2>1. p \in 1..(n + 1) /\ p + 1 \in 1..(n + 1) /\ (p + 1) - 1 = p
    OBVIOUS
  <2>2. OffsetIn(l, p) = h[p - 1] /\ h[p - 1] \in Int /\ OffsetIn(l, p + 1) = h[p]
    BY <1>5, <2>1
  <2>3. h[p] = h[p - 1] + f[p]
    BY <1>4 DEF Sums
  <2> QED BY <1>3, <2>2, <2>3
<1>7. n + 1 = Len(Layers[l])
  BY <1>1, LayerFacts
<1> QED BY <1>1, <1>5, <1>6, <1>7

\* What is shifted by values that do not decrease keeps the gaps.
LEMMA ShiftedKeeps ==
  ASSUME netlist \in Netlists, GapsAreNumbers, NEW nodes \in Positions, InLayers(nodes),
         NEW l \in DOMAIN Layers, NEW ys,
         \A p \in 1..Len(Layers[l]) : ys[p] \in Int,
         \A p \in 1..(Len(Layers[l]) - 1) : ys[p] <= ys[p + 1]
  PROVE  Shifted(nodes, l, ys) \in Positions /\ InLayers(Shifted(nodes, l, ys))
<1>1. PICK after : after = Shifted(nodes, l, ys)
  OBVIOUS
<1>2. DOMAIN nodes = Nodes /\ \A n \in Nodes : nodes[n] \in [x : Int, y : Int]
  BY DEF Positions
<1>3. after = [n \in Nodes |->
       IF Rank(n) + 1 # l THEN nodes[n]
       ELSE [nodes[n] EXCEPT !.y = ys[PositionIn(Layers[l], n)] + OffsetIn(l, PositionIn(Layers[l], n))]]
  BY <1>1, <1>2 DEF Shifted
<1>4. ASSUME NEW n \in Nodes
      PROVE  /\ Rank(n) + 1 # l => after[n] = nodes[n]
             /\ Rank(n) + 1 = l =>
                  /\ after[n] = [nodes[n] EXCEPT !.y = ys[PositionIn(Layers[l], n)]
                                                      + OffsetIn(l, PositionIn(Layers[l], n))]
                  /\ after[n].y = ys[PositionIn(Layers[l], n)] + OffsetIn(l, PositionIn(Layers[l], n))
  <2>1. nodes[n] \in [x : Int, y : Int]
    BY <1>2
  <2> QED BY <1>3, <2>1
<1>5. ASSUME NEW n \in Nodes PROVE after[n] \in [x : Int, y : Int]
  <2>1. nodes[n] \in [x : Int, y : Int]
    BY <1>2
  <2>2. CASE Rank(n) + 1 # l
    BY <1>4, <2>1, <2>2
  <2>3. CASE Rank(n) + 1 = l
    <3>1. PositionIn(Layers[l], n) \in 1..Len(Layers[l])
      BY <2>3, NodeFacts
    <3>2. OffsetIn(l, PositionIn(Layers[l], n)) \in Int /\ ys[PositionIn(Layers[l], n)] \in Int
      BY <3>1, OffsetFacts
    <3>3. ys[PositionIn(Layers[l], n)] + OffsetIn(l, PositionIn(Layers[l], n)) \in Int
      BY <3>2
    <3> QED BY <1>4, <2>1, <2>3, <3>3
  <2> QED BY <2>2, <2>3
<1>6. after \in Positions
  BY <1>3, <1>5 DEF Positions
<1>7. ASSUME NEW k \in DOMAIN Layers, NEW p \in 1..(Len(Layers[k]) - 1)
      PROVE  after[Layers[k][p]].y + netlist.height[Layers[k][p]] + nodeGaps[k][p] <= after[Layers[k][p + 1]].y
  <2>1. p \in 1..Len(Layers[k]) /\ p + 1 \in 1..Len(Layers[k])
    BY LayerFacts
  <2>2. PICK a, b : a = Layers[k][p] /\ b = Layers[k][p + 1]
    OBVIOUS
  <2>3. a \in Nodes /\ b \in Nodes /\ Rank(a) + 1 = k /\ Rank(b) + 1 = k
        /\ PositionIn(Layers[k], a) = p /\ PositionIn(Layers[k], b) = p + 1
    BY <2>1, <2>2, LayerFacts
  <2>4. CASE k # l
    <3>1. after[a] = nodes[a] /\ after[b] = nodes[b]
      BY <1>4, <2>3, <2>4
    <3> QED BY <2>2, <3>1 DEF InLayers
  <2>5. CASE k = l
    <3>1. after[a].y = ys[p] + OffsetIn(l, p) /\ after[b].y = ys[p + 1] + OffsetIn(l, p + 1)
      BY <1>4, <2>3, <2>5
    <3>2. OffsetIn(l, p) \in Int /\ OffsetIn(l, p + 1) = OffsetIn(l, p) + netlist.height[a] + nodeGaps[l][p]
      BY <2>1, <2>2, <2>5, OffsetFacts
    <3>3. ys[p] \in Int /\ ys[p + 1] \in Int /\ ys[p] <= ys[p + 1]
      BY <2>1, <2>5
    <3>4. netlist.height[a] \in Int /\ nodeGaps[l][p] \in Int
      BY <2>3, <2>5, NodeFacts DEF GapsAreNumbers
    <3>5. ys[p] + OffsetIn(l, p) + netlist.height[a] + nodeGaps[l][p] <= ys[p + 1] + OffsetIn(l, p + 1)
      <4>1. PICK u, v, o, w, h, g : /\ u = ys[p] /\ v = ys[p + 1] /\ o = OffsetIn(l, p) /\ w = OffsetIn(l, p + 1)
                                     /\ h = netlist.height[a] /\ g = nodeGaps[l][p]
        OBVIOUS
      <4>2. {u, v, o, h, g} \subseteq Int /\ w = o + h + g /\ u <= v
        BY ONLY <3>2, <3>3, <3>4, <4>1
      <4>3. u + o + h + g <= v + w
        BY ONLY <4>2
      <4> QED BY ONLY <4>1, <4>3
    <3> QED BY <2>2, <2>5, <3>1, <3>5
  <2> QED BY <2>4, <2>5
<1>8. InLayers(after)
  BY <1>7 DEF InLayers
<1> QED BY <1>1, <1>6, <1>8

\* A projection of numbers with positive weights gives values that do not decrease.
LEMMA ProjectionRises ==
  ASSUME NEW n \in Nat, NEW s, NEW w, Len(s) = n,
         \A i \in 1..n : s[i] \in Int /\ w[i] \in Int /\ w[i] > 0
  PROVE  /\ \A i \in 1..n : IsotonicProjection(s, w)[i] \in Int
         /\ \A i \in 1..(n - 1) : IsotonicProjection(s, w)[i] <= IsotonicProjection(s, w)[i + 1]
<1>1. CASE n = 0
  BY <1>1
<1>2. CASE n # 0
  <2>1. PICK S : Sums(n, s, S)
    BY SumsExist
  <2>2. PICK W : Sums(n, w, W)
    BY SumsExist
  <2>3. Weighted(n, s, w, S, W)
    BY <2>1, <2>2 DEF Weighted
  <2>4. Levels(n, S, W)
    BY <2>3, WeightedLevels
  <2>5. PICK y : y = IsotonicProjection(s, w)
    OBVIOUS
  <2>6. \A i \in 1..n : IsNearest(n, S, W, i, y[i])
    BY <1>2, <2>3, <2>5, ProjectionFacts
  <2>7. \A i \in 1..n : y[i] \in Int
    BY <2>6 DEF IsNearest
  <2>8. ASSUME NEW i \in 1..(n - 1) PROVE y[i] <= y[i + 1]
    <3>1. i \in 1..n /\ i + 1 \in 1..n
      OBVIOUS
    <3> QED BY <2>4, <2>6, <3>1, NearestRises
  <2> QED BY <2>5, <2>7, <2>8
<1> QED BY <1>1, <1>2

-----------------------------------------------------------------------------
(* Lists in order, and what is read from them.                             *)

\* The wires that pull at a node are wires of the netlist that leave and arrive in this order.
LEMMA PullsFacts ==
  ASSUME netlist \in Netlists, NEW n
  PROVE  \E k \in Nat : /\ DOMAIN Pulls(n) = 1..k
                        /\ \A i \in 1..k : Pulls(n)[i] \in ForwardEdges
                                           /\ n \in {Edges[Pulls(n)[i]].source, Edges[Pulls(n)[i]].target}
<1>1. PICK es : es = {e \in ForwardEdges : n \in {Edges[e].source, Edges[e].target}}
  OBVIOUS
<1>2. DOMAIN Edges = 1..Len(Edges) /\ Len(Edges) \in Nat /\ IsFiniteSet(DOMAIN Edges)
  BY NetlistFacts
<1>3. es \subseteq DOMAIN Edges /\ es \subseteq Nat /\ IsFiniteSet(es)
  <2>1. es \subseteq DOMAIN Edges
    BY <1>1 DEF ForwardEdges
  <2> QED BY <1>2, <2>1, FS_Subset
<1>4. PICK k \in Nat : k = Cardinality(es)
  BY <1>3, FS_CardinalityType
<1>5. ASSUME NEW i \in 1..k
      PROVE  \E x \in es : Cardinality({y \in es : y < x}) = i - 1
  <2>1. PICK before : before = {p \in es \X es : p[1] < p[2]}
    OBVIOUS
  <2>2. \A x, y \in es : <<x, y>> \in before <=> x < y
    BY <2>1
  <2>3. /\ \A x, y, z \in es : <<x, y>> \in before /\ <<y, z>> \in before => <<x, z>> \in before
        /\ \A x \in es : <<x, x>> \notin before
        /\ \A x, y \in es : x = y \/ <<x, y>> \in before \/ <<y, x>> \in before
    BY <1>3, <2>2
  <2>4. PICK x \in es : Cardinality(AheadOf(es, before, x)) = i - 1
    BY ONLY <1>3, <1>4, <2>3, i \in 1..k, RankedElement
  <2>5. AheadOf(es, before, x) = {y \in es : y < x}
    BY <2>2 DEF AheadOf
  <2> QED BY <2>4, <2>5
<1>6. Pulls(n) = [i \in 1..k |-> CHOOSE x \in es : Cardinality({y \in es : y < x}) = i - 1]
  BY <1>1, <1>4 DEF Pulls, InOrder
<1>7. \A i \in 1..k : Pulls(n)[i] \in es
  BY <1>5, <1>6
<1>8. DOMAIN Pulls(n) = 1..k
  BY <1>6
<1> QED BY <1>1, <1>7, <1>8

\* What pulls at a node has a weight.
LEMMA PullFacts ==
  ASSUME netlist \in Netlists, placed \in Positions, NEW n \in Nodes, NEW preferred
  PROVE  /\ Pull(n, preferred).weight \in Int /\ Pull(n, preferred).weight > 0
         /\ Pull(n, preferred).sum \in Int
<1>1. IsNetlist(netlist)
  BY NetlistsAssumption
<1>2. PICK es : es = Pulls(n)
  OBVIOUS
<1>3. PICK k \in Nat : /\ DOMAIN es = 1..k
                       /\ \A i \in 1..k : es[i] \in ForwardEdges /\ n \in {Edges[es[i]].source, Edges[es[i]].target}
  BY <1>2, PullsFacts
<1>4. netlist.stability \in Nat \ {0}
  BY <1>1 DEF IsNetlist
<1>5. \A e : WeightOf(e, preferred) \in Nat /\ WeightOf(e, preferred) >= 0
  BY WeightsArePositive DEF WeightOf
<1>6. ASSUME NEW i \in 1..k PROVE PulledTo(es[i], n) \in Int
  <2>1. PICK e \in DOMAIN netlist.edges : e = es[i]
    BY <1>3 DEF ForwardEdges, Edges
  <2>2. /\ Edges[e].source \in Nodes /\ Edges[e].target \in Nodes
        /\ Edges[e].inOffset \in Int /\ Edges[e].outOffset \in Int
    BY <1>1 DEF IsNetlist, Nodes, Edges
  <2>3. placed[Edges[e].source].y \in Int /\ placed[Edges[e].target].y \in Int
    BY <2>2 DEF Positions
  <2> QED BY <2>1, <2>2, <2>3 DEF PulledTo
<1>7. PICK ws : ws = [i \in 1..k |-> WeightOf(es[i], preferred)]
  OBVIOUS
<1>8. PICK ss : ss = [i \in 1..k |-> WeightOf(es[i], preferred) * PulledTo(es[i], n)]
  OBVIOUS
<1>9. Len(ws) = k /\ \A i \in 1..k : ws[i] \in Int /\ ws[i] >= 0
  BY <1>5, <1>7
<1>10. Len(ss) = k /\ \A i \in 1..k : ss[i] \in Int
  <2>1. ASSUME NEW i \in 1..k PROVE WeightOf(es[i], preferred) * PulledTo(es[i], n) \in Int
    <3>1. PICK a \in Int, b \in Int : a = WeightOf(es[i], preferred) /\ b = PulledTo(es[i], n)
      BY <1>5, <1>6
    <3> QED BY <3>1
  <2> QED BY <1>8, <2>1
<1>11. Total(ws) \in Int /\ Total(ws) >= 0 /\ Total(ss) \in Int
  BY <1>9, <1>10, TotalIsNumber
<1>12. placed[n].y \in Int
  BY DEF Positions
<1>13. Pull(n, preferred) = [weight |-> netlist.stability + Total(ws),
                             sum |-> netlist.stability * placed[n].y + Total(ss)]
  BY <1>2, <1>3, <1>7, <1>8 DEF Pull
<1>14. netlist.stability * placed[n].y \in Int
  BY <1>4, <1>12
<1> QED BY <1>4, <1>11, <1>13, <1>14

-----------------------------------------------------------------------------
(* Preferred wires and chains.                                             *)

LEMMA LexOfFive ==
  ASSUME NEW s, NEW t, Len(s) = 5
  PROVE  LexLess(s, t) <=>
           \/ s[1] < t[1]
           \/ s[1] = t[1] /\ s[2] < t[2]
           \/ s[1] = t[1] /\ s[2] = t[2] /\ s[3] < t[3]
           \/ s[1] = t[1] /\ s[2] = t[2] /\ s[3] = t[3] /\ s[4] < t[4]
           \/ s[1] = t[1] /\ s[2] = t[2] /\ s[3] = t[3] /\ s[4] = t[4] /\ s[5] < t[5]
<1>1. /\ \A j \in 1..(1 - 1) : FALSE
      /\ \A j : j \in 1..(2 - 1) <=> j = 1
      /\ \A j : j \in 1..(3 - 1) <=> (j = 1 \/ j = 2)
      /\ \A j : j \in 1..(4 - 1) <=> (j = 1 \/ j = 2 \/ j = 3)
      /\ \A j : j \in 1..(5 - 1) <=> (j = 1 \/ j = 2 \/ j = 3 \/ j = 4)
      /\ \A i : i \in 1..5 <=> (i = 1 \/ i = 2 \/ i = 3 \/ i = 4 \/ i = 5)
  OBVIOUS
<1>2. LexLess(s, t) <=> \E i \in 1..5 : s[i] < t[i] /\ \A j \in 1..(i - 1) : s[j] = t[j]
  BY DEF LexLess
<1> QED BY ONLY <1>1, <1>2

\* The keys of edges are tuples of five numbers, the last of which is the edge.
Keyed(S, key) ==
  \A e \in S : /\ Len(key[e]) = 5 /\ key[e][5] = e
               /\ key[e][1] \in Int /\ key[e][2] \in Int /\ key[e][3] \in Int /\ key[e][4] \in Int
               /\ key[e][5] \in Int

KeysAhead(S, key, x) == {y \in S : LexLess(key[y], key[x])}

LEMMA KeyedInOrder ==
  ASSUME NEW S, IsFiniteSet(S), NEW key, Keyed(S, key), NEW i \in 1..Cardinality(S)
  PROVE  \E x \in S : Cardinality(KeysAhead(S, key, x)) = i - 1
<1>1. PICK before : before = {p \in S \X S : LexLess(key[p[1]], key[p[2]])}
  OBVIOUS
<1>2. \A x, y \in S : <<x, y>> \in before <=> LexLess(key[x], key[y])
  BY <1>1
<1>3. ASSUME NEW x \in S, NEW y \in S
      PROVE  <<x, y>> \in before <=>
           \/ key[x][1] < key[y][1]
           \/ key[x][1] = key[y][1] /\ key[x][2] < key[y][2]
           \/ key[x][1] = key[y][1] /\ key[x][2] = key[y][2] /\ key[x][3] < key[y][3]
           \/ key[x][1] = key[y][1] /\ key[x][2] = key[y][2] /\ key[x][3] = key[y][3] /\ key[x][4] < key[y][4]
           \/ key[x][1] = key[y][1] /\ key[x][2] = key[y][2] /\ key[x][3] = key[y][3] /\ key[x][4] = key[y][4]
              /\ key[x][5] < key[y][5]
  <2>1. Len(key[x]) = 5
    BY DEF Keyed
  <2> QED BY <1>2, <2>1, LexOfFive
<1>4. PICK a, b, c, d : /\ a = [x \in S |-> key[x][1]] /\ b = [x \in S |-> key[x][2]]
                        /\ c = [x \in S |-> key[x][3]] /\ d = [x \in S |-> key[x][4]]
  OBVIOUS
<1>5. \A x \in S : /\ a[x] = key[x][1] /\ b[x] = key[x][2] /\ c[x] = key[x][3] /\ d[x] = key[x][4]
                   /\ key[x][5] = x /\ a[x] \in Int /\ b[x] \in Int /\ c[x] \in Int /\ d[x] \in Int
                   /\ x \in Int
  BY <1>4 DEF Keyed
<1>6. ASSUME NEW x \in S, NEW y \in S
      PROVE  <<x, y>> \in before <=>
           \/ a[x] < a[y]
           \/ a[x] = a[y] /\ b[x] < b[y]
           \/ a[x] = a[y] /\ b[x] = b[y] /\ c[x] < c[y]
           \/ a[x] = a[y] /\ b[x] = b[y] /\ c[x] = c[y] /\ d[x] < d[y]
           \/ a[x] = a[y] /\ b[x] = b[y] /\ c[x] = c[y] /\ d[x] = d[y] /\ x < y
  BY <1>3, <1>5
<1>7. \A x \in S : <<x, x>> \notin before
  BY ONLY <1>5, <1>6
<1>8. ASSUME NEW x \in S, NEW y \in S PROVE x = y \/ <<x, y>> \in before \/ <<y, x>> \in before
  <2>1. /\ a[x] \in Int /\ a[y] \in Int /\ b[x] \in Int /\ b[y] \in Int
        /\ c[x] \in Int /\ c[y] \in Int /\ d[x] \in Int /\ d[y] \in Int /\ x \in Int /\ y \in Int
    BY <1>5
  <2>2. <<x, y>> \in before <=>
           \/ a[x] < a[y]
           \/ a[x] = a[y] /\ b[x] < b[y]
           \/ a[x] = a[y] /\ b[x] = b[y] /\ c[x] < c[y]
           \/ a[x] = a[y] /\ b[x] = b[y] /\ c[x] = c[y] /\ d[x] < d[y]
           \/ a[x] = a[y] /\ b[x] = b[y] /\ c[x] = c[y] /\ d[x] = d[y] /\ x < y
    BY <1>6
  <2>3. <<y, x>> \in before <=>
           \/ a[y] < a[x]
           \/ a[y] = a[x] /\ b[y] < b[x]
           \/ a[y] = a[x] /\ b[y] = b[x] /\ c[y] < c[x]
           \/ a[y] = a[x] /\ b[y] = b[x] /\ c[y] = c[x] /\ d[y] < d[x]
           \/ a[y] = a[x] /\ b[y] = b[x] /\ c[y] = c[x] /\ d[y] = d[x] /\ y < x
    BY <1>6
  <2> QED BY ONLY <2>1, <2>2, <2>3
<1>9. ASSUME NEW x \in S, NEW y \in S, NEW z \in S, <<x, y>> \in before, <<y, z>> \in before
      PROVE  <<x, z>> \in before
  <2>1. /\ a[x] \in Int /\ a[y] \in Int /\ a[z] \in Int /\ b[x] \in Int /\ b[y] \in Int /\ b[z] \in Int
        /\ c[x] \in Int /\ c[y] \in Int /\ c[z] \in Int /\ d[x] \in Int /\ d[y] \in Int /\ d[z] \in Int
        /\ x \in Int /\ y \in Int /\ z \in Int
    BY <1>5
  <2>2. \/ a[x] < a[y]
        \/ a[x] = a[y] /\ b[x] < b[y]
        \/ a[x] = a[y] /\ b[x] = b[y] /\ c[x] < c[y]
        \/ a[x] = a[y] /\ b[x] = b[y] /\ c[x] = c[y] /\ d[x] < d[y]
        \/ a[x] = a[y] /\ b[x] = b[y] /\ c[x] = c[y] /\ d[x] = d[y] /\ x < y
    BY <1>6, <1>9
  <2>3. \/ a[y] < a[z]
        \/ a[y] = a[z] /\ b[y] < b[z]
        \/ a[y] = a[z] /\ b[y] = b[z] /\ c[y] < c[z]
        \/ a[y] = a[z] /\ b[y] = b[z] /\ c[y] = c[z] /\ d[y] < d[z]
        \/ a[y] = a[z] /\ b[y] = b[z] /\ c[y] = c[z] /\ d[y] = d[z] /\ y < z
    BY <1>6, <1>9
  <2>4. \/ a[x] < a[z]
        \/ a[x] = a[z] /\ b[x] < b[z]
        \/ a[x] = a[z] /\ b[x] = b[z] /\ c[x] < c[z]
        \/ a[x] = a[z] /\ b[x] = b[z] /\ c[x] = c[z] /\ d[x] < d[z]
        \/ a[x] = a[z] /\ b[x] = b[z] /\ c[x] = c[z] /\ d[x] = d[z] /\ x < z
    BY ONLY <2>1, <2>2, <2>3
  <2> QED BY <1>6, <2>4
<1>10. PICK x \in S : Cardinality(AheadOf(S, before, x)) = i - 1
  BY <1>7, <1>8, <1>9, RankedElement
<1>11. AheadOf(S, before, x) = KeysAhead(S, key, x)
  BY <1>2 DEF AheadOf, KeysAhead
<1> QED BY <1>10, <1>11

\* The wires taken so far, and the next one unless one of its nodes has one that way.
TakenAfter(v, e) ==
  IF \E f \in v : Edges[f].source = Edges[e].source \/ Edges[f].target = Edges[e].target
  THEN v ELSE v \cup {e}

PreferredOrder ==
  LET key == [e \in AdjacentEdges |-> PreferenceKey(e)]
  IN InOrder(AdjacentEdges, LAMBDA a, b : LexLess(key[a], key[b]))

LEMMA PreferredAreEdges ==
  ASSUME netlist \in Netlists
  PROVE  PreferredEdges \subseteq DOMAIN Edges
<1>1. IsNetlist(netlist)
  BY NetlistsAssumption
<1>2. /\ DOMAIN Edges = 1..Len(Edges) /\ Len(Edges) \in Nat /\ IsFiniteSet(DOMAIN Edges)
      /\ Nodes = 1..Len(netlist.rank) /\ Len(netlist.rank) \in Nat
  BY NetlistFacts
<1>3. PICK S : S = AdjacentEdges
  OBVIOUS
<1>4. S \subseteq DOMAIN Edges /\ IsFiniteSet(S)
  BY <1>2, <1>3, FS_Subset DEF AdjacentEdges
<1>5. PICK key : key = [e \in S |-> PreferenceKey(e)]
  OBVIOUS
<1>6. Keyed(S, key)
  <2>1. ASSUME NEW e \in S
        PROVE  /\ Len(key[e]) = 5 /\ key[e][5] = e
               /\ key[e][1] \in Int /\ key[e][2] \in Int /\ key[e][3] \in Int /\ key[e][4] \in Int
               /\ key[e][5] \in Int
    <3>1. PICK out \in Nat, in \in Nat : out = Outgoing(Edges[e].source) /\ in = Incoming(Edges[e].target)
      <4>1. ASSUME NEW n PROVE Outgoing(n) \in Nat /\ Incoming(n) \in Nat
        <5>1. IsFiniteSet({f \in AdjacentEdges : Edges[f].source = n})
              /\ IsFiniteSet({f \in AdjacentEdges : Edges[f].target = n})
          BY <1>3, <1>4, FS_Subset
        <5> QED BY <5>1, FS_CardinalityType DEF Outgoing, Incoming
      <4> QED BY <4>1
    <3>2. Edges[e].source \in Int /\ Edges[e].target \in Int /\ e \in Int
      <4>1. e \in DOMAIN netlist.edges /\ e \in Int
        BY <1>2, <1>4 DEF Edges
      <4>2. Edges[e].source \in Nodes /\ Edges[e].target \in Nodes
        BY <1>1, <4>1 DEF IsNetlist, Nodes, Edges
      <4> QED BY <1>2, <4>1, <4>2
    <3>3. key[e] = <<out * in, out + in, Edges[e].source, Edges[e].target, e>>
      BY <1>5, <3>1 DEF PreferenceKey
    <3>4. out * in \in Int /\ out + in \in Int
      OBVIOUS
    <3> QED BY <3>2, <3>3, <3>4
  <2> QED BY <2>1 DEF Keyed
<1>7. PICK n \in Nat : n = Cardinality(S)
  BY <1>4, FS_CardinalityType
<1>8. PICK order : order = [i \in 1..n |-> CHOOSE x \in S : Cardinality(KeysAhead(S, key, x)) = i - 1]
  OBVIOUS
<1>9. Len(order) = n /\ \A i \in 1..n : order[i] \in S
  <2>1. ASSUME NEW i \in 1..n PROVE order[i] \in S
    <3>1. \E x \in S : Cardinality(KeysAhead(S, key, x)) = i - 1
      BY ONLY <1>4, <1>6, <1>7, i \in 1..n, KeyedInOrder
    <3> QED BY <1>8, <3>1
  <2> QED BY <1>8, <2>1
<1>10. PreferredOrder = order
  BY <1>3, <1>5, <1>7, <1>8 DEF PreferredOrder, InOrder, KeysAhead
<1>11. PICK V : V = SUBSET S
  OBVIOUS
<1>12. PICK apply : apply = [p \in (1..n) \X V |-> TakenAfter(p[2], order[p[1]])]
  OBVIOUS
<1>13. ASSUME NEW i \in 1..n, NEW v \in V
       PROVE  apply[<<i, v>>] = TakenAfter(v, order[i]) /\ apply[<<i, v>>] \in V
  <2>1. apply[<<i, v>>] = TakenAfter(v, order[i])
    BY <1>12
  <2>2. v \cup {order[i]} \in V
    BY <1>9, <1>11
  <2> QED BY <2>1, <2>2 DEF TakenAfter
<1>14. PICK h \in [0..n -> V] : h[0] = {} /\ \A i \in 1..n : h[i] = apply[<<i, h[i - 1]>>]
  <2>1. {} \in V /\ \A i \in 1..n : \A v \in V : apply[<<i, v>>] \in V
    BY <1>11, <1>13
  <2>2. StagesFrom(n, V, {}, apply) # {}
    BY ONLY n \in Nat, <2>1, StagesExist
  <2> QED BY <2>2 DEF StagesFrom
<1>15. h = [i \in 0..n |-> IF i = 0 THEN {} ELSE TakenAfter(h[i - 1], order[i])]
  <2>1. ASSUME NEW i \in 1..n PROVE h[i] = TakenAfter(h[i - 1], order[i])
    <3>1. h[i - 1] \in V
      BY <1>14
    <3> QED BY <1>13, <1>14, <3>1
  <2> QED BY <1>14, <2>1
<1>16. PICK taken : taken = CHOOSE g :
            g = [i \in 0..n |-> IF i = 0 THEN {} ELSE TakenAfter(g[i - 1], order[i])]
  OBVIOUS
<1>17. taken = [i \in 0..n |-> IF i = 0 THEN {} ELSE TakenAfter(taken[i - 1], order[i])]
  BY <1>15, <1>16
<1>18. taken[n] = h[n]
  <2>1. taken[0] = h[0] /\ \A i \in 1..n : taken[i - 1] = h[i - 1] => taken[i] = h[i]
    <3>1. ASSUME NEW i \in 1..n
          PROVE  taken[i] = TakenAfter(taken[i - 1], order[i]) /\ h[i] = TakenAfter(h[i - 1], order[i])
      <4>1. i \in 0..n /\ i # 0
        OBVIOUS
      <4>2. taken[i] = TakenAfter(taken[i - 1], order[i])
        BY ONLY <1>17, <4>1
      <4>3. h[i] = TakenAfter(h[i - 1], order[i])
        BY ONLY <1>15, <4>1
      <4> QED BY ONLY <4>2, <4>3
    <3>2. taken[0] = {} /\ h[0] = {}
      BY ONLY <1>15, <1>17, n \in Nat
    <3> QED BY ONLY <3>1, <3>2
  <2>2. \A i \in 0..n : taken[i] = h[i]
    <3>1. MadeAlike(n, taken, h)
      BY ONLY <2>1 DEF MadeAlike
    <3>2. Alike(n, taken, h)
      BY ONLY n \in Nat, <3>1, StagesAgree
    <3> QED BY ONLY <3>2 DEF Alike
  <2> QED BY <2>2
<1>19. PreferredEdges = taken[n]
  <2>1. PreferredEdges = (CHOOSE g : g = [i \in 0..Len(PreferredOrder) |->
                              IF i = 0 THEN {} ELSE TakenAfter(g[i - 1], PreferredOrder[i])])[Len(PreferredOrder)]
    BY ONLY TRUE DEF PreferredEdges, PreferredOrder, TakenAfter
  <2> QED BY ONLY <1>9, <1>10, <1>16, <2>1
<1>20. h[n] \in V
  BY <1>14
<1> QED BY <1>4, <1>11, <1>18, <1>19, <1>20

\* A chain, and the wire that leaves its end.
ChainAfter(preferred, c) ==
  LET from == {e \in preferred : Edges[e].source = c[Len(c)].node}
  IN IF from = {} THEN c
     ELSE LET e == CHOOSE f \in from : TRUE
          IN Append(c, [node |-> Edges[e].target, edge |-> e,
                        y |-> c[Len(c)].y + Edges[e].outOffset - Edges[e].inOffset])

Links == [node : Nodes, y : Int, edge : Nat]

\* A chain is made of nodes at numbers of its own.
LEMMA ChainFacts ==
  ASSUME netlist \in Netlists, NEW preferred, preferred \subseteq DOMAIN Edges, NEW start \in Nodes
  PROVE  Chain(preferred, start) \in Seq(Links) /\ Len(Chain(preferred, start)) >= 1
<1>1. IsNetlist(netlist)
  BY NetlistsAssumption
<1>2. /\ DOMAIN Edges = 1..Len(Edges) /\ Len(Edges) \in Nat
  BY NetlistFacts
<1>3. PICK n \in Nat : n = Len(Layers)
  BY NetlistFacts
<1>4. PICK V : V = {c \in Seq(Links) : Len(c) >= 1}
  OBVIOUS
<1>5. PICK apply : apply = [p \in (1..n) \X V |-> ChainAfter(preferred, p[2])]
  OBVIOUS
<1>6. ASSUME NEW i \in 1..n, NEW c \in V
      PROVE  apply[<<i, c>>] = ChainAfter(preferred, c) /\ apply[<<i, c>>] \in V
  <2>0. apply[<<i, c>>] = ChainAfter(preferred, c)
    BY <1>5
  <2>1. PICK from : from = {e \in preferred : Edges[e].source = c[Len(c)].node}
    OBVIOUS
  <2>2. PICK e : e = CHOOSE f \in from : TRUE
    OBVIOUS
  <2>3. PICK link : link = [node |-> Edges[e].target, edge |-> e,
                            y |-> c[Len(c)].y + Edges[e].outOffset - Edges[e].inOffset]
    OBVIOUS
  <2>4. ChainAfter(preferred, c) = IF from = {} THEN c ELSE Append(c, link)
    BY <2>1, <2>2, <2>3 DEF ChainAfter
  <2>5. from # {} => Append(c, link) \in V
    <3> SUFFICES ASSUME from # {} PROVE Append(c, link) \in V
      OBVIOUS
    <3>1. e \in DOMAIN netlist.edges /\ e \in Nat
      BY <1>2, <2>1, <2>2 DEF Edges
    <3>2. Edges[e].target \in Nodes /\ Edges[e].outOffset \in Int /\ Edges[e].inOffset \in Int
      BY <1>1, <3>1 DEF IsNetlist, Nodes, Edges
    <3>3. c \in Seq(Links) /\ Len(c) \in 1..Len(c)
      BY <1>4
    <3>4. c[Len(c)] \in Links
      BY <3>3
    <3>5. c[Len(c)].y \in Int
      BY <3>4 DEF Links
    <3>6. link \in Links
      BY <2>3, <3>1, <3>2, <3>5 DEF Links
    <3> QED BY <1>4, <3>3, <3>6
  <2> QED BY <2>0, <2>4, <2>5
<1>7. PICK base : base = <<[node |-> start, y |-> 0, edge |-> 0]>>
  OBVIOUS
<1>8. base \in V
  <2>1. [node |-> start, y |-> 0, edge |-> 0] \in Links
    BY DEF Links
  <2> QED BY <1>4, <1>7, <2>1
<1>9. PICK h \in [0..n -> V] : h[0] = base /\ \A i \in 1..n : h[i] = apply[<<i, h[i - 1]>>]
  <2>1. \A i \in 1..n : \A v \in V : apply[<<i, v>>] \in V
    BY <1>6
  <2>2. StagesFrom(n, V, base, apply) # {}
    BY ONLY n \in Nat, <1>8, <2>1, StagesExist
  <2> QED BY <2>2 DEF StagesFrom
<1>10. h = [k \in 0..n |-> IF k = 0 THEN base ELSE ChainAfter(preferred, h[k - 1])]
  <2>1. /\ \A k \in 1..n : k - 1 \in 0..n
        /\ \A k \in 0..n : k # 0 => k \in 1..n
    BY ONLY n \in Nat
  <2>2. ASSUME NEW k \in 1..n PROVE h[k] = ChainAfter(preferred, h[k - 1])
    <3>1. h[k - 1] \in V
      BY ONLY <1>9, <2>1, <2>2
    <3> QED BY ONLY <1>6, <1>9, <2>2, <3>1
  <2>3. \A k \in 0..n : h[k] = IF k = 0 THEN base ELSE ChainAfter(preferred, h[k - 1])
    BY ONLY <1>9, <2>1, <2>2
  <2>4. h = [k \in 0..n |-> h[k]]
    BY ONLY <1>9
  <2> QED BY ONLY <2>3, <2>4
<1>11. PICK grown : grown = CHOOSE g :
          g = [k \in 0..n |-> IF k = 0 THEN base ELSE ChainAfter(preferred, g[k - 1])]
  OBVIOUS
<1>12. grown = [k \in 0..n |-> IF k = 0 THEN base ELSE ChainAfter(preferred, grown[k - 1])]
  BY <1>10, <1>11
<1>13. grown[n] = h[n]
  <2>1. grown[0] = h[0] /\ \A i \in 1..n : grown[i - 1] = h[i - 1] => grown[i] = h[i]
    BY <1>10, <1>12
  <2>2. \A i \in 0..n : grown[i] = h[i]
    <3>1. MadeAlike(n, grown, h)
      BY ONLY <2>1 DEF MadeAlike
    <3>2. Alike(n, grown, h)
      BY ONLY n \in Nat, <3>1, StagesAgree
    <3> QED BY ONLY <3>2 DEF Alike
  <2> QED BY <2>2
<1>14. Chain(preferred, start) = grown[n]
  BY <1>3, <1>7, <1>11 DEF Chain, ChainAfter
<1>15. h[n] \in V
  BY <1>9
<1> QED BY <1>4, <1>13, <1>14, <1>15

-----------------------------------------------------------------------------
(* What is measured are numbers.                                           *)

LEMMA OptionFacts ==
  ASSUME netlist \in Netlists
  PROVE  /\ Options.layerGap \in Int /\ Options.nodeGap \in Int /\ Options.stub \in Int
         /\ Options.laneGap \in Int /\ Options.clearance \in Int /\ Options.spacing \in Int
         /\ LaneGap \in Int /\ LayerGap \in Int /\ BaseGap \in Int /\ WideGap \in Int /\ RailDepth \in Int
<1>1. IsNetlist(netlist)
  BY NetlistsAssumption
<1>2. Options \in [layerGap : Int, nodeGap : Int, stub : Int, laneGap : Int, clearance : Int, spacing : Int]
  BY <1>1 DEF IsNetlist, Options
<1>3. /\ Options.layerGap \in Int /\ Options.nodeGap \in Int /\ Options.stub \in Int
      /\ Options.laneGap \in Int /\ Options.clearance \in Int /\ Options.spacing \in Int
  BY <1>2
<1>4. LaneGap \in Int
  BY <1>3 DEF LaneGap, Most
<1>5. 2 * Options.clearance + LaneGap \in Int /\ Options.clearance + LaneGap \in Int
      /\ Options.stub + LaneGap \in Int
  BY <1>3, <1>4
<1>6. LayerGap \in Int /\ BaseGap \in Int /\ WideGap \in Int /\ RailDepth \in Int
  BY <1>3, <1>5 DEF LayerGap, BaseGap, WideGap, RailDepth, Most
<1> QED BY <1>3, <1>4, <1>6

LEMMA BundleFacts ==
  ASSUME netlist \in Netlists, NEW b \in DOMAIN netlist.bundles
  PROVE  /\ netlist.bundles[b].node \in Nodes
         /\ netlist.bundles[b].lanes \in Int /\ netlist.bundles[b].depth \in Int
         /\ netlist.bundles[b].offset \in Int /\ HalfSpan(netlist.bundles[b]) \in Int
<1>1. IsNetlist(netlist)
  BY NetlistsAssumption
<1>2. /\ netlist.bundles[b].node \in Nodes
      /\ netlist.bundles[b].lanes \in Int /\ netlist.bundles[b].depth \in Int
      /\ netlist.bundles[b].offset \in Int
  BY <1>1 DEF IsNetlist, Nodes
<1>3. PICK k \in Int, g \in Int : k = Most(netlist.bundles[b].lanes - 1, 0) /\ g = LaneGap
  <2>1. netlist.bundles[b].lanes - 1 \in Int
    BY <1>2
  <2>2. Most(netlist.bundles[b].lanes - 1, 0) \in Int
    BY <2>1 DEF Most
  <2> QED BY <2>2, OptionFacts
<1>4. k * g \in Int
  OBVIOUS
<1>5. PICK z \in Int : z = k * g
  BY <1>4
<1>6. z \div 2 \in Int
  OBVIOUS
<1> QED BY <1>2, <1>3, <1>5, <1>6 DEF HalfSpan

LEMMA WidthFacts ==
  ASSUME netlist \in Netlists, NEW rank
  PROVE  Width(rank) \in Int
<1>1. PICK S : S = {m \in Nodes : Rank(m) = rank}
  OBVIOUS
<1>2. IsFiniteSet(S) /\ S \subseteq Nodes
  BY <1>1, NetlistFacts, FS_Subset
<1>3. PICK T : T = {0} \cup {netlist.width[n] : n \in S}
  OBVIOUS
<1>4. \A x \in S : netlist.width[x] \in Int
  BY <1>2, NodeFacts
<1>5. Largest(T) \in Int
  <2>1. PICK f : f = [x \in S |-> netlist.width[x]]
    OBVIOUS
  <2>2. (\A x \in S : f[x] \in Int) /\ T = {0} \cup Values(f, S)
    BY <1>3, <1>4, <2>1 DEF Values
  <2> QED BY <1>2, <2>2, LargestWith
<1> QED BY <1>1, <1>3, <1>5 DEF Width

LEMMA EnvelopeFacts ==
  ASSUME netlist \in Netlists, NEW n \in Nodes
  PROVE  Above(n) \in Int /\ Below(n) \in Int
<1>1. PICK S : S = BundlesOf(n)
  OBVIOUS
<1>2. IsFiniteSet(S) /\ S \subseteq DOMAIN netlist.bundles
  BY <1>1, NetlistFacts, FS_Subset DEF BundlesOf
<1>3. PICK f : f = [b \in S |-> HalfSpan(netlist.bundles[b]) - netlist.bundles[b].offset]
  OBVIOUS
<1>4. PICK g : g = [b \in S |-> netlist.bundles[b].offset + HalfSpan(netlist.bundles[b]) - netlist.height[n]]
  OBVIOUS
<1>5. ASSUME NEW b \in S
      PROVE  /\ f[b] = HalfSpan(netlist.bundles[b]) - netlist.bundles[b].offset /\ f[b] \in Int
             /\ g[b] = netlist.bundles[b].offset + HalfSpan(netlist.bundles[b]) - netlist.height[n]
             /\ g[b] \in Int
  <2>1. netlist.bundles[b].offset \in Int /\ HalfSpan(netlist.bundles[b]) \in Int /\ netlist.height[n] \in Int
    BY <1>2, BundleFacts, NodeFacts
  <2> QED BY <1>3, <1>4, <2>1
<1>6. PICK T : T = {0} \cup Values(f, S)
  OBVIOUS
<1>7. PICK U : U = {0} \cup Values(g, S)
  OBVIOUS
<1>8. Largest(T) \in Int /\ Largest(U) \in Int
  <2>1. (\A b \in S : f[b] \in Int) /\ (\A b \in S : g[b] \in Int) /\ 0 \in Int
    BY <1>5
  <2>2. Largest(T) \in Int
    BY ONLY <1>2, <1>6, <2>1, LargestWith
  <2>3. Largest(U) \in Int
    BY ONLY <1>2, <1>7, <2>1, LargestWith
  <2> QED BY <2>2, <2>3
<1>9. Above(n) = Largest(T)
  <2>1. T = {0} \cup {HalfSpan(netlist.bundles[b]) - netlist.bundles[b].offset : b \in BundlesOf(n)}
    BY <1>1, <1>5, <1>6 DEF Values
  <2> QED BY <2>1 DEF Above
<1>10. Below(n) = Largest(U)
  <2>1. U = {0} \cup {netlist.bundles[b].offset + HalfSpan(netlist.bundles[b])
                                 - netlist.height[n] : b \in BundlesOf(n)}
    BY <1>1, <1>5, <1>7 DEF Values
  <2> QED BY <2>1 DEF Below
<1> QED BY <1>8, <1>9, <1>10

MeasuredNodeGaps ==
  [l \in DOMAIN Layers |-> [p \in 1..(Len(Layers[l]) - 1) |-> NodeGap(l - 1, p)]]

LEMMA NodeGapsAreNumbers ==
  ASSUME netlist \in Netlists, nodeGaps = MeasuredNodeGaps
  PROVE  GapsAreNumbers
<1> SUFFICES ASSUME NEW l \in DOMAIN Layers, NEW p \in 1..(Len(Layers[l]) - 1) PROVE nodeGaps[l][p] \in Int
  BY DEF GapsAreNumbers
<1>1. nodeGaps[l][p] = NodeGap(l - 1, p)
  BY DEF MeasuredNodeGaps
<1>2. p \in 1..Len(Layers[l]) /\ p + 1 \in 1..Len(Layers[l]) /\ (l - 1) + 1 = l
  BY LayerFacts, NetlistFacts
<1>3. PICK a \in Nodes, b \in Nodes : a = Layers[l][p] /\ b = Layers[l][p + 1]
  BY <1>2, LayerFacts
<1>4. Below(a) \in Int /\ Above(b) \in Int
  BY EnvelopeFacts
<1>5. Envelope(a, b) \in Int
  <2>1. Most(Options.clearance, Options.spacing) \in Int
    BY OptionFacts DEF Most
  <2>2. Below(a) + Above(b) + Most(Options.clearance, Options.spacing) \in Int
    BY <1>4, <2>1
  <2> QED BY <2>2, OptionFacts DEF Envelope, Most
<1>6. Most(BaseGap, Envelope(a, b)) \in Int /\ WideGap \in Int
  BY <1>5, OptionFacts DEF Most
<1>7. NodeGap(l - 1, p) \in {WideGap, Most(BaseGap, Envelope(a, b))}
  BY <1>2, <1>3 DEF NodeGap
<1> QED BY <1>1, <1>6, <1>7

LEMMA HeightFacts ==
  ASSUME netlist \in Netlists, GapsAreNumbers
  PROVE  /\ \A l \in DOMAIN Layers : Height(l) \in Int
         /\ Nodes # {} => CanvasHeight \in Int
<1>1. ASSUME NEW l \in DOMAIN Layers PROVE Height(l) \in Int
  <2>1. Len(Layers[l]) \in 1..Len(Layers[l])
    BY LayerFacts
  <2>2. Layers[l][Len(Layers[l])] \in Nodes
    BY <2>1, LayerFacts
  <2>3. netlist.height[Layers[l][Len(Layers[l])]] \in Int /\ OffsetIn(l, Len(Layers[l])) \in Int
    BY <2>1, <2>2, NodeFacts, OffsetFacts
  <2> QED BY <2>3 DEF Height
<1>2. ASSUME Nodes # {} PROVE CanvasHeight \in Int
  <2>1. PICK n \in Nodes : TRUE
    BY <1>2
  <2>2. DOMAIN Layers # {}
    BY <2>1, NodeFacts
  <2>3. PICK f : f = [l \in DOMAIN Layers |-> Height(l)]
    OBVIOUS
  <2>4. PICK T : T = {f[l] : l \in DOMAIN Layers}
    OBVIOUS
  <2>5. T = {Height(l) : l \in DOMAIN Layers}
    BY <2>3, <2>4
  <2>6. IsFiniteSet(DOMAIN Layers)
    <3>1. DOMAIN Layers = 1..Len(Layers) /\ Len(Layers) \in Nat
      BY NetlistFacts
    <3> QED BY <3>1, FS_Interval, 1 \in Int
  <2>7. IsFiniteSet(T)
    BY <2>4, <2>6, ImageIsFinite
  <2>8. T \subseteq Int /\ T # {}
    BY <1>1, <2>2, <2>5
  <2>9. Largest(T) \in Int
    BY <2>7, <2>8, LargestFacts
  <2> QED BY <2>5, <2>9 DEF CanvasHeight
<1> QED BY <1>1, <1>2

-----------------------------------------------------------------------------
(* Gaps between layers.                                                    *)

\* Two sets of numbers each of which exceeds no other have one greatest number.
LEMMA SameLargest ==
  ASSUME NEW T, T \subseteq Int, IsFiniteSet(T), T # {}, NEW U, U \subseteq Int, IsFiniteSet(U), U # {},
         \A x \in T : \E y \in U : x <= y, \A y \in U : \E x \in T : y <= x
  PROVE  Largest(T) = Largest(U)
<1>1. PICK a \in Int : a = Largest(T) /\ a \in T /\ \A x \in T : x <= a
  BY LargestFacts
<1>2. PICK b \in Int : b = Largest(U) /\ b \in U /\ \A y \in U : y <= b
  BY LargestFacts
<1>3. PICK y \in U : a <= y
  BY <1>1
<1>4. PICK x \in T : b <= x
  BY <1>2
<1>5. y <= b /\ x <= a /\ y \in Int /\ x \in Int
  BY <1>1, <1>2
<1> QED BY <1>1, <1>2, <1>3, <1>4, <1>5

Nets == {Edges[e].net : e \in ForwardEdges}

\* The nets that are in a gap, and those that begin and end there.
On(g) == {n \in Nets : g \in Covered(SpansOf(n))}
Starting(g) == {n \in Nets : g \in MergedBounds(SpansOf(n)).starts}
Ending(g) == {n \in Nets : g \in MergedBounds(SpansOf(n)).ends}

LEMMA ForwardFacts ==
  ASSUME netlist \in Netlists
  PROVE  /\ IsFiniteSet(Nets)
         /\ \A e \in ForwardEdges : /\ Edges[e].source \in Nodes /\ Edges[e].target \in Nodes
                                    /\ Rank(Edges[e].source) \in Nat /\ Rank(Edges[e].target) \in Nat
<1>1. IsNetlist(netlist)
  BY NetlistsAssumption
<1>2. IsFiniteSet(ForwardEdges) /\ ForwardEdges \subseteq DOMAIN netlist.edges
  BY NetlistFacts, FS_Subset DEF ForwardEdges, Edges
<1>3. PICK f : f = [e \in ForwardEdges |-> Edges[e].net]
  OBVIOUS
<1>4. Nets = {f[e] : e \in ForwardEdges}
  BY <1>3 DEF Nets
<1>5. IsFiniteSet(Nets)
  BY <1>2, <1>4, ImageIsFinite
<1>6. ASSUME NEW e \in ForwardEdges
      PROVE  /\ Edges[e].source \in Nodes /\ Edges[e].target \in Nodes
             /\ Rank(Edges[e].source) \in Nat /\ Rank(Edges[e].target) \in Nat
  <2>1. Edges[e].source \in Nodes /\ Edges[e].target \in Nodes
    BY <1>1, <1>2 DEF IsNetlist, Nodes, Edges
  <2> QED BY <2>1, NodeFacts
<1> QED BY <1>5, <1>6

\* A net is in a gap when a wire that counts for the order of layers passes it.
LEMMA CoveredFacts ==
  ASSUME netlist \in Netlists, NEW n, NEW g \in Int
  PROVE  /\ g \in Covered(SpansOf(n)) <=>
              \E e \in ForwardEdges : Edges[e].net = n /\ Edges[e].ranking /\ Passes(Edges[e], g)
         /\ Covered(SpansOf(n)) \subseteq Nat
<1>1. PICK es : es = {f \in ForwardEdges : Edges[f].net = n /\ Edges[f].ranking}
  OBVIOUS
<1>2. SpansOf(n) = {<<Rank(Edges[e].source), Rank(Edges[e].target)>> : e \in es}
  BY <1>1 DEF SpansOf
<1>3. \A r : r \in Covered(SpansOf(n)) <=>
        \E e \in es : r \in Rank(Edges[e].source)..(Rank(Edges[e].target) - 1)
  <2>1. \A r : r \in Covered(SpansOf(n)) <=> \E s \in SpansOf(n) : r \in s[1]..(s[2] - 1)
    BY DEF Covered
  <2>2. ASSUME NEW r, NEW e \in es, r \in Rank(Edges[e].source)..(Rank(Edges[e].target) - 1)
        PROVE  r \in Covered(SpansOf(n))
    <3>1. PICK s : s = <<Rank(Edges[e].source), Rank(Edges[e].target)>> /\ s \in SpansOf(n)
      BY <1>2
    <3>2. s[1] = Rank(Edges[e].source) /\ s[2] = Rank(Edges[e].target)
      BY <3>1
    <3> QED BY <2>1, <2>2, <3>1, <3>2
  <2>3. ASSUME NEW r, r \in Covered(SpansOf(n))
        PROVE  \E e \in es : r \in Rank(Edges[e].source)..(Rank(Edges[e].target) - 1)
    <3>1. PICK s \in SpansOf(n) : r \in s[1]..(s[2] - 1)
      BY <2>1, <2>3
    <3>2. PICK e \in es : s = <<Rank(Edges[e].source), Rank(Edges[e].target)>>
      BY <1>2
    <3>3. s[1] = Rank(Edges[e].source) /\ s[2] = Rank(Edges[e].target)
      BY <3>2
    <3> QED BY <3>1, <3>3
  <2> QED BY <2>2, <2>3
<1>4. \A e \in es : Rank(Edges[e].source) \in Nat /\ Rank(Edges[e].target) \in Nat
  BY <1>1, ForwardFacts
<1>5. \A e \in es : g \in Rank(Edges[e].source)..(Rank(Edges[e].target) - 1) <=> Passes(Edges[e], g)
  BY <1>4 DEF Passes
<1>6. ASSUME NEW r \in Covered(SpansOf(n)) PROVE r \in Nat
  <2>1. PICK e \in es : r \in Rank(Edges[e].source)..(Rank(Edges[e].target) - 1)
    BY <1>3
  <2> QED BY <1>4, <2>1
<1> QED BY <1>1, <1>3, <1>5, <1>6

LEMMA NetsComeAndGo ==
  ASSUME netlist \in Netlists, NEW g \in Nat
  PROVE  /\ IsFiniteSet(On(g)) /\ IsFiniteSet(On(g - 1)) /\ IsFiniteSet(Starting(g)) /\ IsFiniteSet(Ending(g))
         /\ Cardinality(On(g)) = Cardinality(On(g - 1)) + Cardinality(Starting(g)) - Cardinality(Ending(g))
<1>1. /\ IsFiniteSet(On(g)) /\ IsFiniteSet(On(g - 1)) /\ IsFiniteSet(Starting(g)) /\ IsFiniteSet(Ending(g))
  BY ForwardFacts, FS_Subset DEF On, Starting, Ending
<1>2. ASSUME NEW n \in Nets
      PROVE  /\ n \in Starting(g) <=> n \in On(g) /\ n \notin On(g - 1)
             /\ n \in Ending(g) <=> n \in On(g - 1) /\ n \notin On(g)
  <2>1. PICK ranks : ranks = Covered(SpansOf(n))
    OBVIOUS
  <2>2. ranks \subseteq Nat
    BY <2>1, CoveredFacts
  <2>3. g \in MergedBounds(SpansOf(n)).starts <=> g \in ranks /\ g - 1 \notin ranks
    BY <2>1 DEF MergedBounds
  <2>4. g \in MergedBounds(SpansOf(n)).ends <=> g - 1 \in ranks /\ g \notin ranks
    <3>1. MergedBounds(SpansOf(n)).ends = {r + 1 : r \in {q \in ranks : q + 1 \notin ranks}}
      BY <2>1 DEF MergedBounds
    <3>2. (g - 1) + 1 = g
      OBVIOUS
    <3>3. ASSUME g - 1 \in ranks, g \notin ranks PROVE g \in MergedBounds(SpansOf(n)).ends
      BY <3>1, <3>2, <3>3
    <3>4. ASSUME g \in MergedBounds(SpansOf(n)).ends PROVE g - 1 \in ranks /\ g \notin ranks
      <4>1. PICK r \in ranks : r + 1 \notin ranks /\ g = r + 1
        BY <3>1, <3>4
      <4>2. r = g - 1
        BY <2>2, <4>1
      <4> QED BY <4>1, <4>2
    <3> QED BY <3>3, <3>4
  <2> QED BY <2>1, <2>3, <2>4 DEF On, Starting, Ending
<1>3. Ending(g) \subseteq Nets /\ Starting(g) \subseteq Nets /\ On(g) \subseteq Nets /\ On(g - 1) \subseteq Nets
  BY DEF On, Starting, Ending
<1>4. PICK A, B, C, D : A = On(g - 1) /\ B = On(g) /\ C = Starting(g) /\ D = Ending(g)
  OBVIOUS
<1>5. /\ D \subseteq A /\ B = (A \ D) \cup C /\ (A \ D) \cap C = {} /\ A \cap D = D
  BY <1>2, <1>3, <1>4
<1>6. /\ IsFiniteSet(A \ D) /\ Cardinality(A \ D) = Cardinality(A) - Cardinality(D)
  BY <1>1, <1>4, <1>5, FS_Difference
<1>7. Cardinality(B) = Cardinality(A \ D) + Cardinality(C) - Cardinality({})
  BY <1>1, <1>4, <1>5, <1>6, FS_Union
<1>8. Cardinality(A) \in Nat /\ Cardinality(C) \in Nat /\ Cardinality(D) \in Nat
  BY <1>1, <1>4, FS_CardinalityType
<1>9. Cardinality({}) = 0
  BY FS_EmptySet
<1> QED BY <1>1, <1>4, <1>6, <1>7, <1>8, <1>9

\* The sum of what begins and ends in front of a gap counts the nets in it.
LEMMA ActiveCounts ==
  ASSUME netlist \in Netlists, NEW g \in Nat
  PROVE  Active(g) = Cardinality(On(g)) /\ Active(g) \in Nat
<1>1. \A r : Difference(r) = Cardinality(Starting(r)) - Cardinality(Ending(r))
  BY DEF Difference, Starting, Ending, Nets
<1>2. PICK f : f = [i \in 1..(g + 1) |-> Difference(i - 1)]
  OBVIOUS
<1>3. PICK h : h = [k \in 0..(g + 1) |-> Cardinality(On(k - 1))]
  OBVIOUS
<1>4. \A k \in 0..(g + 1) : IsFiniteSet(On(k - 1)) /\ h[k] = Cardinality(On(k - 1)) /\ h[k] \in Nat
  <2> TAKE k \in 0..(g + 1)
  <2>1. IsFiniteSet(On(k - 1))
    BY ForwardFacts, FS_Subset DEF On
  <2> QED BY <1>3, <2>1, FS_CardinalityType
<1>5. h[0] = 0
  <2>1. On(-1) = {}
    <3>1. ASSUME NEW n \in On(-1) PROVE FALSE
      <4>1. -1 \in Covered(SpansOf(n)) /\ Covered(SpansOf(n)) \subseteq Nat /\ -1 \in Int
        BY CoveredFacts DEF On
      <4> QED BY <4>1
    <3> QED BY <3>1
  <2>2. h[0] = Cardinality(On(0 - 1)) /\ 0 - 1 = -1
    BY <1>3
  <2> QED BY <2>1, <2>2, FS_EmptySet
<1>6. ASSUME NEW i \in 1..(g + 1) PROVE f[i] \in Int /\ h[i] = h[i - 1] + f[i]
  <2>1. i - 1 \in Nat /\ i - 1 \in 0..(g + 1) /\ i \in 0..(g + 1) /\ (i - 1) - 1 = i - 2
    OBVIOUS
  <2>2. PICK r \in Nat : r = i - 1
    BY <2>1
  <2>3. /\ IsFiniteSet(Starting(r)) /\ IsFiniteSet(Ending(r))
        /\ Cardinality(On(r)) = Cardinality(On(r - 1)) + Cardinality(Starting(r)) - Cardinality(Ending(r))
    BY NetsComeAndGo
  <2>4. Cardinality(Starting(r)) \in Nat /\ Cardinality(Ending(r)) \in Nat
    BY <2>3, FS_CardinalityType
  <2>5. f[i] = Cardinality(Starting(r)) - Cardinality(Ending(r))
    BY <1>1, <1>2, <2>2
  <2>6. h[i] = Cardinality(On(r)) /\ h[i - 1] = Cardinality(On(r - 1)) /\ h[i - 1] \in Nat
    BY <1>4, <2>1, <2>2
  <2> QED BY ONLY <2>3, <2>4, <2>5, <2>6
<1>7. Sums(g + 1, f, h)
  <2>1. h \in [0..(g + 1) -> Int]
    BY <1>3, <1>4
  <2> QED BY <1>5, <1>6, <2>1 DEF Sums
<1>8. Len(f) = g + 1 /\ g + 1 \in Nat
  BY <1>2
<1>9. Total(f) = h[g + 1]
  BY <1>7, <1>8, TotalIsSum
<1>10. Active(g) = Total(f)
  BY <1>2 DEF Active
<1>11. g + 1 \in 0..(g + 1) /\ (g + 1) - 1 = g
  OBVIOUS
<1> QED BY <1>4, <1>9, <1>10, <1>11

MeasuredLayerGaps ==
  ReserveCorridors([g \in 0..(Len(Layers) - 2) |->
                      IF netlist.demandAware THEN DemandAwareLayerGap(g) ELSE LayerGap])

LEMMA CorridorFacts ==
  ASSUME netlist \in Netlists, NEW b \in DOMAIN netlist.bundles
  PROVE  Corridor(netlist.bundles[b]) \in Int
<1>1. PICK c : c = netlist.bundles[b]
  OBVIOUS
<1>2. c.node \in Nodes /\ c.lanes \in Int /\ c.depth \in Int
  BY <1>1, BundleFacts
<1>3. Width(Rank(c.node)) \in Int /\ netlist.width[c.node] \in Int
  BY <1>2, WidthFacts, NodeFacts
<1>4. PICK k \in Int : k = LaneGap
  BY OptionFacts
<1>5. Most(Options.clearance, Options.spacing) \in Int
  BY OptionFacts DEF Most
<1>6. PICK m \in Int : m = Most(Most(Options.clearance, Options.spacing), LaneGap)
  BY <1>4, <1>5 DEF Most
<1>7. PICK z \in Int : z = c.lanes * LaneGap
  <2>1. PICK x \in Int : x = c.lanes
    BY <1>2
  <2> QED BY <1>4, <2>1
<1>8. RailDepth \in Int
  BY OptionFacts
<1>9. Corridor(c) = RailDepth + c.depth + z + m - (Width(Rank(c.node)) - netlist.width[c.node])
  BY <1>6, <1>7 DEF Corridor
<1> QED BY <1>1, <1>2, <1>3, <1>8, <1>9

LEMMA DemandFacts ==
  ASSUME netlist \in Netlists, NEW g \in Nat
  PROVE  /\ DemandAwareLayerGap(g) =
              Most(LayerGap, 2 * Most(Options.stub, Options.clearance) + LaneGap * (Cardinality(On(g)) + 1))
         /\ 2 * Most(Options.stub, Options.clearance) + LaneGap * (Cardinality(On(g)) + 1) \in Int
         /\ DemandAwareLayerGap(g) \in Int
<1>1. Active(g) = Cardinality(On(g)) /\ Active(g) \in Nat
  BY ActiveCounts
<1>2. PICK m \in Int : m = Most(Options.stub, Options.clearance)
  BY OptionFacts DEF Most
<1>3. PICK k \in Int, c \in Int : k = LaneGap /\ c = Cardinality(On(g)) + 1
  BY <1>1, OptionFacts
<1>4. 2 * m + k * c \in Int
  BY <1>2, <1>3
<1>5. PICK d \in Int : d = 2 * m + k * c
  BY <1>4
<1>6. Most(LayerGap, d) \in Int
  BY OptionFacts DEF Most
<1>7. DemandAwareLayerGap(g) = Most(LayerGap, d)
  BY <1>1, <1>2, <1>3, <1>5 DEF DemandAwareLayerGap
<1> QED BY <1>2, <1>3, <1>5, <1>6, <1>7

\* What the bundles that are gathered in a gap need.
Gathered(g) == {b \in DOMAIN netlist.bundles : BundleGap(netlist.bundles[b]) = g}
Corridors(g) == {Corridor(netlist.bundles[b]) : b \in Gathered(g)}
BeforeBundles(g) == IF netlist.demandAware THEN DemandAwareLayerGap(g) ELSE LayerGap

LEMMA CorridorsFacts ==
  ASSUME netlist \in Netlists, NEW g
  PROVE  Corridors(g) \subseteq Int /\ IsFiniteSet(Corridors(g))
<1>1. PICK S : S = Gathered(g)
  OBVIOUS
<1>2. S \subseteq DOMAIN netlist.bundles /\ IsFiniteSet(S)
  BY <1>1, NetlistFacts, FS_Subset DEF Gathered
<1>3. PICK f : f = [b \in S |-> Corridor(netlist.bundles[b])]
  OBVIOUS
<1>4. Corridors(g) = {f[b] : b \in S}
  BY <1>1, <1>3 DEF Corridors
<1>5. IsFiniteSet(Corridors(g))
  BY <1>2, <1>4, ImageIsFinite
<1>6. \A b \in S : Corridor(netlist.bundles[b]) \in Int
  BY <1>2, CorridorFacts
<1> QED BY <1>1, <1>5, <1>6 DEF Corridors

LEMMA BeforeFacts ==
  ASSUME netlist \in Netlists, NEW g \in Nat
  PROVE  BeforeBundles(g) \in Int
BY DemandFacts, OptionFacts DEF BeforeBundles

LEMMA MeasuredGapFacts ==
  ASSUME netlist \in Netlists
  PROVE  /\ DOMAIN MeasuredLayerGaps = 0..(Len(Layers) - 2)
         /\ \A g \in 0..(Len(Layers) - 2) :
              /\ MeasuredLayerGaps[g] = Largest({BeforeBundles(g)} \cup Corridors(g))
              /\ MeasuredLayerGaps[g] \in Int
<1>1. PICK gaps : gaps = [g \in 0..(Len(Layers) - 2) |-> BeforeBundles(g)]
  OBVIOUS
<1>2. MeasuredLayerGaps = ReserveCorridors(gaps)
  BY <1>1 DEF MeasuredLayerGaps, BeforeBundles
<1>3. ReserveCorridors(gaps) =
        [g \in 0..(Len(Layers) - 2) |-> Largest({gaps[g]} \cup Corridors(g))]
  BY <1>1 DEF ReserveCorridors, Corridors, Gathered
<1>4. ASSUME NEW g \in 0..(Len(Layers) - 2)
      PROVE  /\ MeasuredLayerGaps[g] = Largest({BeforeBundles(g)} \cup Corridors(g))
             /\ MeasuredLayerGaps[g] \in Int
  <2>1. MeasuredLayerGaps[g] = Largest({BeforeBundles(g)} \cup Corridors(g))
    BY <1>1, <1>2, <1>3
  <2>2. g \in Nat
    BY NetlistFacts
  <2>3. BeforeBundles(g) \in Int
    BY <2>2, BeforeFacts
  <2>4. PICK T : T = {BeforeBundles(g)} \cup Corridors(g)
    OBVIOUS
  <2>5. T \subseteq Int /\ T # {}
    BY <2>3, <2>4, CorridorsFacts
  <2>6. IsFiniteSet(T)
    BY <2>4, CorridorsFacts, FS_Singleton, FS_Union
  <2>7. Largest(T) \in Int
    BY <2>5, <2>6, LargestFacts
  <2> QED BY <2>1, <2>4, <2>7
<1> QED BY <1>2, <1>3, <1>4

LEMMA MeasuredGapsHoldTheirNets ==
  ASSUME netlist \in Netlists, layerGaps = MeasuredLayerGaps
  PROVE  GapsHoldTheirNets
<1> SUFFICES ASSUME NEW g \in DOMAIN layerGaps
    PROVE  LET nets == {Edges[e].net :
                           e \in {f \in ForwardEdges : Edges[f].ranking /\ Passes(Edges[f], g)}}
               gathered == {b \in DOMAIN netlist.bundles : BundleGap(netlist.bundles[b]) = g}
           IN layerGaps[g] =
                 Largest({LayerGap}
                         \cup {Corridor(netlist.bundles[b]) : b \in gathered}
                         \cup {2 * Most(Options.stub, Options.clearance)
                                  + LaneGap * (Cardinality(nets) + 1) : x \in {netlist.demandAware} \ {FALSE}})
  BY DEF GapsHoldTheirNets
<1>1. g \in 0..(Len(Layers) - 2) /\ g \in Nat
  BY MeasuredGapFacts, NetlistFacts
<1>2. PICK nets : nets = {Edges[e].net :
                           e \in {f \in ForwardEdges : Edges[f].ranking /\ Passes(Edges[f], g)}}
  OBVIOUS
<1>3. nets = On(g)
  <2>1. ASSUME NEW e \in ForwardEdges, Edges[e].ranking, Passes(Edges[e], g) PROVE Edges[e].net \in On(g)
    <3>1. g \in Covered(SpansOf(Edges[e].net))
      BY <1>1, <2>1, CoveredFacts
    <3> QED BY <3>1 DEF On, Nets
  <2>2. ASSUME NEW n \in On(g) PROVE n \in nets
    <3>1. \E e \in ForwardEdges : Edges[e].net = n /\ Edges[e].ranking /\ Passes(Edges[e], g)
      BY <1>1, CoveredFacts DEF On
    <3> QED BY <1>2, <3>1
  <2> QED BY <1>2, <2>1, <2>2
<1>4. PICK d : d = 2 * Most(Options.stub, Options.clearance) + LaneGap * (Cardinality(nets) + 1)
  OBVIOUS
<1>5. d \in Int /\ DemandAwareLayerGap(g) = Most(LayerGap, d) /\ LayerGap \in Int
  BY <1>1, <1>3, <1>4, DemandFacts, OptionFacts
<1>6. PICK T : T = {BeforeBundles(g)} \cup Corridors(g)
  OBVIOUS
<1>7. PICK X : X = {d : x \in {netlist.demandAware} \ {FALSE}}
  OBVIOUS
<1>8. PICK U : U = {LayerGap} \cup Corridors(g) \cup X
  OBVIOUS
<1>9. netlist.demandAware \in BOOLEAN
  <2>1. IsNetlist(netlist)
    BY NetlistsAssumption
  <2> QED BY <2>1 DEF IsNetlist
<1>10. X = IF netlist.demandAware THEN {d} ELSE {}
  <2>1. CASE netlist.demandAware = TRUE
    BY <1>7, <2>1
  <2>2. CASE netlist.demandAware = FALSE
    BY <1>7, <2>2
  <2> QED BY <1>9, <2>1, <2>2
<1>11. BeforeBundles(g) = IF netlist.demandAware THEN Most(LayerGap, d) ELSE LayerGap
  BY <1>5 DEF BeforeBundles
<1>12. Corridors(g) \subseteq Int /\ IsFiniteSet(Corridors(g))
  BY CorridorsFacts
<1>13. T \subseteq Int /\ IsFiniteSet(T) /\ T # {}
  <2>1. BeforeBundles(g) \in Int
    BY <1>1, BeforeFacts
  <2> QED BY <1>6, <1>12, <2>1, FS_Singleton, FS_Union
<1>14. U \subseteq Int /\ IsFiniteSet(U) /\ U # {}
  <2>1. X \subseteq Int /\ IsFiniteSet(X)
    BY <1>5, <1>10, FS_Singleton, FS_EmptySet
  <2>2. IsFiniteSet({LayerGap} \cup Corridors(g))
    BY <1>12, FS_Singleton, FS_Union
  <2> QED BY <1>5, <1>8, <1>12, <2>1, <2>2, FS_Union
<1>15. ASSUME NEW x \in T PROVE \E y \in U : x <= y
  <2>1. CASE x \in Corridors(g)
    BY <1>8, <1>12, <2>1
  <2>2. CASE x = BeforeBundles(g) /\ netlist.demandAware /\ LayerGap < d
    <3>1. x = d /\ d \in U
      BY <1>5, <1>8, <1>10, <1>11, <2>2 DEF Most
    <3> QED BY <1>5, <3>1
  <2>3. CASE x = BeforeBundles(g) /\ ~ (netlist.demandAware /\ LayerGap < d)
    <3>1. x = LayerGap /\ LayerGap \in U
      BY <1>5, <1>8, <1>11, <2>3 DEF Most
    <3> QED BY <1>5, <3>1
  <2> QED BY <1>6, <2>1, <2>2, <2>3
<1>16. ASSUME NEW y \in U PROVE \E x \in T : y <= x
  <2>1. CASE y \in Corridors(g)
    BY <1>6, <1>12, <2>1
  <2>2. CASE y = LayerGap
    <3>1. LayerGap <= BeforeBundles(g)
      BY <1>5, <1>11 DEF Most
    <3> QED BY <1>6, <2>2, <3>1
  <2>3. CASE y \in X
    <3>1. netlist.demandAware /\ y = d
      BY <1>10, <2>3
    <3>2. d <= BeforeBundles(g)
      BY <1>5, <1>11, <3>1 DEF Most
    <3> QED BY <1>6, <3>1, <3>2
  <2> QED BY <1>8, <2>1, <2>2, <2>3
<1>17. Largest(T) = Largest(U)
  BY <1>13, <1>14, <1>15, <1>16, SameLargest
<1>18. layerGaps[g] = Largest(T)
  BY <1>1, <1>6, MeasuredGapFacts
<1>19. Corridors(g) = {Corridor(netlist.bundles[b]) :
                         b \in {c \in DOMAIN netlist.bundles : BundleGap(netlist.bundles[c]) = g}}
  BY DEF Corridors, Gathered
<1> QED BY <1>2, <1>4, <1>7, <1>8, <1>17, <1>18, <1>19

-----------------------------------------------------------------------------
(* Straight chains keep the gaps.                                          *)

LEMMA ChainsFacts ==
  ASSUME netlist \in Netlists, NEW c \in Chains(PreferredEdges)
  PROVE  c \in Seq(Links) /\ Len(c) >= 1
<1>1. PICK n \in Nodes : c = Chain(PreferredEdges, n)
  BY DEF Chains
<1> QED BY <1>1, PreferredAreEdges, ChainFacts

LEMMA AnchorFacts ==
  ASSUME placed \in Positions, NEW c \in Seq(Links), Len(c) >= 1
  PROVE  Anchor(c) \in Int
<1>1. PICK n \in Nat : n = Len(c) /\ n > 0 /\ DOMAIN c = 1..n
  OBVIOUS
<1>2. PICK s : s = [i \in DOMAIN c |-> placed[c[i].node].y - c[i].y]
  OBVIOUS
<1>3. ASSUME NEW i \in 1..n PROVE s[i] \in Int
  <2>1. c[i] \in Links
    BY <1>1
  <2>2. c[i].node \in Nodes /\ c[i].y \in Int
    BY <2>1 DEF Links
  <2>3. placed[c[i].node].y \in Int
    BY <2>2 DEF Positions
  <2> QED BY <1>1, <1>2, <2>2, <2>3
<1>4. Len(s) = n
  BY <1>1, <1>2
<1>5. PICK t \in Int : t = Total(s)
  BY <1>3, <1>4, TotalIsNumber
<1>6. t \div n \in Int
  BY <1>1
<1> QED BY <1>1, <1>2, <1>5, <1>6 DEF Anchor

\* The heights that nodes are wanted at are numbers.
Wanted(targets) == \A n \in DOMAIN targets : targets[n] \in Int

LEMMA TargetsAreNumbers ==
  ASSUME netlist \in Netlists, placed \in Positions
  PROVE  Wanted(ChainTargets(Chains(PreferredEdges)))
<1>1. PICK chains : chains = Chains(PreferredEdges)
  OBVIOUS
<1>2. PICK at : at = UNION {{c[i].node : i \in DOMAIN c} : c \in chains}
  OBVIOUS
<1>3. ASSUME NEW n \in at PROVE ChainTargets(chains)[n] \in Int
  <2>1. \E d \in chains : \E i \in DOMAIN d : d[i].node = n
    BY <1>2
  <2>2. PICK c : c = CHOOSE d \in chains : \E i \in DOMAIN d : d[i].node = n
    OBVIOUS
  <2>3. c \in chains /\ \E i \in DOMAIN c : c[i].node = n
    BY <2>1, <2>2
  <2>4. PICK k : k = CHOOSE i \in DOMAIN c : c[i].node = n
    OBVIOUS
  <2>5. k \in DOMAIN c
    BY <2>3, <2>4
  <2>6. ChainTargets(chains)[n] = Anchor(c) + c[k].y
    BY <1>2, <2>2, <2>4 DEF ChainTargets
  <2>7. c \in Seq(Links) /\ Len(c) >= 1
    BY <1>1, <2>3, ChainsFacts
  <2>8. Anchor(c) \in Int
    BY <2>7, AnchorFacts
  <2>9. c[k] \in Links
    BY <2>5, <2>7
  <2>10. c[k].y \in Int
    BY <2>9 DEF Links
  <2> QED BY <2>6, <2>8, <2>10
<1>4. DOMAIN ChainTargets(chains) = at
  BY <1>2 DEF ChainTargets
<1> QED BY <1>1, <1>3, <1>4 DEF Wanted

LEMMA StraightenedRises ==
  ASSUME netlist \in Netlists, GapsAreNumbers, placed \in Positions, NEW targets, Wanted(targets),
         NEW l \in DOMAIN Layers
  PROVE  /\ \A p \in 1..Len(Layers[l]) : Straightened(targets, l)[p] \in Int
         /\ \A p \in 1..(Len(Layers[l]) - 1) : Straightened(targets, l)[p] <= Straightened(targets, l)[p + 1]
<1>1. PICK n \in Nat : n = Len(Layers[l]) /\ DOMAIN Layers[l] = 1..n
  BY LayerFacts
<1>2. PICK weight : weight = [p \in 1..n |-> IF Layers[l][p] \in DOMAIN targets THEN ChainWeight ELSE Unit]
  OBVIOUS
<1>3. PICK wanted : wanted = [p \in 1..n |-> IF Layers[l][p] \in DOMAIN targets THEN targets[Layers[l][p]]
                                             ELSE placed[Layers[l][p]].y]
  OBVIOUS
<1>4. PICK s : s = [p \in 1..n |-> weight[p] * (wanted[p] - OffsetIn(l, p))]
  OBVIOUS
<1>5. ASSUME NEW p \in 1..n PROVE s[p] \in Int /\ weight[p] \in Int /\ weight[p] > 0
  <2>1. Layers[l][p] \in Nodes
    BY <1>1, LayerFacts
  <2>2. placed[Layers[l][p]].y \in Int
    BY <2>1 DEF Positions
  <2>3. wanted[p] \in Int
    BY <1>3, <2>2 DEF Wanted
  <2>4. weight[p] \in Nat \ {0}
    BY <1>2, WeightsArePositive
  <2>5. OffsetIn(l, p) \in Int
    BY <1>1, OffsetFacts
  <2>6. PICK a \in Int, b \in Int : a = weight[p] /\ b = wanted[p] - OffsetIn(l, p)
    BY <2>3, <2>4, <2>5
  <2>7. s[p] = a * b
    BY <1>4, <2>6
  <2>8. a * b \in Int
    BY <2>6
  <2> QED BY <2>4, <2>7, <2>8
<1>6. Straightened(targets, l) = IsotonicProjection(s, weight)
  <2>1. [p \in DOMAIN Layers[l] |->
            (IF Layers[l][p] \in DOMAIN targets THEN ChainWeight ELSE Unit)
              * ((IF Layers[l][p] \in DOMAIN targets THEN targets[Layers[l][p]]
                  ELSE placed[Layers[l][p]].y) - OffsetIn(l, p))] = s
    BY <1>1, <1>2, <1>3, <1>4
  <2>2. [p \in DOMAIN Layers[l] |-> IF Layers[l][p] \in DOMAIN targets THEN ChainWeight ELSE Unit] = weight
    BY <1>1, <1>2
  <2> QED BY <2>1, <2>2 DEF Straightened
<1>7. Len(s) = n
  BY <1>4
<1> QED BY <1>1, <1>5, <1>6, <1>7, ProjectionRises

LEMMA CandidateKeeps ==
  ASSUME netlist \in Netlists, GapsAreNumbers, placed \in Positions, InLayers(placed),
         NEW targets, Wanted(targets)
  PROVE  Candidate(targets) \in Positions /\ InLayers(Candidate(targets))
<1>1. PICK n \in Nat : n = Len(Layers) /\ DOMAIN Layers = 1..n
  BY NetlistFacts
<1>2. PICK V : V = {p \in Positions : InLayers(p)}
  OBVIOUS
<1>3. PICK apply : apply = [p \in (1..n) \X V |-> Shifted(p[2], p[1], Straightened(targets, p[1]))]
  OBVIOUS
<1>4. ASSUME NEW l \in 1..n, NEW v \in V
      PROVE  apply[<<l, v>>] = Shifted(v, l, Straightened(targets, l)) /\ apply[<<l, v>>] \in V
  <2>1. apply[<<l, v>>] = Shifted(v, l, Straightened(targets, l))
    BY <1>3
  <2>2. v \in Positions /\ InLayers(v) /\ l \in DOMAIN Layers
    BY <1>1, <1>2
  <2>3. PICK ys : ys = Straightened(targets, l)
    OBVIOUS
  <2>4. /\ \A p \in 1..Len(Layers[l]) : ys[p] \in Int
        /\ \A p \in 1..(Len(Layers[l]) - 1) : ys[p] <= ys[p + 1]
    BY <2>2, <2>3, StraightenedRises
  <2>5. Shifted(v, l, ys) \in Positions /\ InLayers(Shifted(v, l, ys))
    BY <2>2, <2>4, ShiftedKeeps
  <2> QED BY <1>2, <2>1, <2>3, <2>5
<1>5. PICK h \in [0..n -> V] : h[0] = placed /\ \A i \in 1..n : h[i] = apply[<<i, h[i - 1]>>]
  <2>1. placed \in V /\ \A i \in 1..n : \A v \in V : apply[<<i, v>>] \in V
    BY <1>2, <1>4
  <2>2. StagesFrom(n, V, placed, apply) # {}
    BY ONLY n \in Nat, <2>1, StagesExist
  <2> QED BY <2>2 DEF StagesFrom
<1>6. ASSUME NEW i \in 1..n PROVE h[i] = Shifted(h[i - 1], i, Straightened(targets, i))
  <2>1. h[i - 1] \in V
    BY <1>5
  <2> QED BY <1>4, <1>5, <2>1
<1>7. h = [l \in 0..n |-> IF l = 0 THEN placed ELSE Shifted(h[l - 1], l, Straightened(targets, l))]
  BY <1>5, <1>6
<1>8. PICK after : after = CHOOSE g : g = [l \in 0..n |-> IF l = 0 THEN placed
                                            ELSE Shifted(g[l - 1], l, Straightened(targets, l))]
  OBVIOUS
<1>9. after = [l \in 0..n |-> IF l = 0 THEN placed ELSE Shifted(after[l - 1], l, Straightened(targets, l))]
  BY <1>7, <1>8
<1>10. after[n] = h[n]
  <2>1. ASSUME NEW i \in 1..n
        PROVE  /\ after[i] = Shifted(after[i - 1], i, Straightened(targets, i))
               /\ h[i] = Shifted(h[i - 1], i, Straightened(targets, i))
    <3>1. i \in 0..n /\ i # 0
      OBVIOUS
    <3>2. after[i] = Shifted(after[i - 1], i, Straightened(targets, i))
      BY ONLY <1>9, <3>1
    <3> QED BY ONLY <1>6, <3>2, i \in 1..n
  <2>2. after[0] = placed /\ h[0] = placed
    BY ONLY <1>7, <1>9, n \in Nat
  <2>3. after[0] = h[0] /\ \A i \in 1..n : after[i - 1] = h[i - 1] => after[i] = h[i]
    BY ONLY <2>1, <2>2
  <2>4. \A i \in 0..n : after[i] = h[i]
    <3>1. MadeAlike(n, after, h)
      BY ONLY <2>3 DEF MadeAlike
    <3>2. Alike(n, after, h)
      BY ONLY n \in Nat, <3>1, StagesAgree
    <3> QED BY ONLY <3>2 DEF Alike
  <2> QED BY <2>4
<1>11. Candidate(targets) = after[n]
  BY <1>1, <1>8 DEF Candidate
<1>12. h[n] \in V
  BY <1>5
<1> QED BY <1>2, <1>10, <1>11, <1>12

-----------------------------------------------------------------------------
(* The targets of a layer and their projection.                            *)

Preferred == IF netlist.backbones THEN PreferredEdges ELSE {}
TargetsOf(l) == Targets(l, [p \in DOMAIN Layers[l] |-> Pull(Layers[l][p], Preferred)])

LEMMA TargetsFacts ==
  ASSUME netlist \in Netlists, GapsAreNumbers, placed \in Positions, NEW l \in DOMAIN Layers
  PROVE  /\ Len(TargetsOf(l).sums) = Len(Layers[l])
         /\ \A p \in 1..Len(Layers[l]) : /\ TargetsOf(l).sums[p] \in Int /\ TargetsOf(l).weights[p] \in Int
                                         /\ TargetsOf(l).weights[p] > 0
<1>1. PICK n \in Nat : n = Len(Layers[l]) /\ DOMAIN Layers[l] = 1..n
  BY LayerFacts
<1>2. PICK pull : pull = [p \in 1..n |-> Pull(Layers[l][p], Preferred)]
  OBVIOUS
<1>3. PICK s, w : /\ s = [p \in 1..n |-> pull[p].sum - pull[p].weight * OffsetIn(l, p)]
                  /\ w = [p \in 1..n |-> pull[p].weight]
  OBVIOUS
<1>4. TargetsOf(l) = [sums |-> s, weights |-> w]
  BY <1>1, <1>2, <1>3 DEF TargetsOf, Targets
<1>5. ASSUME NEW p \in 1..n PROVE s[p] \in Int /\ w[p] \in Int /\ w[p] > 0
  <2>1. Layers[l][p] \in Nodes
    BY <1>1, LayerFacts
  <2>2. pull[p] = Pull(Layers[l][p], Preferred)
    BY <1>2
  <2>3. pull[p].weight \in Int /\ pull[p].weight > 0 /\ pull[p].sum \in Int
    BY <2>1, <2>2, PullFacts
  <2>4. PICK a \in Int, b \in Int : a = pull[p].weight /\ b = OffsetIn(l, p)
    BY <1>1, <2>3, OffsetFacts
  <2>5. a * b \in Int
    OBVIOUS
  <2>6. s[p] = pull[p].sum - a * b /\ w[p] = a
    BY <1>3, <2>4
  <2> QED BY <2>3, <2>4, <2>5, <2>6
<1>6. Len(s) = n
  BY <1>3
<1> QED BY <1>1, <1>4, <1>5, <1>6

LEMMA LayerOfTurnFacts ==
  ASSUME netlist \in Netlists, turn \in Nat, turn < netlist.rounds * Turns
  PROVE  LayerOfTurn(turn) \in DOMAIN Layers
<1>1. IsNetlist(netlist)
  BY NetlistsAssumption
<1>2. PICK r \in Nat, n \in Nat : r = netlist.rounds /\ n = Len(Layers) /\ DOMAIN Layers = 1..n
  BY <1>1, NetlistFacts DEF IsNetlist
<1>3. PICK t \in Int : t = Turns /\ t = 2 * (n - 1)
  BY <1>2 DEF Turns
<1>4. t > 0
  <2>1. SUFFICES ASSUME t <= 0 PROVE FALSE
    OBVIOUS
  <2>2. CASE t = 0
    BY <1>2, <1>3, <2>2
  <2>3. CASE t < 0
    <3>1. r * t <= 0
      <4>1. CASE r = 0
        BY <4>1
      <4>2. CASE r > 0
        <5>1. t * r < 0 * r
          BY <2>3, <4>2, ProductsGrow
        <5> QED BY <5>1
      <4> QED BY <4>1, <4>2
    <3> QED BY <1>2, <1>3, <3>1
  <2> QED BY <2>1, <2>2, <2>3
<1>5. PICK k : k = turn % t
  OBVIOUS
<1>6. k \in 0..(t - 1)
  BY <1>4, <1>5
<1>7. LayerOfTurn(turn) = IF k < n - 1 THEN k + 2 ELSE t - k
  BY <1>2, <1>3, <1>5 DEF LayerOfTurn
<1> QED BY ONLY <1>2, <1>3, <1>4, <1>6, <1>7

\* The mean of a run keeps a threshold when its sums do.
Means(n, S, W, M) ==
  \A j \in 1..n : \A k \in j..n :
    /\ M[<<j, k>>] \in Int
    /\ \A u \in Int : (M[<<j, k>>] >= u) <=> (Level(S, W, u, k) >= Level(S, W, u, j - 1))

LeastOfRun(M, i, j, n) == 0 - Largest({0 - M[<<j, k>>] : k \in i..n})
GreatestMean(M, i, n) == Largest({LeastOfRun(M, i, j, n) : j \in 1..i})

LEMMA GreatestOfLeast ==
  ASSUME NEW n, NEW S, NEW W, Levels(n, S, W), NEW M, Means(n, S, W, M),
         NEW i \in 1..n, NEW v, IsNearest(n, S, W, i, v)
  PROVE  v = GreatestMean(M, i, n)
<1>1. v \in Int /\ n \in Nat
  BY DEF IsNearest, Levels
<1>2. PICK p \in 1..i : \A k \in i..n : Level(S, W, v, k) >= Level(S, W, v, p - 1)
  BY DEF IsNearest
<1>3. PICK q \in i..n : \A j \in 1..i : Level(S, W, v + 1, q) < Level(S, W, v + 1, j - 1)
  BY DEF IsNearest
<1>4. ASSUME NEW j \in 1..i, NEW k \in i..n
      PROVE  /\ M[<<j, k>>] \in Int
             /\ \A u \in Int : (M[<<j, k>>] >= u) <=> (Level(S, W, u, k) >= Level(S, W, u, j - 1))
  <2>1. j \in 1..n /\ k \in j..n
    BY <1>1
  <2> QED BY <2>1 DEF Means
<1>5. ASSUME NEW k \in i..n PROVE M[<<p, k>>] >= v
  BY <1>1, <1>2, <1>4
<1>6. ASSUME NEW j \in 1..i PROVE M[<<j, q>>] <= v
  <2>1. /\ Level(S, W, v + 1, q) \in Int /\ Level(S, W, v + 1, j - 1) \in Int
    <3>1. j - 1 \in 0..n /\ q \in 0..n /\ j - 1 < q /\ v + 1 \in Int
      BY <1>1
    <3> QED BY <3>1, LevelFacts
  <2>2. ~ (Level(S, W, v + 1, q) >= Level(S, W, v + 1, j - 1))
    BY <1>3, <2>1
  <2>3. ~ (M[<<j, q>>] >= v + 1) /\ M[<<j, q>>] \in Int
    BY <1>1, <1>4, <2>2
  <2> QED BY <1>1, <2>3
<1>7. PICK least : least = [j \in 1..i |-> LeastOfRun(M, i, j, n)]
  OBVIOUS
<1>8. ASSUME NEW j \in 1..i
      PROVE  /\ least[j] \in Int /\ least[j] <= M[<<j, q>>]
             /\ \E k \in i..n : least[j] = M[<<j, k>>]
  <2>1. PICK T : T = {0 - M[<<j, k>>] : k \in i..n}
    OBVIOUS
  <2>2. T \subseteq Int /\ T # {}
    <3>1. \A k \in i..n : 0 - M[<<j, k>>] \in Int
      BY <1>4
    <3>2. q \in i..n
      OBVIOUS
    <3> QED BY <2>1, <3>1, <3>2
  <2>3. IsFiniteSet(T)
    <3>1. PICK f : f = [k \in i..n |-> 0 - M[<<j, k>>]]
      OBVIOUS
    <3>2. T = {f[k] : k \in i..n}
      BY <2>1, <3>1
    <3>3. IsFiniteSet(i..n)
      BY <1>1, FS_Interval
    <3> QED BY <3>2, <3>3, ImageIsFinite
  <2>4. PICK z \in Int : z = Largest(T) /\ z \in T /\ \A x \in T : x <= z
    BY <2>2, <2>3, LargestFacts
  <2>5. least[j] = 0 - z
    BY <1>7, <2>1, <2>4 DEF LeastOfRun
  <2>6. PICK k \in i..n : z = 0 - M[<<j, k>>]
    BY <2>1, <2>4
  <2>7. M[<<j, k>>] \in Int /\ M[<<j, q>>] \in Int
    BY <1>4
  <2>8. 0 - M[<<j, q>>] <= z
    BY <2>1, <2>4
  <2>9. least[j] = M[<<j, k>>]
    BY <2>5, <2>6, <2>7
  <2> QED BY <2>5, <2>7, <2>8, <2>9
<1>9. ASSUME NEW j \in 1..i PROVE least[j] <= v
  <2>1. least[j] \in Int /\ least[j] <= M[<<j, q>>]
    BY <1>8
  <2>2. M[<<j, q>>] \in Int /\ M[<<j, q>>] <= v
    BY <1>4, <1>6
  <2> QED BY <1>1, <2>1, <2>2
<1>10. least[p] = v
  <2>1. PICK k \in i..n : least[p] = M[<<p, k>>]
    BY <1>8
  <2>2. least[p] \in Int /\ least[p] >= v /\ least[p] <= v
    BY <1>5, <1>8, <1>9, <2>1
  <2> QED BY <1>1, <2>2
<1>11. PICK U : U = {LeastOfRun(M, i, j, n) : j \in 1..i}
  OBVIOUS
<1>12. U = {least[j] : j \in 1..i}
  BY <1>7, <1>11
<1>13. v \in U /\ \A y \in U : y <= v
  BY <1>9, <1>10, <1>12
<1>14. \A x \in U : (\A y \in U : y <= x) => x = v
  <2> TAKE x \in U
  <2> HAVE \A y \in U : y <= x
  <2>1. v <= x /\ x <= v
    BY <1>13
  <2>2. x \in Int
    BY <1>8, <1>12
  <2> QED BY <1>1, <2>1, <2>2
<1>15. Largest(U) = v
  BY <1>13, <1>14 DEF Largest
<1> QED BY <1>11, <1>15 DEF GreatestMean

LEMMA MeansOfTargets ==
  ASSUME NEW n, NEW t, NEW S, NEW W, Weighted(n, t.sums, t.weights, S, W)
  PROVE  \E M : /\ M = [p \in (1..n) \X (1..n) |-> Mean(t, p[1], p[2])]
                /\ Means(n, S, W, M)
<1>1. PICK M : M = [p \in (1..n) \X (1..n) |-> Mean(t, p[1], p[2])]
  OBVIOUS
<1>2. Levels(n, S, W) /\ n \in Nat
  BY WeightedLevels DEF Weighted
<1>3. ASSUME NEW j \in 1..n, NEW k \in j..n
      PROVE  /\ M[<<j, k>>] \in Int
             /\ \A u \in Int : (M[<<j, k>>] >= u) <=> (Level(S, W, u, k) >= Level(S, W, u, j - 1))
  <2>1. k \in 1..n /\ j - 1 \in 0..n /\ k \in 0..n /\ j - 1 < k
    BY <1>2
  <2>2. M[<<j, k>>] = Mean(t, j, k)
    BY <1>1, <2>1
  <2>3. PICK a, b : a = S[k] - S[j - 1] /\ b = W[k] - W[j - 1]
    OBVIOUS
  <2>31. Sums(n, t.sums, S) /\ Sums(n, t.weights, W)
    BY DEF Weighted
  <2>32. PICK f, g : f = t.sums /\ g = t.weights
    OBVIOUS
  <2>33. Sums(n, f, S) /\ Sums(n, g, W)
    BY ONLY <2>31, <2>32
  <2>34. Total([i \in 1..(k - j + 1) |-> f[j + i - 1]]) = S[k] - S[j - 1]
    BY ONLY <1>2, <2>33, PartTotal, j \in 1..n, k \in j..n
  <2>35. Total([i \in 1..(k - j + 1) |-> g[j + i - 1]]) = W[k] - W[j - 1]
    BY ONLY <1>2, <2>33, PartTotal, j \in 1..n, k \in j..n
  <2>4. Total([i \in 1..(k - j + 1) |-> t.sums[j + i - 1]]) = a
    BY ONLY <2>3, <2>32, <2>34
  <2>5. Total([i \in 1..(k - j + 1) |-> t.weights[j + i - 1]]) = b
    BY ONLY <2>3, <2>32, <2>35
  <2>6. M[<<j, k>>] = a \div b
    BY <2>2, <2>4, <2>5 DEF Mean
  <2>7. a \in Int /\ b \in Int /\ b > 0
    BY <1>2, <2>1, <2>3, LevelFacts
  <2>8. ASSUME NEW u \in Int
        PROVE  (Level(S, W, u, k) >= Level(S, W, u, j - 1)) <=> (a >= u * b)
    BY <1>2, <2>1, <2>3, LevelFacts
  <2>9. a \div b \in Int /\ \A u \in Int : (a \div b >= u) <=> (a >= u * b)
    BY <2>7, QuotientKeeps
  <2> QED BY ONLY <2>6, <2>8, <2>9
<1>4. Means(n, S, W, M)
  BY <1>3 DEF Means
<1> QED BY <1>1, <1>4

\* The projection of the targets is nearest to them.
LEMMA NearestTargets ==
  ASSUME netlist \in Netlists, GapsAreNumbers, placed \in Positions, turn \in Nat
  PROVE  ProjectionIsNearest
<1> SUFFICES ASSUME turn < netlist.rounds * Turns, NEW i \in 1..Len(Layers[LayerOfTurn(turn)])
             PROVE  LET l == LayerOfTurn(turn)
                        size == Len(Layers[l])
                        t == TargetsOf(l)
                        y == IsotonicProjection(t.sums, t.weights)
                    IN y[i] = Largest({0 - Largest({0 - Mean(t, j, k) : k \in i..size}) : j \in 1..i})
  BY DEF ProjectionIsNearest, TargetsOf, Preferred
<1>1. PICK l \in DOMAIN Layers : l = LayerOfTurn(turn)
  BY LayerOfTurnFacts
<1>2. PICK n \in Nat : n = Len(Layers[l]) /\ n >= 1
  BY LayerFacts
<1>3. PICK t : t = TargetsOf(l)
  OBVIOUS
<1>4. Len(t.sums) = n /\ \A p \in 1..n : t.sums[p] \in Int /\ t.weights[p] \in Int /\ t.weights[p] > 0
  BY <1>2, <1>3, TargetsFacts
<1>5. PICK s, w : s = t.sums /\ w = t.weights
  OBVIOUS
<1>6. PICK S : Sums(n, s, S)
  BY <1>4, <1>5, SumsExist
<1>7. PICK W : Sums(n, w, W)
  BY <1>4, <1>5, SumsExist
<1>8. Weighted(n, s, w, S, W)
  BY <1>4, <1>5, <1>6, <1>7 DEF Weighted
<1>9. PICK y : y = IsotonicProjection(s, w)
  OBVIOUS
<1>10. i \in 1..n
  BY <1>1, <1>2
<1>11. IsNearest(n, S, W, i, y[i]) /\ Levels(n, S, W)
  BY <1>2, <1>4, <1>5, <1>8, <1>9, <1>10, ProjectionFacts, WeightedLevels
<1>12. PICK M : /\ M = [p \in (1..n) \X (1..n) |-> Mean(t, p[1], p[2])]
                /\ Means(n, S, W, M)
  BY <1>5, <1>8, MeansOfTargets
<1>13. y[i] = GreatestMean(M, i, n)
  BY <1>10, <1>11, <1>12, GreatestOfLeast
<1>14. \A j \in 1..i : \A k \in i..n : M[<<j, k>>] = Mean(t, j, k)
  <2> TAKE j \in 1..i
  <2> TAKE k \in i..n
  <2>1. j \in 1..n /\ k \in 1..n
    BY <1>10
  <2> QED BY <1>12, <2>1
<1>15. GreatestMean(M, i, n) = Largest({0 - Largest({0 - Mean(t, j, k) : k \in i..n}) : j \in 1..i})
  <2>1. ASSUME NEW j \in 1..i
        PROVE  LeastOfRun(M, i, j, n) = 0 - Largest({0 - Mean(t, j, k) : k \in i..n})
    <3>1. {0 - M[<<j, k>>] : k \in i..n} = {0 - Mean(t, j, k) : k \in i..n}
      BY <1>14
    <3> QED BY <3>1 DEF LeastOfRun
  <2>2. {LeastOfRun(M, i, j, n) : j \in 1..i} =
         {0 - Largest({0 - Mean(t, j, k) : k \in i..n}) : j \in 1..i}
    BY <2>1
  <2> QED BY <2>2 DEF GreatestMean
<1>16. y[i] = Largest({0 - Largest({0 - Mean(t, j, k) : k \in i..n}) : j \in 1..i})
  BY ONLY <1>13, <1>15
<1> QED BY ONLY <1>1, <1>2, <1>3, <1>5, <1>9, <1>16

-----------------------------------------------------------------------------
(* The steps.                                                              *)

(* What is measured stays as it was measured, and every placement is one of *)
(* numbers that keep the measured gaps.                                    *)
Kept(nodes) == nodeGaps # None /\ nodes \in Positions /\ InLayers(nodes)
PlacementInv ==
  /\ netlist \in Netlists /\ turn \in Nat
  /\ nodeGaps # None => nodeGaps = MeasuredNodeGaps /\ layerGaps = MeasuredLayerGaps
  /\ layerGaps # None => layerGaps = MeasuredLayerGaps
  /\ placed # None => Kept(placed)
  /\ straight # None => Kept(straight.nodes)

LEMMA LayerXFacts ==
  ASSUME netlist \in Netlists, layerGaps = MeasuredLayerGaps, NEW n \in Nodes
  PROVE  LayerX(Rank(n)) \in Int
<1>1. PICK k \in Nat : k = Rank(n) /\ k <= Len(Layers) - 1
  <2>1. Rank(n) \in Nat /\ Rank(n) + 1 \in 1..Len(Layers) /\ Len(Layers) \in Nat
    BY NodeFacts, NetlistFacts
  <2> QED BY <2>1
<1>2. PICK s : s = [r \in 1..k |-> Width(r - 1) + layerGaps[r - 1]]
  OBVIOUS
<1>3. ASSUME NEW r \in 1..k PROVE s[r] \in Int
  <2>1. r - 1 \in 0..(Len(Layers) - 2)
    BY <1>1, NetlistFacts
  <2>2. layerGaps[r - 1] \in Int /\ Width(r - 1) \in Int
    BY <2>1, MeasuredGapFacts, WidthFacts
  <2> QED BY <1>2, <2>2
<1>4. Len(s) = k
  BY <1>2
<1>5. Total(s) \in Int
  BY <1>3, <1>4, TotalIsNumber
<1> QED BY <1>1, <1>2, <1>5 DEF LayerX

LEMMA CentreKeeps ==
  ASSUME PlacementInv, Centre
  PROVE  placed' \in Positions /\ InLayers(placed')
<1>1. netlist \in Netlists /\ nodeGaps = MeasuredNodeGaps /\ layerGaps = MeasuredLayerGaps
  BY DEF PlacementInv, Centre
<1>2. GapsAreNumbers
  BY <1>1, NodeGapsAreNumbers
<1>3. PICK nodes : nodes = placed'
  OBVIOUS
<1>4. nodes = [n \in Nodes |->
            [x |-> LayerX(Rank(n)) + (IF n \in netlist.outputs THEN Width(Rank(n)) - netlist.width[n] ELSE 0),
             y |-> (CanvasHeight - Height(Rank(n) + 1)) \div 2
                     + OffsetIn(Rank(n) + 1, PositionIn(Layers[Rank(n) + 1], n))]]
  BY <1>3 DEF Centre
<1>5. ASSUME NEW l \in DOMAIN Layers, Nodes # {} PROVE (CanvasHeight - Height(l)) \div 2 \in Int
  <2>1. CanvasHeight - Height(l) \in Int
    BY <1>1, <1>2, <1>5, HeightFacts
  <2>2. PICK z \in Int : z = CanvasHeight - Height(l)
    BY <2>1
  <2>3. z \div 2 \in Int
    OBVIOUS
  <2> QED BY <2>2, <2>3
<1>6. ASSUME NEW n \in Nodes PROVE nodes[n] \in [x : Int, y : Int]
  <2>1. LayerX(Rank(n)) \in Int /\ Width(Rank(n)) \in Int /\ netlist.width[n] \in Int
    BY <1>1, LayerXFacts, WidthFacts, NodeFacts
  <2>2. Rank(n) + 1 \in DOMAIN Layers /\ PositionIn(Layers[Rank(n) + 1], n) \in 1..Len(Layers[Rank(n) + 1])
    BY <1>1, NodeFacts
  <2>3. OffsetIn(Rank(n) + 1, PositionIn(Layers[Rank(n) + 1], n)) \in Int
    BY <1>1, <1>2, <2>2, OffsetFacts
  <2>4. (CanvasHeight - Height(Rank(n) + 1)) \div 2 \in Int
    BY <1>5, <2>2
  <2>5. LayerX(Rank(n)) + (IF n \in netlist.outputs THEN Width(Rank(n)) - netlist.width[n] ELSE 0) \in Int
    BY <2>1
  <2>6. (CanvasHeight - Height(Rank(n) + 1)) \div 2
                     + OffsetIn(Rank(n) + 1, PositionIn(Layers[Rank(n) + 1], n)) \in Int
    BY <2>3, <2>4
  <2> QED BY <1>4, <2>5, <2>6
<1>7. nodes \in Positions
  BY <1>4, <1>6 DEF Positions
<1>8. ASSUME NEW l \in DOMAIN Layers, NEW p \in 1..(Len(Layers[l]) - 1)
      PROVE  nodes[Layers[l][p]].y + netlist.height[Layers[l][p]] + nodeGaps[l][p] <= nodes[Layers[l][p + 1]].y
  <2>1. p \in 1..Len(Layers[l]) /\ p + 1 \in 1..Len(Layers[l])
    BY <1>1, LayerFacts
  <2>2. PICK a \in Nodes, b \in Nodes : a = Layers[l][p] /\ b = Layers[l][p + 1]
    BY <1>1, <2>1, LayerFacts
  <2>3. Rank(a) + 1 = l /\ Rank(b) + 1 = l /\ PositionIn(Layers[l], a) = p /\ PositionIn(Layers[l], b) = p + 1
    BY <1>1, <2>1, <2>2, LayerFacts
  <2>4. PICK top \in Int : top = (CanvasHeight - Height(l)) \div 2
    BY <1>5
  <2>5. nodes[a].y = top + OffsetIn(l, p) /\ nodes[b].y = top + OffsetIn(l, p + 1)
    BY <1>4, <2>3, <2>4
  <2>6. OffsetIn(l, p) \in Int /\ OffsetIn(l, p + 1) = OffsetIn(l, p) + netlist.height[a] + nodeGaps[l][p]
    BY <1>1, <1>2, <2>1, <2>2, OffsetFacts
  <2>7. netlist.height[a] \in Int /\ nodeGaps[l][p] \in Int
    BY <1>1, <1>2, NodeFacts DEF GapsAreNumbers
  <2> QED BY ONLY <2>2, <2>4, <2>5, <2>6, <2>7
<1>9. InLayers(nodes)
  BY <1>8 DEF InLayers
<1> QED BY <1>3, <1>7, <1>9

LEMMA AlignKeeps ==
  ASSUME PlacementInv, AlignLayer
  PROVE  placed' \in Positions /\ InLayers(placed')
<1>1. netlist \in Netlists /\ nodeGaps = MeasuredNodeGaps /\ placed \in Positions /\ InLayers(placed)
      /\ turn \in Nat /\ turn < netlist.rounds * Turns
  BY DEF PlacementInv, Kept, AlignLayer
<1>2. GapsAreNumbers
  BY <1>1, NodeGapsAreNumbers
<1>3. PICK l \in DOMAIN Layers : l = LayerOfTurn(turn)
  BY <1>1, LayerOfTurnFacts
<1>4. PICK n \in Nat : n = Len(Layers[l])
  BY <1>1, LayerFacts
<1>5. PICK ys : ys = IsotonicProjection(TargetsOf(l).sums, TargetsOf(l).weights)
  OBVIOUS
<1>6. placed' = Shifted(placed, l, ys)
  BY <1>3, <1>5 DEF AlignLayer, TargetsOf, Preferred
<1>7. PICK s, w : s = TargetsOf(l).sums /\ w = TargetsOf(l).weights
  OBVIOUS
<1>8. Len(s) = n /\ \A i \in 1..n : s[i] \in Int /\ w[i] \in Int /\ w[i] > 0
  BY <1>1, <1>2, <1>4, <1>7, TargetsFacts
<1>9. /\ \A i \in 1..n : ys[i] \in Int
      /\ \A i \in 1..(n - 1) : ys[i] <= ys[i + 1]
  BY <1>5, <1>7, <1>8, ProjectionRises
<1>10. Shifted(placed, l, ys) \in Positions /\ InLayers(Shifted(placed, l, ys))
  BY ONLY <1>1, <1>2, <1>4, <1>9, l \in DOMAIN Layers, ShiftedKeeps
<1> QED BY <1>6, <1>10

LEMMA StraightenKeeps ==
  ASSUME PlacementInv, StraightenChains
  PROVE  straight'.nodes \in Positions /\ InLayers(straight'.nodes)
<1>1. netlist \in Netlists /\ nodeGaps = MeasuredNodeGaps /\ placed \in Positions /\ InLayers(placed)
  BY DEF PlacementInv, Kept, StraightenChains, Aligned
<1>2. GapsAreNumbers
  BY <1>1, NodeGapsAreNumbers
<1>3. PICK chains : chains = Chains(PreferredEdges)
  OBVIOUS
<1>4. PICK candidate : candidate = IF chains = {} THEN placed ELSE Candidate(ChainTargets(chains))
  OBVIOUS
<1>5. candidate \in Positions /\ InLayers(candidate)
  <2>1. Wanted(ChainTargets(chains))
    BY <1>1, <1>3, TargetsAreNumbers
  <2>2. Candidate(ChainTargets(chains)) \in Positions /\ InLayers(Candidate(ChainTargets(chains)))
    BY <1>1, <1>2, <2>1, CandidateKeeps
  <2> QED BY <1>1, <1>4, <2>2
<1>6. straight' = IF chains # {} /\ WorthStraightening(candidate, ChainEdges(chains))
                     THEN [nodes |-> candidate, edges |-> ChainEdges(chains)]
                     ELSE [nodes |-> placed, edges |-> {}]
  BY <1>3, <1>4 DEF StraightenChains
<1>7. straight'.nodes \in {candidate, placed}
  BY <1>6
<1> QED BY <1>1, <1>5, <1>7

\* What a step does not change.
LEMMA KeptAlong ==
  ASSUME netlist' = netlist, nodeGaps' = nodeGaps, NEW nodes
  PROVE  /\ (nodes \in Positions)' <=> nodes \in Positions
         /\ InLayers(nodes)' <=> InLayers(nodes)
BY DEF Positions, Nodes, InLayers, Layers

LEMMA MeasuredAlong ==
  ASSUME netlist' = netlist
  PROVE  MeasuredNodeGaps' = MeasuredNodeGaps /\ MeasuredLayerGaps' = MeasuredLayerGaps
<1>1. MeasuredNodeGaps' = MeasuredNodeGaps
  BY DEF MeasuredNodeGaps, NodeGap, Layers, Edges, Rank, Nodes, Options, LaneGap, LayerGap, Forward,
         ForwardEdges, HalfSpan, BundlesOf, Above, Below, Envelope, BaseGap, WideGap, Escapes, Boundary,
         Transit, PositionIn, Most, Least, Largest
<1>2. MeasuredLayerGaps' = MeasuredLayerGaps
  BY DEF MeasuredLayerGaps, ReserveCorridors, DemandAwareLayerGap, Active, Difference, MergedBounds,
         SpansOf, Covered, Corridor, BundleGap, RailDepth, Width, Layers, Edges, Rank, Nodes, Options,
         LaneGap, LayerGap, Forward, ForwardEdges, Most, Largest, Total
<1> QED BY <1>1, <1>2

LEMMA InitPlaces == PlacementInit => PlacementInv
BY DEF PlacementInit, PlacementInv

LEMMA NextPlaces == PlacementInv /\ [PlacementNext]_placementVars => PlacementInv'
<1> SUFFICES ASSUME PlacementInv, [PlacementNext]_placementVars PROVE PlacementInv'
  OBVIOUS
<1>0. netlist' = netlist
  BY DEF PlacementNext, placementVars, Measure, Centre, AlignLayer, StraightenChains, PlacementDone
<1>00. MeasuredNodeGaps' = MeasuredNodeGaps /\ MeasuredLayerGaps' = MeasuredLayerGaps
  BY <1>0, MeasuredAlong
<1>1. CASE Measure
  <2>1. nodeGaps = None
    BY <1>1 DEF Measure
  <2>2. placed = None /\ straight = None
    BY <2>1 DEF PlacementInv, Kept
  <2>3. nodeGaps' = MeasuredNodeGaps /\ layerGaps' = MeasuredLayerGaps
        /\ placed' = placed /\ straight' = straight /\ turn' = turn
    BY <1>1 DEF Measure, MeasuredNodeGaps, MeasuredLayerGaps
  <2> QED BY <1>0, <1>00, <2>2, <2>3 DEF PlacementInv
<1>2. CASE Centre
  <2>1. nodeGaps # None /\ nodeGaps' = nodeGaps /\ layerGaps' = layerGaps /\ turn' = turn /\ straight' = straight
    BY <1>2 DEF Centre
  <2>2. placed' \in Positions /\ InLayers(placed')
    BY <1>2, CentreKeeps
  <2>3. Kept(placed)'
    BY <1>0, <2>1, <2>2 DEF Kept, Positions, Nodes, InLayers, Layers
  <2>4. straight # None => Kept(straight.nodes)'
    BY <1>0, <2>1, KeptAlong DEF Kept, PlacementInv
  <2> QED BY <1>0, <1>00, <2>1, <2>3, <2>4 DEF PlacementInv
<1>3. CASE AlignLayer
  <2>1. placed # None /\ nodeGaps' = nodeGaps /\ layerGaps' = layerGaps /\ turn' = turn + 1 /\ straight' = straight
    BY <1>3 DEF AlignLayer
  <2>2. placed' \in Positions /\ InLayers(placed')
    BY <1>3, AlignKeeps
  <2>3. Kept(placed)'
    BY <1>0, <2>1, <2>2 DEF Kept, Positions, Nodes, InLayers, Layers, PlacementInv
  <2>4. straight # None => Kept(straight.nodes)'
    BY <1>0, <2>1, KeptAlong DEF Kept, PlacementInv
  <2>5. turn' \in Nat
    BY <2>1 DEF PlacementInv
  <2> QED BY <1>0, <1>00, <2>1, <2>3, <2>4, <2>5 DEF PlacementInv
<1>4. CASE StraightenChains
  <2>1. placed # None /\ nodeGaps' = nodeGaps /\ layerGaps' = layerGaps /\ turn' = turn /\ placed' = placed
    BY <1>4 DEF StraightenChains, Aligned
  <2>2. straight'.nodes \in Positions /\ InLayers(straight'.nodes)
    BY <1>4, StraightenKeeps
  <2>3. Kept(placed)'
    BY <1>0, <2>1, KeptAlong DEF Kept, PlacementInv
  <2>4. Kept(straight.nodes)'
    BY <1>0, <2>1, <2>2 DEF Kept, Positions, Nodes, InLayers, Layers, PlacementInv
  <2> QED BY <1>0, <1>00, <2>1, <2>3, <2>4 DEF PlacementInv
<1>5. CASE PlacementDone \/ UNCHANGED placementVars
  <2>1. /\ nodeGaps' = nodeGaps /\ layerGaps' = layerGaps /\ turn' = turn /\ placed' = placed
        /\ straight' = straight
    BY <1>5 DEF PlacementDone, placementVars
  <2>2. placed # None => Kept(placed)'
    BY <1>0, <2>1, KeptAlong DEF Kept, PlacementInv
  <2>3. straight # None => Kept(straight.nodes)'
    BY <1>0, <2>1, KeptAlong DEF Kept, PlacementInv
  <2> QED BY <1>0, <1>00, <2>1, <2>2, <2>3 DEF PlacementInv
<1> QED BY <1>1, <1>2, <1>3, <1>4, <1>5 DEF PlacementNext

LEMMA PlacementSteps == PlacementSpec => []PlacementInv
BY InitPlaces, NextPlaces, PTL DEF PlacementSpec

(* Between layers every net has its lane and every bundle its room, and no  *)
(* more, for every netlist (demand_aware_layer_gaps,                        *)
(* reserve_boundary_bundle_corridors).                                      *)
THEOREM GapsAreAsWide == PlacementSpec => []GapsHoldTheirNets
<1>1. PlacementInv => GapsHoldTheirNets
  <2> SUFFICES ASSUME PlacementInv PROVE GapsHoldTheirNets
    OBVIOUS
  <2>1. CASE layerGaps # None
    BY <2>1, MeasuredGapsHoldTheirNets DEF PlacementInv
  <2>2. CASE layerGaps = None
    BY <2>2 DEF GapsHoldTheirNets
  <2> QED BY <2>1, <2>2
<1> QED BY <1>1, PlacementSteps, PTL

(* However often nodes are pulled at, a layer keeps its order and its gaps, *)
(* and what the gaps forbid is given up where it costs least: the values of *)
(* the projection are the greatest of the least means of the runs around a  *)
(* node (align_layer_with_gaps, place_straight_chain_nodes,                 *)
(* isotonic_projection).                                                    *)
THEOREM LayersKeepTheirOrder == PlacementSpec => []AlignmentKeepsGaps
<1>1. PlacementInv => AlignmentKeepsGaps
  <2> SUFFICES ASSUME PlacementInv PROVE AlignmentKeepsGaps
    OBVIOUS
  <2>1. LayersKeepTheirGaps
    BY DEF LayersKeepTheirGaps, PlacementInv, Kept
  <2>2. CASE placed = None
    BY <2>1, <2>2 DEF AlignmentKeepsGaps, ProjectionIsNearest
  <2>3. CASE placed # None
    <3>1. netlist \in Netlists /\ placed \in Positions /\ turn \in Nat /\ nodeGaps = MeasuredNodeGaps
      BY <2>3 DEF PlacementInv, Kept
    <3>2. GapsAreNumbers
      BY <3>1, NodeGapsAreNumbers
    <3>3. ProjectionIsNearest
      BY <3>1, <3>2, NearestTargets
    <3> QED BY <2>1, <3>3 DEF AlignmentKeepsGaps
  <2> QED BY <2>2, <2>3
<1> QED BY <1>1, PlacementSteps, PTL

-----------------------------------------------------------------------------
(* Parts that wires connect.                                               *)

Grow(wires, set) ==
  set \cup UNION {{w.source, w.target} : w \in {v \in wires : {v.source, v.target} \cap set # {}}}
Touching(wires, set) == {w \in wires : w.source \in set \/ w.target \in set}
ClosedOver(wires, set) == \A w \in wires : w.source \in set <=> w.target \in set

\* What is reached after every number of steps.
ReachStages(from, wires, n, g) ==
  /\ g = [i \in 0..n |-> IF i = 0 THEN {from} ELSE Grow(wires, g[i - 1])]
  /\ Reached(from, wires) = g[n]

LEMMA GrowFacts ==
  ASSUME NEW wires, NEW set
  PROVE  /\ set \subseteq Grow(wires, set)
         /\ \A w \in Touching(wires, set) : w.source \in Grow(wires, set) /\ w.target \in Grow(wires, set)
         /\ \A big : set \subseteq big /\ ClosedOver(wires, big) => Grow(wires, set) \subseteq big
         /\ ClosedOver(wires, set) => Grow(wires, set) = set
<1>1. \A x : x \in Grow(wires, set) <=>
               \/ x \in set
               \/ \E w \in Touching(wires, set) : x = w.source \/ x = w.target
  <2>1. \A w : w \in Touching(wires, set) <=> w \in {v \in wires : {v.source, v.target} \cap set # {}}
    BY DEF Touching
  <2> QED BY <2>1 DEF Grow
<1>2. \A w : w \in Touching(wires, set) <=> w \in wires /\ (w.source \in set \/ w.target \in set)
  BY DEF Touching
<1>3. ASSUME NEW big, set \subseteq big, ClosedOver(wires, big) PROVE Grow(wires, set) \subseteq big
  <2>1. \A w \in Touching(wires, set) : w.source \in big /\ w.target \in big
    BY <1>2, <1>3 DEF ClosedOver
  <2> QED BY <1>1, <1>3, <2>1
<1> QED BY <1>1, <1>3

LEMMA ReachInStages ==
  ASSUME NEW from, NEW wires, IsFiniteSet(wires), NEW n \in Nat, n = Cardinality(wires)
  PROVE  \E g : ReachStages(from, wires, n, g)
<1>1. PICK all : all = {from} \cup UNION {{w.source, w.target} : w \in wires}
  OBVIOUS
<1>2. PICK V : V = SUBSET all
  OBVIOUS
<1>3. PICK apply : apply = [p \in (1..n) \X V |-> Grow(wires, p[2])]
  OBVIOUS
<1>4. ASSUME NEW i \in 1..n, NEW v \in V
      PROVE  apply[<<i, v>>] = Grow(wires, v) /\ apply[<<i, v>>] \in V
  <2>1. apply[<<i, v>>] = Grow(wires, v)
    BY <1>3
  <2>2. ClosedOver(wires, all) /\ v \subseteq all
    BY <1>1, <1>2 DEF ClosedOver
  <2>3. Grow(wires, v) \subseteq all
    BY <2>2, GrowFacts
  <2> QED BY <1>2, <2>1, <2>3
<1>5. PICK h \in [0..n -> V] : h[0] = {from} /\ \A i \in 1..n : h[i] = apply[<<i, h[i - 1]>>]
  <2>1. {from} \in V
    BY <1>1, <1>2
  <2>2. \A i \in 1..n : \A v \in V : apply[<<i, v>>] \in V
    BY <1>4
  <2>3. StagesFrom(n, V, {from}, apply) # {}
    BY ONLY <2>1, <2>2, n \in Nat, StagesExist
  <2> QED BY <2>3 DEF StagesFrom
<1>6. h = [i \in 0..n |-> IF i = 0 THEN {from} ELSE Grow(wires, h[i - 1])]
  <2>1. ASSUME NEW i \in 1..n PROVE h[i] = Grow(wires, h[i - 1])
    <3>1. i - 1 \in 0..n
      OBVIOUS
    <3> QED BY <1>4, <1>5, <3>1
  <2> QED BY <1>5, <2>1
<1>7. PICK g : g = CHOOSE f : f = [i \in 0..n |-> IF i = 0 THEN {from} ELSE Grow(wires, f[i - 1])]
  OBVIOUS
<1>8. g = [i \in 0..n |-> IF i = 0 THEN {from} ELSE Grow(wires, g[i - 1])]
  BY <1>6, <1>7
<1>9. Reached(from, wires) = g[n]
  BY ONLY <1>7, n = Cardinality(wires) DEF Reached, Grow
<1> QED BY <1>8, <1>9 DEF ReachStages

\* As many steps as there are wires are enough: every step but the last finds a new wire.
LEMMA ReachedFacts ==
  ASSUME NEW from, NEW wires, IsFiniteSet(wires)
  PROVE  /\ from \in Reached(from, wires)
         /\ ClosedOver(wires, Reached(from, wires))
         /\ \A big : from \in big /\ ClosedOver(wires, big) => Reached(from, wires) \subseteq big
<1>1. PICK n \in Nat : n = Cardinality(wires)
  BY FS_CardinalityType
<1>2. PICK g : ReachStages(from, wires, n, g)
  BY <1>1, ReachInStages
<1>3. /\ Reached(from, wires) = g[n] /\ g[0] = {from}
      /\ \A i \in Nat : i + 1 <= n => g[i + 1] = Grow(wires, g[i])
  <2>1. g = [i \in 0..n |-> IF i = 0 THEN {from} ELSE Grow(wires, g[i - 1])]
    BY <1>2 DEF ReachStages
  <2>2. g[0] = {from}
    BY <2>1
  <2>3. ASSUME NEW i \in Nat, i + 1 <= n PROVE g[i + 1] = Grow(wires, g[i])
    <3>1. i + 1 \in 0..n /\ i + 1 # 0 /\ (i + 1) - 1 = i
      BY <2>3
    <3>2. g[i + 1] = Grow(wires, g[(i + 1) - 1])
      BY <2>1, <3>1
    <3> QED BY <3>1, <3>2
  <2> QED BY <1>2, <2>2, <2>3 DEF ReachStages
<1>4. \A i \in Nat : IsFiniteSet(Touching(wires, g[i])) /\ Cardinality(Touching(wires, g[i])) \in Nat
                     /\ Cardinality(Touching(wires, g[i])) <= n
  <2>1. \A set : Touching(wires, set) \subseteq wires
    BY DEF Touching
  <2> QED BY <1>1, <2>1, FS_Subset, FS_CardinalityType
<1>5. PICK Good : Good = {i \in Nat : i <= n => /\ from \in g[i]
                                               /\ (\/ ClosedOver(wires, g[i])
                                                   \/ Cardinality(Touching(wires, g[i])) >= i + 1)}
  OBVIOUS
<1>6. ASSUME NEW set, NEW more, ~ ClosedOver(wires, more), more = Grow(wires, set)
      PROVE  \E w \in wires : w \notin Touching(wires, set) /\ w \in Touching(wires, more)
  <2>1. PICK w \in wires : ~ (w.source \in more <=> w.target \in more)
    BY <1>6 DEF ClosedOver
  <2>2. w \notin Touching(wires, set)
    BY <1>6, <2>1, GrowFacts
  <2>3. w \in Touching(wires, more)
    BY <2>1 DEF Touching
  <2> QED BY <2>2, <2>3
<1>7. 0 \in Good
  <2>1. ASSUME ~ ClosedOver(wires, g[0]) PROVE Cardinality(Touching(wires, g[0])) >= 1
    <3>1. PICK w \in wires : w \in Touching(wires, g[0])
      <4>1. PICK w \in wires : ~ (w.source \in g[0] <=> w.target \in g[0])
        BY <2>1 DEF ClosedOver
      <4> QED BY <4>1 DEF Touching
    <3>2. PICK T : T = Touching(wires, g[0])
      OBVIOUS
    <3>3. IsFiniteSet(T) /\ T # {} /\ Cardinality(T) \in Nat
      BY <1>4, <3>1, <3>2
    <3>4. Cardinality(T) # 0
      BY <3>3, FS_EmptySet
    <3> QED BY <3>2, <3>3, <3>4
  <2>2. from \in g[0] /\ 0 + 1 = 1
    BY <1>3
  <2>3. 0 \in Nat
    OBVIOUS
  <2> QED BY ONLY <1>5, <2>1, <2>2, <2>3
<1>8. ASSUME NEW i \in Nat, i \in Good PROVE i + 1 \in Good
  <2> SUFFICES ASSUME i + 1 <= n
               PROVE  /\ from \in g[i + 1]
                      /\ (\/ ClosedOver(wires, g[i + 1])
                          \/ Cardinality(Touching(wires, g[i + 1])) >= i + 2)
    BY <1>5
  <2>1. g[i + 1] = Grow(wires, g[i])
    BY <1>3
  <2>2. /\ from \in g[i]
        /\ (\/ ClosedOver(wires, g[i])  \/ Cardinality(Touching(wires, g[i])) >= i + 1)
    BY <1>5, <1>8
  <2>3. from \in g[i + 1]
    BY <2>1, <2>2, GrowFacts
  <2>4. ASSUME ~ ClosedOver(wires, g[i + 1]) PROVE Cardinality(Touching(wires, g[i + 1])) >= i + 2
    <3>1. PICK T, U : T = Touching(wires, g[i]) /\ U = Touching(wires, g[i + 1])
      OBVIOUS
    <3>2. PICK w \in wires : w \notin T /\ w \in U
      BY <1>6, <2>1, <2>4, <3>1
    <3>3. T \subseteq U
      BY <2>1, <3>1, GrowFacts DEF Touching
    <3>4. ~ ClosedOver(wires, g[i])
      BY <2>1, <2>4, GrowFacts
    <3>5. Cardinality(T) >= i + 1 /\ IsFiniteSet(T) /\ IsFiniteSet(U)
          /\ Cardinality(T) \in Nat /\ Cardinality(U) \in Nat
      BY <1>4, <2>2, <3>1, <3>4
    <3>6. Cardinality(T) <= Cardinality(U) /\ (Cardinality(T) = Cardinality(U) => T = U)
      BY <3>3, <3>5, FS_Subset
    <3>7. Cardinality(T) # Cardinality(U)
      BY <3>2, <3>6
    <3>8. Cardinality(U) >= i + 2
      BY <3>5, <3>6, <3>7
    <3> QED BY <3>1, <3>8
  <2> QED BY <2>3, <2>4
<1>9. n \in Good
  BY <1>7, <1>8, CountingUp
<1>10. from \in g[n] /\ ClosedOver(wires, g[n])
  <2>1. /\ from \in g[n]
        /\ (\/ ClosedOver(wires, g[n])  \/ Cardinality(Touching(wires, g[n])) >= n + 1)
    BY <1>5, <1>9
  <2>2. Cardinality(Touching(wires, g[n])) \in Nat /\ Cardinality(Touching(wires, g[n])) <= n
    BY <1>4
  <2> QED BY <2>1, <2>2
<1>11. ASSUME NEW big, from \in big, ClosedOver(wires, big) PROVE g[n] \subseteq big
  <2>1. PICK Inner : Inner = {i \in Nat : i <= n => g[i] \subseteq big}
    OBVIOUS
  <2>2. 0 \in Inner
    BY <1>3, <1>11, <2>1
  <2>3. ASSUME NEW i \in Nat, i \in Inner PROVE i + 1 \in Inner
    <3>1. ASSUME i + 1 <= n PROVE g[i + 1] \subseteq big
      <4>1. g[i] \subseteq big
        BY <2>1, <2>3, <3>1
      <4>2. g[i + 1] = Grow(wires, g[i])
        BY <1>3, <3>1
      <4> QED BY <1>11, <4>1, <4>2, GrowFacts
    <3> QED BY <2>1, <3>1
  <2>4. n \in Inner
    BY <2>2, <2>3, CountingUp
  <2> QED BY <2>1, <2>4
<1> QED BY <1>3, <1>10, <1>11

\* What is reached from a part is that part.
LEMMA ReachedIsPart ==
  ASSUME NEW m, NEW n, NEW wires, IsFiniteSet(wires), n \in Reached(m, wires)
  PROVE  Reached(n, wires) = Reached(m, wires)
<1>1. PICK M, N : M = Reached(m, wires) /\ N = Reached(n, wires)
  OBVIOUS
<1>2. m \in M /\ n \in M /\ n \in N /\ ClosedOver(wires, M) /\ ClosedOver(wires, N)
  BY <1>1, ReachedFacts
<1>3. N \subseteq M
  BY <1>1, <1>2, ReachedFacts
<1>4. m \in N
  <2> SUFFICES ASSUME m \notin N PROVE FALSE
    OBVIOUS
  <2>1. PICK U : U = M \ N
    OBVIOUS
  <2>2. ClosedOver(wires, U)
    BY <1>2, <2>1 DEF ClosedOver
  <2>3. M \subseteq U
    <3>1. m \in U
      BY <1>2, <2>1
    <3> QED BY <1>1, <2>2, <3>1, ReachedFacts
  <2> QED BY <1>2, <2>1, <2>3
<1>5. M \subseteq N
  BY <1>1, <1>2, <1>4, ReachedFacts
<1> QED BY <1>1, <1>3, <1>5

-----------------------------------------------------------------------------
(* Least and greatest sides.                                               *)

IsBox(b) == b.left \in Int /\ b.top \in Int /\ b.right \in Int /\ b.bottom \in Int
IsWithin(a, b) == b.left <= a.left /\ b.top <= a.top /\ a.right <= b.right /\ a.bottom <= b.bottom

\* The hull of boxes has all of them, and each of its sides is one of theirs.
LEMMA HullFacts ==
  ASSUME NEW S, IsFiniteSet(S), S # {}, \A b \in S : IsBox(b)
  PROVE  /\ IsBox(Hull(S))
         /\ \A b \in S : IsWithin(b, Hull(S))
         /\ \E b \in S : Hull(S).left = b.left
         /\ \E b \in S : Hull(S).top = b.top
         /\ \E b \in S : Hull(S).right = b.right
         /\ \E b \in S : Hull(S).bottom = b.bottom
<1>1. PICK f : f = [b \in S |-> b.left]
  OBVIOUS
<1>2. PICK g : g = [b \in S |-> b.top]
  OBVIOUS
<1>3. PICK h : h = [b \in S |-> b.right]
  OBVIOUS
<1>4. PICK k : k = [b \in S |-> b.bottom]
  OBVIOUS
<1>5. PICK L, T, R, B : L = Values(f, S) /\ T = Values(g, S) /\ R = Values(h, S) /\ B = Values(k, S)
  OBVIOUS
<1>6. IsFiniteSet(L) /\ IsFiniteSet(T) /\ IsFiniteSet(R) /\ IsFiniteSet(B)
  BY <1>5, ImageIsFinite DEF Values
<1>7. /\ L = {b.left : b \in S} /\ T = {b.top : b \in S}
      /\ R = {b.right : b \in S} /\ B = {b.bottom : b \in S}
  BY <1>1, <1>2, <1>3, <1>4, <1>5 DEF Values
<1>8. L \subseteq Int /\ T \subseteq Int /\ R \subseteq Int /\ B \subseteq Int
      /\ L # {} /\ T # {} /\ R # {} /\ B # {}
  BY <1>7 DEF IsBox
<1>9. PICK l, t, r, b : l = Smallest(L) /\ t = Smallest(T) /\ r = Largest(R) /\ b = Largest(B)
  OBVIOUS
<1>10. /\ l \in L /\ l \in Int /\ \A y \in L : l <= y
       /\ t \in T /\ t \in Int /\ \A y \in T : t <= y
  BY <1>6, <1>8, <1>9, SmallestFacts
<1>11. /\ r \in R /\ r \in Int /\ \A y \in R : y <= r
       /\ b \in B /\ b \in Int /\ \A y \in B : y <= b
  BY <1>6, <1>8, <1>9, LargestFacts
<1>12. Hull(S).left = l /\ Hull(S).top = t /\ Hull(S).right = r /\ Hull(S).bottom = b
  BY <1>7, <1>9 DEF Hull, Box
<1>13. IsBox(Hull(S))
  BY <1>10, <1>11, <1>12 DEF IsBox
<1>14. \A c \in S : c.left \in L /\ c.top \in T /\ c.right \in R /\ c.bottom \in B
  BY <1>7
<1>15. \A c \in S : IsWithin(c, Hull(S))
  BY <1>10, <1>11, <1>12, <1>14 DEF IsWithin
<1>16. (\E c \in S : l = c.left) /\ (\E c \in S : t = c.top) /\ (\E c \in S : r = c.right)
       /\ (\E c \in S : b = c.bottom)
  BY <1>7, <1>10, <1>11
<1> QED BY <1>12, <1>13, <1>15, <1>16

-----------------------------------------------------------------------------
(* Parts and their order.                                                  *)

PartsOf(members, wires) == {Reached(n, wires) : n \in members}
LeastFirst(parts) == {p \in parts \X parts : Smallest(p[1]) < Smallest(p[2])}

LEMMA PartFacts ==
  ASSUME NEW members, members \subseteq Nat, IsFiniteSet(members), NEW wires, IsFiniteSet(wires),
         \A w \in wires : w.source \in members /\ w.target \in members
  PROVE  /\ IsFiniteSet(PartsOf(members, wires))
         /\ \A p \in PartsOf(members, wires) : p \subseteq members /\ p # {} /\ IsFiniteSet(p)
         /\ \A n \in members : n \in Reached(n, wires) /\ Reached(n, wires) \in PartsOf(members, wires)
         /\ \A p, q \in PartsOf(members, wires) : p \cap q # {} => p = q
<1>1. ClosedOver(wires, members)
  BY DEF ClosedOver
<1>2. \A n \in members : n \in Reached(n, wires) /\ Reached(n, wires) \subseteq members
  BY <1>1, ReachedFacts
<1>3. PICK f : f = [n \in members |-> Reached(n, wires)]
  OBVIOUS
<1>4. PICK P : P = {f[n] : n \in members}
  OBVIOUS
<1>5. P = PartsOf(members, wires)
  BY <1>3, <1>4 DEF PartsOf
<1>6. IsFiniteSet(P)
  BY <1>4, ImageIsFinite
<1>7. \A p \in P : \E n \in members : p = Reached(n, wires)
  BY <1>3, <1>4
<1>8. \A p \in P : p \subseteq members /\ p # {} /\ IsFiniteSet(p)
  BY <1>2, <1>7, FS_Subset
<1>9. ASSUME NEW p \in P, NEW q \in P, p \cap q # {} PROVE p = q
  <2>1. PICK m \in members, n \in members : p = Reached(m, wires) /\ q = Reached(n, wires)
    BY <1>7
  <2>2. PICK x : x \in p /\ x \in q
    BY <1>9
  <2>3. Reached(x, wires) = Reached(m, wires)
    BY <2>1, <2>2, ReachedIsPart
  <2>4. Reached(x, wires) = Reached(n, wires)
    BY <2>1, <2>2, ReachedIsPart
  <2> QED BY <2>1, <2>3, <2>4
<1>10. \A n \in members : Reached(n, wires) \in P
  BY <1>3, <1>4
<1> QED BY <1>2, <1>5, <1>6, <1>8, <1>9, <1>10

\* The parts in a list: every member is in one of them and in no other.
ArePartsOf(parts, members) ==
  /\ Len(parts) \in Nat /\ DOMAIN parts = 1..Len(parts)
  /\ \A i \in 1..Len(parts) : parts[i] \subseteq members /\ parts[i] # {}
  /\ \A n \in members : \E i \in 1..Len(parts) : n \in parts[i]
  /\ \A i, j \in 1..Len(parts) : parts[i] \cap parts[j] # {} => i = j

LEMMA ComponentFacts ==
  ASSUME NEW members, members \subseteq Nat, IsFiniteSet(members), NEW wires, IsFiniteSet(wires),
         \A w \in wires : w.source \in members /\ w.target \in members
  PROVE  ArePartsOf(Components(members, wires), members)
<1>1. PICK P : P = PartsOf(members, wires)
  OBVIOUS
<1>2. /\ IsFiniteSet(P)
      /\ \A p \in P : p \subseteq members /\ p # {} /\ IsFiniteSet(p)
      /\ \A n \in members : n \in Reached(n, wires) /\ Reached(n, wires) \in P
      /\ \A p, q \in P : p \cap q # {} => p = q
  BY ONLY <1>1, members \subseteq Nat, IsFiniteSet(members), IsFiniteSet(wires),
          \A w \in wires : w.source \in members /\ w.target \in members, PartFacts
<1>3. \A p \in P : Smallest(p) \in p /\ Smallest(p) \in Int
  <2>1. ASSUME NEW p \in P PROVE p \subseteq Int
    <3>1. p \subseteq members
      BY <1>2
    <3>2. \A x \in members : x \in Int
      OBVIOUS
    <3> QED BY <3>1, <3>2
  <2> QED BY <1>2, <2>1, SmallestFacts
<1>4. \A p, q \in P : Smallest(p) = Smallest(q) => p = q
  BY <1>2, <1>3
<1>5. PICK before : before = LeastFirst(P)
  OBVIOUS
<1>6. \A p, q \in P : <<p, q>> \in before <=> Smallest(p) < Smallest(q)
  BY <1>5 DEF LeastFirst
<1>7. StrictlyOrders(before, P)
  BY <1>3, <1>4, <1>6 DEF StrictlyOrders
<1>8. PICK n \in Nat : n = Cardinality(P)
  BY <1>2, FS_CardinalityType
<1>9. PICK order : order = [i \in 1..n |-> CHOOSE x \in P :
                                  Cardinality({y \in P : Smallest(y) < Smallest(x)}) = i - 1]
  OBVIOUS
<1>10. Components(members, wires) = order
  BY ONLY <1>1, <1>8, <1>9 DEF Components, PartsOf, InOrder
<1>11. RanksBy(order, P, before)
  <2>1. \A x \in P : {y \in P : Smallest(y) < Smallest(x)} = AheadOf(P, before, x)
    BY <1>6 DEF AheadOf
  <2>2. ASSUME NEW i \in 1..n
        PROVE  order[i] \in P /\ Cardinality(AheadOf(P, before, order[i])) = i - 1
    <3>1. \E x \in P : Cardinality(AheadOf(P, before, x)) = i - 1
      BY ONLY <1>2, <1>7, <1>8, i \in 1..n, RankIsHeld
    <3>2. \E x \in P : Cardinality({y \in P : Smallest(y) < Smallest(x)}) = i - 1
      BY <2>1, <3>1
    <3>3. order[i] \in P /\ Cardinality({y \in P : Smallest(y) < Smallest(order[i])}) = i - 1
      BY <1>9, <3>2
    <3> QED BY <2>1, <3>3
  <2>3. order \in [1..n -> P]
    BY <1>9, <2>2
  <2> QED BY <1>8, <2>2, <2>3 DEF RanksBy
<1>12. /\ Len(order) = n /\ DOMAIN order = 1..n
       /\ \A i \in 1..n : order[i] \in P
       /\ \A x \in P : \E i \in 1..n : order[i] = x
       /\ \A i, j \in 1..n : order[i] = order[j] => i = j
  BY ONLY <1>2, <1>7, <1>8, <1>11, RanksListAll
<1>13. ArePartsOf(order, members)
  <2>1. \A i \in 1..n : order[i] \subseteq members /\ order[i] # {}
    BY <1>2, <1>12
  <2>2. \A x \in members : \E i \in 1..n : x \in order[i]
    BY <1>2, <1>12
  <2>3. \A i, j \in 1..n : order[i] \cap order[j] # {} => i = j
    BY <1>2, <1>12
  <2> QED BY <1>12, <2>1, <2>2, <2>3 DEF ArePartsOf
<1> QED BY <1>10, <1>13

-----------------------------------------------------------------------------
(* The boxes of nodes and of parts.                                        *)

IsRect(r) == r.x \in Int /\ r.y \in Int /\ r.width \in Nat \ {0} /\ r.height \in Nat \ {0}

LEMMA BoxOfFacts ==
  ASSUME NEW r, IsRect(r)
  PROVE  /\ IsBox(BoxOf(r))
         /\ BoxOf(r).left = r.x /\ BoxOf(r).top = r.y
         /\ BoxOf(r).right = r.x + r.width /\ BoxOf(r).bottom = r.y + r.height
         /\ BoxOf(r).left < BoxOf(r).right /\ BoxOf(r).top < BoxOf(r).bottom
<1>1. PICK b : b = BoxOf(r)
  OBVIOUS
<1>2. b.left = r.x /\ b.top = r.y /\ b.right = r.x + r.width /\ b.bottom = r.y + r.height
  BY <1>1 DEF BoxOf, Box
<1>3. r.x \in Int /\ r.y \in Int /\ r.width \in Int /\ r.height \in Int /\ r.width > 0 /\ r.height > 0
  BY DEF IsRect
<1> QED BY <1>1, <1>2, <1>3 DEF IsBox

LEMMA MembersBoxFacts ==
  ASSUME NEW members, IsFiniteSet(members), members # {}, NEW rects, \A n \in members : IsRect(rects[n])
  PROVE  /\ IsBox(MembersBox(rects, members))
         /\ \A n \in members : IsWithin(BoxOf(rects[n]), MembersBox(rects, members))
         /\ \E n \in members : MembersBox(rects, members).left = rects[n].x
         /\ \E n \in members : MembersBox(rects, members).top = rects[n].y
         /\ \E n \in members : MembersBox(rects, members).right = rects[n].x + rects[n].width
         /\ \E n \in members : MembersBox(rects, members).bottom = rects[n].y + rects[n].height
         /\ MembersBox(rects, members).top < MembersBox(rects, members).bottom
<1>1. PICK f : f = [n \in members |-> BoxOf(rects[n])]
  OBVIOUS
<1>2. PICK S : S = {f[n] : n \in members}
  OBVIOUS
<1>3. S = {BoxOf(rects[n]) : n \in members}
  BY <1>1, <1>2
<1>4. IsFiniteSet(S) /\ S # {}
  BY <1>2, ImageIsFinite
<1>5. \A b \in S : IsBox(b)
  BY <1>3, BoxOfFacts
<1>6. PICK hull : hull = Hull(S)
  OBVIOUS
<1>7. hull = MembersBox(rects, members)
  BY <1>3, <1>6 DEF MembersBox
<1>8. /\ IsBox(hull) /\ \A b \in S : IsWithin(b, hull)
      /\ \E b \in S : hull.left = b.left
      /\ \E b \in S : hull.top = b.top
      /\ \E b \in S : hull.right = b.right
      /\ \E b \in S : hull.bottom = b.bottom
  BY ONLY <1>4, <1>5, <1>6, HullFacts
<1>9. \A n \in members : IsWithin(BoxOf(rects[n]), hull)
  BY <1>3, <1>8
<1>10. /\ \E n \in members : hull.left = rects[n].x
       /\ \E n \in members : hull.top = rects[n].y
       /\ \E n \in members : hull.right = rects[n].x + rects[n].width
       /\ \E n \in members : hull.bottom = rects[n].y + rects[n].height
  BY <1>3, <1>8, BoxOfFacts
<1>11. hull.top < hull.bottom
  <2>1. PICK n \in members : TRUE
    OBVIOUS
  <2>2. PICK b : b = BoxOf(rects[n])
    OBVIOUS
  <2>3. IsBox(b) /\ b.top < b.bottom /\ IsWithin(b, hull)
    BY <1>9, <2>2, BoxOfFacts
  <2> QED BY <1>8, <2>3 DEF IsBox, IsWithin
<1> QED BY <1>7, <1>8, <1>9, <1>10, <1>11

LEMMA ComponentBoundsFacts ==
  ASSUME NEW members, IsFiniteSet(members), members # {}, NEW rects, \A n \in members : IsRect(rects[n]),
         NEW wires, IsFiniteSet(wires), \A w \in wires : w.points \in Seq(Int \X Int)
  PROVE  /\ IsBox(ComponentBounds(rects, members, wires))
         /\ \A n \in members : IsWithin(BoxOf(rects[n]), ComponentBounds(rects, members, wires))
         /\ WidthOf(ComponentBounds(rects, members, wires)) \in Nat \ {0}
         /\ HeightOf(ComponentBounds(rects, members, wires)) \in Nat \ {0}
<1>1. PICK f : f = [n \in members |-> BoxOf(rects[n])]
  OBVIOUS
<1>2. PICK S : S = {f[n] : n \in members}
  OBVIOUS
<1>3. S = {BoxOf(rects[n]) : n \in members}
  BY <1>1, <1>2
<1>4. IsFiniteSet(S) /\ S # {}
  BY <1>2, ImageIsFinite
<1>5. PICK own : own = {v \in wires : v.source \in members}
  OBVIOUS
<1>6. IsFiniteSet(own) /\ \A w \in own : w.points \in Seq(Int \X Int)
  BY <1>5, FS_Subset
<1>7. PICK at : at = [w \in own |-> {PointBox(p) : p \in Range(w.points)}]
  OBVIOUS
<1>8. ASSUME NEW w \in own PROVE IsFiniteSet(at[w]) /\ \A b \in at[w] : IsBox(b)
  <2>0. PICK s \in Seq(Int \X Int) : s = w.points
    BY <1>6
  <2>1. PICK k \in Nat : k = Len(s) /\ DOMAIN s = 1..k /\ \A i \in 1..k : s[i] \in Int \X Int
    OBVIOUS
  <2>2. PICK T : T = {s[i] : i \in 1..k}
    OBVIOUS
  <2>3. IsFiniteSet(T)
    <3>1. IsFiniteSet(1..k)
      BY FS_Interval, 1 \in Int, k \in Int
    <3> QED BY <2>2, <3>1, ImageIsFinite
  <2>4. T = Range(s)
    BY <2>1, <2>2 DEF Range
  <2>5. PICK h : h = [p \in T |-> PointBox(p)]
    OBVIOUS
  <2>6. PICK U : U = {h[p] : p \in T}
    OBVIOUS
  <2>7. U = {PointBox(p) : p \in T}
    BY <2>5, <2>6
  <2>8. at[w] = U
    BY <1>7, <2>0, <2>4, <2>7
  <2>9. IsFiniteSet(U)
    BY <2>3, <2>6, ImageIsFinite
  <2>10. \A p \in T : p[1] \in Int /\ p[2] \in Int
    BY <2>1, <2>2
  <2>11. \A p \in T : IsBox(PointBox(p))
    BY <2>10 DEF IsBox, PointBox, Box
  <2> QED BY <2>7, <2>8, <2>9, <2>11
<1>9. PICK F : F = {at[w] : w \in own}
  OBVIOUS
<1>10. F = {{PointBox(p) : p \in Range(w.points)} : w \in own}
  BY <1>7, <1>9
<1>11. IsFiniteSet(UNION F)
  <2>1. IsFiniteSet(F)
    BY <1>6, <1>9, ImageIsFinite
  <2>2. \A T \in F : IsFiniteSet(T)
    BY <1>8, <1>9
  <2> QED BY <2>1, <2>2, FS_UNION
<1>12. PICK A : A = S \cup UNION F
  OBVIOUS
<1>13. IsFiniteSet(A) /\ A # {} /\ S \subseteq A
  BY <1>4, <1>11, <1>12, FS_Union
<1>14. \A b \in A : IsBox(b)
  BY <1>3, <1>8, <1>9, <1>12, BoxOfFacts
<1>15. PICK hull : hull = Hull(A)
  OBVIOUS
<1>16. hull = ComponentBounds(rects, members, wires)
  BY ONLY <1>3, <1>5, <1>10, <1>12, <1>15 DEF ComponentBounds
<1>17. IsBox(hull) /\ \A b \in A : IsWithin(b, hull)
  BY ONLY <1>13, <1>14, <1>15, HullFacts
<1>18. \A n \in members : IsWithin(BoxOf(rects[n]), hull)
  BY <1>3, <1>13, <1>17
<1>19. WidthOf(hull) \in Nat \ {0} /\ HeightOf(hull) \in Nat \ {0}
  <2>1. PICK n \in members : TRUE
    OBVIOUS
  <2>2. PICK b : b = BoxOf(rects[n])
    OBVIOUS
  <2>3. IsBox(b) /\ b.top < b.bottom /\ b.left < b.right /\ IsWithin(b, hull)
    BY <1>18, <2>2, BoxOfFacts
  <2>4. hull.left < hull.right /\ hull.top < hull.bottom
    BY <1>17, <2>3 DEF IsBox, IsWithin
  <2> QED BY <1>17, <2>4 DEF IsBox, WidthOf, HeightOf
<1> QED BY <1>16, <1>17, <1>18, <1>19

-----------------------------------------------------------------------------
(* Rows and columns.                                                       *)

LEMMA BeginsApart ==
  ASSUME NEW n \in Nat, NEW w, \A i \in 0..(n - 1) : w[i] \in Nat, NEW apart \in Nat,
         NEW a \in 0..(n - 1), NEW b \in 0..(n - 1)
  PROVE  /\ Begins(w, a, apart) \in Int /\ Begins(w, b, apart) \in Int
         /\ a < b => Begins(w, a, apart) + w[a] + apart <= Begins(w, b, apart)
<1>1. PICK f : f = [k \in 1..n |-> w[k - 1] + apart]
  OBVIOUS
<1>2. \A k \in 1..n : f[k] = w[k - 1] + apart /\ f[k] \in Int /\ f[k] >= 0
  <2>1. ASSUME NEW k \in 1..n PROVE f[k] = w[k - 1] + apart /\ f[k] \in Int /\ f[k] >= 0
    <3>1. k - 1 \in 0..(n - 1) /\ f[k] = w[k - 1] + apart
      BY <1>1
    <3>2. w[k - 1] \in Nat
      BY <3>1
    <3> QED BY <3>1, <3>2
  <2> QED BY <2>1
<1>3. PICK h : Sums(n, f, h)
  BY <1>2, SumsExist
<1>4. \A k \in 1..n : h[k] = h[k - 1] + f[k]
  BY <1>3 DEF Sums
<1>5. \A k \in 0..n : h[k] \in Int
  BY <1>3 DEF Sums
<1>6. ASSUME NEW k \in 0..(n - 1) PROVE Begins(w, k, apart) = h[k]
  <2>1. k \in 0..n
    OBVIOUS
  <2>2. Total([i \in 1..k |-> f[i]]) = h[k]
    BY <1>3, <2>1, PrefixTotals
  <2>3. [i \in 1..k |-> f[i]] = [i \in 1..k |-> w[i - 1] + apart]
    BY <1>2
  <2> QED BY <2>2, <2>3 DEF Begins
<1>7. ASSUME a < b PROVE h[a] + f[a + 1] <= h[b]
  <2>1. PICK Good : Good = {d \in Nat : a + 1 + d <= n => h[a + 1] <= h[a + 1 + d]}
    OBVIOUS
  <2>2. a + 1 \in 1..n /\ (a + 1) - 1 = a /\ a + 1 + 0 = a + 1
    OBVIOUS
  <2>3. h[a + 1] = h[a] + f[a + 1] /\ h[a + 1] \in Int
    BY <1>4, <1>5, <2>2
  <2>4. 0 \in Good
    BY <2>1, <2>2, <2>3
  <2>5. ASSUME NEW d \in Nat, d \in Good PROVE d + 1 \in Good
    <3>1. ASSUME a + 1 + (d + 1) <= n PROVE h[a + 1] <= h[a + 1 + (d + 1)]
      <4>1. PICK k \in 1..n : k = a + 1 + (d + 1) /\ k - 1 = a + 1 + d /\ k - 1 \in 0..n /\ a + 1 + d <= n
        BY <3>1
      <4>2. h[k] = h[k - 1] + f[k] /\ f[k] \in Int /\ f[k] >= 0 /\ h[k - 1] \in Int
        BY <1>2, <1>4, <1>5, <4>1
      <4>3. h[a + 1] <= h[k - 1]
        BY <2>1, <2>5, <4>1
      <4> QED BY <2>3, <4>1, <4>2, <4>3
    <3> QED BY <2>1, <3>1
  <2>6. PICK d \in Nat : a + 1 + d = b
    <3>1. b - (a + 1) \in Nat /\ a + 1 + (b - (a + 1)) = b
      BY <1>7
    <3> QED BY <3>1
  <2>7. d \in Good
    BY <2>4, <2>5, CountingUp
  <2>8. h[a + 1] <= h[b]
    BY <2>1, <2>6, <2>7
  <2> QED BY <2>3, <2>8
<1>8. ASSUME a < b PROVE Begins(w, a, apart) + w[a] + apart <= Begins(w, b, apart)
  <2>1. f[a + 1] = w[a] + apart /\ w[a] \in Nat /\ h[a] \in Int
    <3>1. a + 1 \in 1..n /\ (a + 1) - 1 = a /\ a \in 0..n
      OBVIOUS
    <3> QED BY <1>2, <1>5, <3>1
  <2>2. h[a] + f[a + 1] <= h[b]
    BY <1>7, <1>8
  <2> QED BY <1>6, <2>1, <2>2
<1>9. Begins(w, a, apart) \in Int /\ Begins(w, b, apart) \in Int
  <2>1. a \in 0..n /\ b \in 0..n
    OBVIOUS
  <2> QED BY <1>5, <1>6, <2>1
<1> QED BY <1>8, <1>9

\* No two places are in the same row and in the same column.
LEMMA PlacesDiffer ==
  ASSUME NEW c \in Nat \ {0}, NEW i \in Nat \ {0}, NEW j \in Nat \ {0}
  PROVE  /\ Column(i, c) \in 0..(c - 1) /\ Row(i, c) \in 0..(i - 1)
         /\ Column(i, c) = Column(j, c) /\ Row(i, c) = Row(j, c) => i = j
<1>1. ASSUME NEW k \in Nat
      PROVE  k % c \in 0..(c - 1) /\ k \div c \in 0..k /\ k = c * (k \div c) + (k % c)
  OBVIOUS
<1>2. i - 1 \in Nat /\ j - 1 \in Nat
  OBVIOUS
<1>3. PICK a \in Nat, b \in Nat : a = i - 1 /\ b = j - 1
  BY <1>2
<1>4. a % c = b % c /\ a \div c = b \div c => a = b
  BY <1>1
<1> QED BY <1>1, <1>3, <1>4 DEF Column, Row

LEMMA CeilRootFacts ==
  ASSUME NEW n \in Nat, NEW d \in Nat \ {0}
  PROVE  CeilRoot(n, d) \in 0..n
<1>1. PICK sq : sq = [k \in 0..n |-> k * k * d]
  OBVIOUS
<1>2. \A k \in 0..n : sq[k] = k * k * d /\ sq[k] \in Int
  <2>1. ASSUME NEW k \in 0..n PROVE k * k * d \in Int
    <3>1. PICK m \in Int : m = k * k
      OBVIOUS
    <3> QED BY <3>1
  <2> QED BY <1>1, <2>1
<1>3. PICK K : K = {k \in 0..n : sq[k] >= n}
  OBVIOUS
<1>4. n \in K
  <2>1. n \in 0..n
    OBVIOUS
  <2>2. n * n * d >= n
    <3>1. CASE n = 0
      <4>1. 0 * 0 * d = 0
        OBVIOUS
      <4> QED BY <3>1, <4>1
    <3>2. CASE n > 0
      <4>1. PICK m \in Int : m = n * n
        OBVIOUS
      <4>2. 1 <= n => 1 * n <= n * n
        BY ONLY <3>2, n \in Nat, 1 \in Int, n \in Int, ProductsGrow
      <4>3. m >= n /\ m > 0
        BY <3>2, <4>1, <4>2
      <4>4. 1 <= d => 1 * m <= d * m
        BY ONLY <4>3, m \in Int, d \in Int, 1 \in Int, ProductsGrow
      <4>5. d * m = m * d /\ d \in Int /\ d >= 1
        OBVIOUS
      <4> QED BY <4>1, <4>3, <4>4, <4>5
    <3> QED BY <3>1, <3>2
  <2> QED BY <1>2, <1>3, <2>1, <2>2
<1>5. K \subseteq Int /\ IsFiniteSet(K)
  <2>1. IsFiniteSet(0..n)
    BY FS_Interval, 0 \in Int, n \in Int
  <2> QED BY <1>3, <2>1, FS_Subset
<1>6. PICK k \in K : \A j \in K : k <= j
  <2>1. Min(K) \in K /\ \A j \in K : Min(K) <= j
    BY <1>4, <1>5, Extremes
  <2> QED BY <2>1
<1>7. k \in 0..n /\ sq[k] >= n
  BY <1>3, <1>6
<1>8. ASSUME NEW j \in 0..(k - 1) PROVE sq[j] < n
  <2>1. j \in 0..n /\ j < k
    BY <1>7
  <2>2. ~ (sq[j] >= n)
    BY <1>3, <1>6, <2>1
  <2> QED BY <1>2, <2>1, <2>2
<1>9. k * k * d >= n /\ \A j \in 0..(k - 1) : j * j * d < n
  <2>1. \A j \in 0..(k - 1) : j \in 0..n
    BY <1>7
  <2> QED BY <1>2, <1>7, <1>8, <2>1
<1> QED BY <1>7, <1>9 DEF CeilRoot

LEMMA ColumnsFacts ==
  ASSUME NEW count \in Nat \ {0}, NEW maxWidth \in Nat \ {0}, NEW maxHeight \in Nat, NEW gaps,
         gaps.vertical \in Nat, gaps.horizontal \in Nat, NEW stacked, NEW reference
  PROVE  Columns(count, maxWidth, maxHeight, stacked, gaps, reference) \in 1..count
<1>1. PICK n \in Nat, d \in Nat \ {0} : n = count * (maxHeight + gaps.vertical)
                                      /\ d = maxWidth + gaps.horizontal
  <2>1. PICK h \in Nat : h = maxHeight + gaps.vertical
    OBVIOUS
  <2>2. count * h \in Nat
    OBVIOUS
  <2>3. maxWidth + gaps.horizontal \in Nat \ {0}
    OBVIOUS
  <2> QED BY <2>1, <2>2, <2>3
<1>2. PICK r \in Int : r = CeilRoot(n, d)
  BY CeilRootFacts
<1>3. PICK c : c = Least(Most(r, 2), count)
  OBVIOUS
<1>4. c \in 1..count
  BY <1>3 DEF Least, Most
<1>5. Columns(count, maxWidth, maxHeight, stacked, gaps, reference) \in {1, c}
  BY <1>1, <1>2, <1>3 DEF Columns
<1> QED BY <1>4, <1>5

-----------------------------------------------------------------------------
(* The arrangement of the members.                                         *)

RectSet == [x : Int, y : Int, width : Nat \ {0}, height : Nat \ {0}]

Moved(r, a, b) == [r EXCEPT !.x = @ + a, !.y = @ + b]

LEMMA RectFacts ==
  ASSUME NEW r \in RectSet
  PROVE  /\ IsRect(r)
         /\ r.x \in Int /\ r.y \in Int /\ r.width \in Int /\ r.height \in Int
         /\ r.width > 0 /\ r.height > 0
BY DEF RectSet, IsRect

LEMMA MovedFacts ==
  ASSUME NEW r \in RectSet, NEW a \in Int, NEW b \in Int, NEW s, s = Moved(r, a, b)
  PROVE  s \in RectSet /\ s.x = r.x + a /\ s.y = r.y + b /\ s.width = r.width /\ s.height = r.height
<1>1. r.x \in Int /\ r.y \in Int /\ r.width \in Nat \ {0} /\ r.height \in Nat \ {0}
  BY DEF RectSet
<1>3. s = [x |-> r.x + a, y |-> r.y + b, width |-> r.width, height |-> r.height]
  BY DEF RectSet, Moved
<1>4. s.x = r.x + a /\ s.y = r.y + b /\ s.width = r.width /\ s.height = r.height
  BY <1>3
<1>5. r.x + a \in Int /\ r.y + b \in Int
  BY <1>1
<1>6. s \in RectSet
  BY <1>1, <1>3, <1>5 DEF RectSet
<1> QED BY <1>4, <1>6

\* The greatest extent in a row or column.
LEMMA ExtentFacts ==
  ASSUME NEW n \in Nat, NEW w, \A i \in 1..n : w[i] \in Nat, NEW S, S \subseteq 1..n,
         NEW e, e = Largest({0} \cup Values(w, S))
  PROVE  e \in Nat /\ \A i \in S : w[i] <= e
<1>1. IsFiniteSet(S)
  BY FS_Interval, FS_Subset, 1 \in Int, n \in Int
<1>2. PICK T : T = {0} \cup Values(w, S)
  OBVIOUS
<1>3. \A i \in S : w[i] \in Int /\ w[i] \in T
  BY <1>2 DEF Values
<1>4. T \subseteq Int /\ IsFiniteSet(T) /\ T # {}
  BY <1>1, <1>2, <1>3, 0 \in Int, LargestWith
<1>5. e \in Int /\ \A y \in T : y <= e
  BY <1>2, <1>4, LargestFacts
<1>6. 0 \in T
  BY <1>2
<1> QED BY <1>3, <1>5, <1>6

\* A box in a cell: from x on at most w wide, from y on at most h high.
InCell(b, x, w, y, h) == b.left >= x /\ b.right <= x + w /\ b.top >= y /\ b.bottom <= y + h

LEMMA PartInCell ==
  ASSUME NEW part, IsFiniteSet(part), part # {}, NEW rects, \A n \in part : rects[n] \in RectSet,
         NEW box, IsBox(box), \A n \in part : IsWithin(BoxOf(rects[n]), box),
         NEW x \in Int, NEW y \in Int, NEW w \in Nat, NEW h \in Nat,
         WidthOf(box) <= w, HeightOf(box) <= h, NEW out,
         \A n \in part : out[n] = Moved(rects[n], x - box.left, y - box.top)
  PROVE  /\ IsBox(MembersBox(out, part)) /\ InCell(MembersBox(out, part), x, w, y, h)
         /\ \A n \in part : out[n] \in RectSet
<1>0. box.left \in Int /\ box.top \in Int /\ box.right \in Int /\ box.bottom \in Int
  BY DEF IsBox
<1>1. PICK a \in Int, b \in Int : a = x - box.left /\ b = y - box.top
  BY ONLY <1>0, x \in Int, y \in Int
<1>2. ASSUME NEW n \in part
      PROVE  /\ out[n] \in RectSet /\ IsRect(out[n])
             /\ out[n].x >= x /\ out[n].x + out[n].width <= x + w
             /\ out[n].y >= y /\ out[n].y + out[n].height <= y + h
  <2>1. PICK r \in RectSet : r = rects[n]
    OBVIOUS
  <2>2. PICK s : s = Moved(r, a, b)
    OBVIOUS
  <2>3. out[n] = s
    BY <1>1, <2>1, <2>2
  <2>4. s \in RectSet /\ s.x = r.x + a /\ s.y = r.y + b /\ s.width = r.width /\ s.height = r.height
    BY ONLY <2>2, r \in RectSet, a \in Int, b \in Int, MovedFacts
  <2>5. IsRect(s) /\ IsRect(r)
    BY <2>4, RectFacts
  <2>6. r.x \in Int /\ r.y \in Int /\ r.width \in Int /\ r.height \in Int
    BY RectFacts
  <2>7. box.left <= r.x /\ box.top <= r.y /\ r.x + r.width <= box.right /\ r.y + r.height <= box.bottom
    <3>1. PICK c : c = BoxOf(r)
      OBVIOUS
    <3>2. c.left = r.x /\ c.top = r.y /\ c.right = r.x + r.width /\ c.bottom = r.y + r.height
      BY <2>5, <3>1, BoxOfFacts
    <3>3. IsWithin(c, box)
      BY <2>1, <3>1
    <3> QED BY <3>2, <3>3 DEF IsWithin
  <2>8. box.right - box.left <= w /\ box.bottom - box.top <= h
    BY DEF WidthOf, HeightOf
  <2>9. /\ s.x >= x /\ s.x + s.width <= x + w
        /\ s.y >= y /\ s.y + s.height <= y + h
    BY ONLY <1>0, <1>1, <2>4, <2>6, <2>7, <2>8, x \in Int, y \in Int, w \in Nat, h \in Nat
  <2> QED BY <2>3, <2>4, <2>5, <2>9
<1>3. PICK m : m = MembersBox(out, part)
  OBVIOUS
<1>4. /\ IsBox(m)
      /\ \E n \in part : m.left = out[n].x
      /\ \E n \in part : m.top = out[n].y
      /\ \E n \in part : m.right = out[n].x + out[n].width
      /\ \E n \in part : m.bottom = out[n].y + out[n].height
  <2>1. \A n \in part : IsRect(out[n])
    BY <1>2
  <2> QED BY ONLY <1>3, <2>1, IsFiniteSet(part), part # {}, MembersBoxFacts
<1>5. InCell(m, x, w, y, h)
  BY <1>2, <1>4 DEF InCell
<1> QED BY <1>2, <1>3, <1>4, <1>5

LEMMA CellsApart ==
  ASSUME NEW a, NEW b, IsBox(a), IsBox(b), NEW apart \in Nat,
         NEW xa \in Int, NEW wa \in Int, NEW ya \in Int, NEW ha \in Int, InCell(a, xa, wa, ya, ha),
         NEW xb \in Int, NEW wb \in Int, NEW yb \in Int, NEW hb \in Int, InCell(b, xb, wb, yb, hb),
         \/ xa + wa + apart <= xb \/ xb + wb + apart <= xa
         \/ ya + ha + apart <= yb \/ yb + hb + apart <= ya
  PROVE  ~ MeetBox(Padded(a, apart), b)
<1>1. PICK p : p = Padded(a, apart)
  OBVIOUS
<1>2. p.left = a.left - apart /\ p.top = a.top - apart /\ p.right = a.right + apart /\ p.bottom = a.bottom + apart
  BY <1>1 DEF Padded, Box
<1>3. /\ a.left \in Int /\ a.top \in Int /\ a.right \in Int /\ a.bottom \in Int
      /\ b.left \in Int /\ b.top \in Int /\ b.right \in Int /\ b.bottom \in Int
  BY DEF IsBox
<1>4. a.left >= xa /\ a.right <= xa + wa /\ a.top >= ya /\ a.bottom <= ya + ha
  BY DEF InCell
<1>5. b.left >= xb /\ b.right <= xb + wb /\ b.top >= yb /\ b.bottom <= yb + hb
  BY DEF InCell
<1>6. ~ (p.left < b.right /\ p.right > b.left /\ p.top < b.bottom /\ p.bottom > b.top)
  BY <1>2, <1>3, <1>4, <1>5
<1> QED BY <1>1, <1>6 DEF MeetBox

\* What is set out: every rectangle keeps its size, and the parts keep apart.
IsSetOut(set, members, apart) ==
  /\ set.rects \in [members -> RectSet] /\ set.width \in Int
  /\ \A i, j \in DOMAIN set.parts :
       i # j => ~ MeetBox(Padded(MembersBox(set.rects, set.parts[i]), apart),
                          MembersBox(set.rects, set.parts[j]))

LEMMA MembersAreSetOut ==
  ASSUME NEW members, members \subseteq Nat, IsFiniteSet(members), members # {},
         NEW rects \in [members -> RectSet], NEW wires, IsFiniteSet(wires),
         \A w \in wires : w.source \in members /\ w.target \in members /\ w.points \in Seq(Int \X Int),
         NEW apart \in Nat \ {0}, NEW reference
  PROVE  IsSetOut(ArrangeMembers(rects, wires, [vertical |-> apart, horizontal |-> apart], reference),
                  members, apart)
<1> DEFINE gaps == [vertical |-> apart, horizontal |-> apart]
           parts == Components(DOMAIN rects, wires)
           box == [i \in DOMAIN parts |-> ComponentBounds(rects, parts[i], wires)]
           maxWidth == Largest({WidthOf(box[i]) : i \in DOMAIN parts})
           maxHeight == Largest({HeightOf(box[i]) : i \in DOMAIN parts})
           stacked == Total([i \in DOMAIN parts |-> HeightOf(box[i])]) + gaps.vertical * (Len(parts) - 1)
           columns == Columns(Len(parts), maxWidth, maxHeight, stacked, gaps, reference)
           widths == [c \in 0..(columns - 1) |->
                        Largest({0} \cup {WidthOf(box[i]) : i \in {j \in DOMAIN parts : Column(j, columns) = c}})]
           heights == [r \in 0..(Len(parts) - 1) |->
                         Largest({0} \cup {HeightOf(box[i]) : i \in {j \in DOMAIN parts : Row(j, columns) = r}})]
           part(n) == CHOOSE i \in DOMAIN parts : n \in parts[i]
           x(i) == Begins(widths, Column(i, columns), gaps.horizontal) - box[i].left
           y(i) == Begins(heights, Row(i, columns), gaps.vertical) - box[i].top
           out == [n \in DOMAIN rects |-> [rects[n] EXCEPT !.x = @ + x(part(n)), !.y = @ + y(part(n))]]
           set == ArrangeMembers(rects, wires, gaps, reference)
<1>1. set = [parts |-> parts, columns |-> columns, rects |-> out,
             width |-> Begins(widths, columns - 1, gaps.horizontal) + widths[columns - 1]]
  BY DEF ArrangeMembers
<1>2. set.parts = parts /\ set.rects = out
      /\ set.width = Begins(widths, columns - 1, gaps.horizontal) + widths[columns - 1]
  <2> HIDE DEF parts, columns, widths, out, set
  <2> QED BY <1>1
<1>3. gaps.vertical = apart /\ gaps.horizontal = apart
  OBVIOUS
<1>4. DOMAIN rects = members
  OBVIOUS
<1>5. ArePartsOf(parts, members)
  BY <1>4, ComponentFacts
<1>6. PICK k \in Nat : k = Len(parts) /\ DOMAIN parts = 1..k
  BY <1>5 DEF ArePartsOf
<1>7. /\ \A i \in 1..k : parts[i] \subseteq members /\ parts[i] # {} /\ IsFiniteSet(parts[i])
      /\ \A n \in members : \E i \in 1..k : n \in parts[i]
      /\ \A i, j \in 1..k : parts[i] \cap parts[j] # {} => i = j
  BY <1>5, <1>6, FS_Subset DEF ArePartsOf
<1>8. k \in Nat \ {0}
  <2>1. PICK n \in members : TRUE
    OBVIOUS
  <2> QED BY <1>7, <2>1
<1> HIDE DEF parts
<1>9. ASSUME NEW i \in 1..k
      PROVE  /\ IsBox(box[i]) /\ WidthOf(box[i]) \in Nat \ {0} /\ HeightOf(box[i]) \in Nat \ {0}
             /\ \A n \in parts[i] : IsWithin(BoxOf(rects[n]), box[i])
  <2>1. \A n \in parts[i] : rects[n] \in RectSet /\ IsRect(rects[n])
    BY <1>7, RectFacts
  <2>2. PICK p, b : p = parts[i] /\ b = ComponentBounds(rects, p, wires)
    OBVIOUS
  <2>3. box[i] = b
    BY <1>6, <2>2
  <2> HIDE DEF box
  <2>4. IsFiniteSet(p) /\ p # {} /\ (\A n \in p : IsRect(rects[n])) /\ IsFiniteSet(wires)
        /\ \A w \in wires : w.points \in Seq(Int \X Int)
    BY <1>7, <2>1, <2>2
  <2>5. /\ IsBox(b) /\ WidthOf(b) \in Nat \ {0} /\ HeightOf(b) \in Nat \ {0}
        /\ \A n \in p : IsWithin(BoxOf(rects[n]), b)
    BY ONLY <2>2, <2>4, ComponentBoundsFacts
  <2> QED BY <2>2, <2>3, <2>5
<1> HIDE DEF box
<1>10. PICK ws : ws = [i \in 1..k |-> WidthOf(box[i])]
  OBVIOUS
<1>11. PICK hs : hs = [i \in 1..k |-> HeightOf(box[i])]
  OBVIOUS
<1>12. \A i \in 1..k : /\ ws[i] = WidthOf(box[i]) /\ hs[i] = HeightOf(box[i])
                       /\ ws[i] \in Nat \ {0} /\ hs[i] \in Nat \ {0}
  BY <1>9, <1>10, <1>11
<1>13. maxWidth \in Nat \ {0} /\ maxHeight \in Nat
  <2>1. PICK W, H : W = {ws[i] : i \in 1..k} /\ H = {hs[i] : i \in 1..k}
    OBVIOUS
  <2>2. W = {WidthOf(box[i]) : i \in DOMAIN parts} /\ H = {HeightOf(box[i]) : i \in DOMAIN parts}
    BY <1>6, <1>12, <2>1
  <2>3. IsFiniteSet(1..k)
    BY FS_Interval, 1 \in Int, k \in Int
  <2>4. IsFiniteSet(W) /\ IsFiniteSet(H)
    BY <2>1, <2>3, ImageIsFinite
  <2>5. W \subseteq Nat \ {0} /\ H \subseteq Nat \ {0} /\ W \subseteq Int /\ H \subseteq Int
    BY <1>12, <2>1
  <2>6. W # {} /\ H # {}
    <3>1. 1 \in 1..k
      BY <1>8
    <3>2. ws[1] \in W /\ hs[1] \in H
      BY ONLY <2>1, <3>1
    <3> QED BY ONLY <3>2
  <2>7. Largest(W) \in W /\ Largest(H) \in H
    BY <2>4, <2>5, <2>6, LargestFacts
  <2> QED BY <2>2, <2>5, <2>7
<1> HIDE DEF maxWidth, maxHeight, stacked
<1>14. columns \in 1..k
  BY <1>3, <1>6, <1>8, <1>13, ColumnsFacts
<1> HIDE DEF columns
<1>15. ASSUME NEW i \in 1..k
       PROVE  /\ Column(i, columns) \in 0..(columns - 1) /\ Row(i, columns) \in 0..(k - 1)
              /\ \A j \in 1..k : Column(i, columns) = Column(j, columns) /\ Row(i, columns) = Row(j, columns)
                                   => i = j
  <2>1. columns \in Nat \ {0} /\ i \in Nat \ {0} /\ \A j \in 1..k : j \in Nat \ {0}
    BY <1>14
  <2>2. Column(i, columns) \in 0..(columns - 1) /\ Row(i, columns) \in 0..(i - 1)
    BY <2>1, PlacesDiffer
  <2>3. \A j \in 1..k : Column(i, columns) = Column(j, columns) /\ Row(i, columns) = Row(j, columns) => i = j
    BY <2>1, PlacesDiffer
  <2>4. \A r \in 0..(i - 1) : r \in 0..(k - 1)
    OBVIOUS
  <2> QED BY <2>2, <2>3, <2>4
<1>16. ASSUME NEW c \in 0..(columns - 1)
       PROVE  /\ widths[c] \in Nat
              /\ \A i \in 1..k : Column(i, columns) = c => ws[i] <= widths[c]
  <2>1. PICK S : S = {j \in 1..k : Column(j, columns) = c}
    OBVIOUS
  <2>2. Values(ws, S) = {WidthOf(box[i]) : i \in {j \in DOMAIN parts : Column(j, columns) = c}}
    BY <1>6, <1>12, <2>1 DEF Values
  <2>3. PICK e : e = Largest({0} \cup Values(ws, S))
    OBVIOUS
  <2>4. widths[c] = e
    BY <2>2, <2>3
  <2>5. e \in Nat /\ \A i \in S : ws[i] <= e
    <3>1. S \subseteq 1..k /\ \A i \in 1..k : ws[i] \in Nat
      BY <1>12, <2>1
    <3> QED BY <2>3, <3>1, ExtentFacts
  <2> QED BY <2>1, <2>4, <2>5
<1>17. ASSUME NEW r \in 0..(k - 1)
       PROVE  /\ heights[r] \in Nat
              /\ \A i \in 1..k : Row(i, columns) = r => hs[i] <= heights[r]
  <2>1. PICK S : S = {j \in 1..k : Row(j, columns) = r}
    OBVIOUS
  <2>2. Values(hs, S) = {HeightOf(box[i]) : i \in {j \in DOMAIN parts : Row(j, columns) = r}}
    BY <1>6, <1>12, <2>1 DEF Values
  <2>3. PICK e : e = Largest({0} \cup Values(hs, S))
    OBVIOUS
  <2>4. heights[r] = e
    BY <1>6, <2>2, <2>3
  <2>5. e \in Nat /\ \A i \in S : hs[i] <= e
    <3>1. S \subseteq 1..k /\ \A i \in 1..k : hs[i] \in Nat
      BY <1>12, <2>1
    <3> QED BY <2>3, <3>1, ExtentFacts
  <2> QED BY <2>1, <2>4, <2>5
<1> HIDE DEF widths, heights
<1>18. ASSUME NEW i \in 1..k, NEW n \in parts[i]
       PROVE  out[n] = Moved(rects[n], Begins(widths, Column(i, columns), apart) - box[i].left,
                              Begins(heights, Row(i, columns), apart) - box[i].top)
  <2>1. part(n) = i
    BY <1>6, <1>7
  <2>2. n \in DOMAIN rects
    BY <1>4, <1>7
  <2> HIDE DEF part
  <2> QED BY <1>3, <2>1, <2>2 DEF Moved
<1> HIDE DEF out
<1>19. ASSUME NEW i \in 1..k, NEW j \in 1..k
       PROVE  /\ Begins(widths, Column(i, columns), apart) \in Int
              /\ Column(i, columns) < Column(j, columns) =>
                   Begins(widths, Column(i, columns), apart) + widths[Column(i, columns)] + apart
                     <= Begins(widths, Column(j, columns), apart)
              /\ Begins(heights, Row(i, columns), apart) \in Int
              /\ Row(i, columns) < Row(j, columns) =>
                   Begins(heights, Row(i, columns), apart) + heights[Row(i, columns)] + apart
                     <= Begins(heights, Row(j, columns), apart)
  <2>1. PICK a, b, c, d : a = Column(i, columns) /\ b = Column(j, columns)
                          /\ c = Row(i, columns) /\ d = Row(j, columns)
    OBVIOUS
  <2>2. a \in 0..(columns - 1) /\ b \in 0..(columns - 1) /\ c \in 0..(k - 1) /\ d \in 0..(k - 1)
    BY <1>15, <2>1
  <2>3. columns \in Nat /\ (\A e \in 0..(columns - 1) : widths[e] \in Nat)
        /\ (\A e \in 0..(k - 1) : heights[e] \in Nat) /\ apart \in Nat
    BY <1>14, <1>16, <1>17
  <2>4. /\ Begins(widths, a, apart) \in Int
        /\ a < b => Begins(widths, a, apart) + widths[a] + apart <= Begins(widths, b, apart)
    BY ONLY <2>2, <2>3, BeginsApart
  <2>5. /\ Begins(heights, c, apart) \in Int
        /\ c < d => Begins(heights, c, apart) + heights[c] + apart <= Begins(heights, d, apart)
    BY ONLY <2>2, <2>3, k \in Nat, BeginsApart
  <2> QED BY <2>1, <2>4, <2>5
<1>20. ASSUME NEW i \in 1..k
       PROVE  /\ IsBox(MembersBox(out, parts[i]))
              /\ InCell(MembersBox(out, parts[i]),
                        Begins(widths, Column(i, columns), apart), widths[Column(i, columns)],
                        Begins(heights, Row(i, columns), apart), heights[Row(i, columns)])
              /\ \A n \in parts[i] : out[n] \in RectSet
  <2>1. PICK xi, yi, wi, hi : /\ xi = Begins(widths, Column(i, columns), apart)
                              /\ yi = Begins(heights, Row(i, columns), apart)
                              /\ wi = widths[Column(i, columns)] /\ hi = heights[Row(i, columns)]
    OBVIOUS
  <2>2. xi \in Int /\ yi \in Int
    BY <1>19, <2>1
  <2>3. wi \in Nat /\ hi \in Nat /\ WidthOf(box[i]) <= wi /\ HeightOf(box[i]) <= hi
    BY <1>12, <1>15, <1>16, <1>17, <2>1
  <2>4. \A n \in parts[i] : out[n] = Moved(rects[n], xi - box[i].left, yi - box[i].top)
    BY <1>18, <2>1
  <2>5. PICK b, p : b = box[i] /\ p = parts[i]
    OBVIOUS
  <2>6. /\ IsBox(MembersBox(out, p)) /\ InCell(MembersBox(out, p), xi, wi, yi, hi)
        /\ \A n \in p : out[n] \in RectSet
    <3>0. wi \in Nat /\ hi \in Nat
      BY <2>3
    <3>1. IsFiniteSet(p) /\ p # {} /\ \A n \in p : rects[n] \in RectSet
      BY <1>7, <2>5
    <3>2. IsBox(b) /\ \A n \in p : IsWithin(BoxOf(rects[n]), b)
      BY <1>9, <2>5
    <3>3. WidthOf(b) <= wi /\ HeightOf(b) <= hi
      BY <2>3, <2>5
    <3>4. \A n \in p : out[n] = Moved(rects[n], xi - b.left, yi - b.top)
      BY <2>4, <2>5
    <3> QED BY ONLY <2>2, <3>0, <3>1, <3>2, <3>3, <3>4, wi \in Nat, hi \in Nat, PartInCell
  <2> QED BY <2>1, <2>5, <2>6
<1>21. ASSUME NEW i \in 1..k, NEW j \in 1..k, i # j
       PROVE  ~ MeetBox(Padded(MembersBox(out, parts[i]), apart), MembersBox(out, parts[j]))
  <2>1. PICK ci, cj, ri, rj : ci = Column(i, columns) /\ cj = Column(j, columns)
                              /\ ri = Row(i, columns) /\ rj = Row(j, columns)
    OBVIOUS
  <2>2. ci \in 0..(columns - 1) /\ cj \in 0..(columns - 1) /\ ri \in 0..(k - 1) /\ rj \in 0..(k - 1)
        /\ ~ (ci = cj /\ ri = rj)
    BY <1>15, <1>21, <2>1
  <2>3. ci < cj \/ cj < ci \/ ri < rj \/ rj < ri
    BY <1>14, <2>2
  <2>4. PICK xi, xj, yi, yj : xi = Begins(widths, ci, apart) /\ xj = Begins(widths, cj, apart)
                              /\ yi = Begins(heights, ri, apart) /\ yj = Begins(heights, rj, apart)
    OBVIOUS
  <2>5. PICK wi, wj, hi, hj : wi = widths[ci] /\ wj = widths[cj] /\ hi = heights[ri] /\ hj = heights[rj]
    OBVIOUS
  <2>6. wi \in Nat /\ wj \in Nat /\ hi \in Nat /\ hj \in Nat
    BY <1>16, <1>17, <2>2, <2>5
  <2>7. /\ xi \in Int /\ xj \in Int /\ yi \in Int /\ yj \in Int
        /\ ci < cj => xi + wi + apart <= xj
        /\ cj < ci => xj + wj + apart <= xi
        /\ ri < rj => yi + hi + apart <= yj
        /\ rj < ri => yj + hj + apart <= yi
    BY <1>19, <2>1, <2>4, <2>5
  <2>8. \/ xi + wi + apart <= xj \/ xj + wj + apart <= xi
        \/ yi + hi + apart <= yj \/ yj + hj + apart <= yi
    BY ONLY <2>3, <2>7
  <2>9. PICK a, b : a = MembersBox(out, parts[i]) /\ b = MembersBox(out, parts[j])
    OBVIOUS
  <2>10. IsBox(a) /\ IsBox(b) /\ InCell(a, xi, wi, yi, hi) /\ InCell(b, xj, wj, yj, hj)
    BY <1>20, <2>1, <2>4, <2>5, <2>9
  <2>11. wi \in Int /\ wj \in Int /\ hi \in Int /\ hj \in Int /\ apart \in Nat
    BY <2>6
  <2>12. ~ MeetBox(Padded(a, apart), b)
    BY ONLY <2>7, <2>8, <2>10, <2>11, CellsApart
  <2> QED BY <2>9, <2>12
<1>22. out \in [members -> RectSet]
  <2>1. \A n \in members : out[n] \in RectSet
    BY <1>7, <1>20
  <2>2. out = [n \in members |-> out[n]]
    BY <1>4 DEF out
  <2> QED BY <2>1, <2>2
<1>23. Begins(widths, columns - 1, gaps.horizontal) + widths[columns - 1] \in Int
  <2>1. columns - 1 \in 0..(columns - 1) /\ columns \in Nat /\ apart \in Nat
    BY <1>14
  <2>2. \A c \in 0..(columns - 1) : widths[c] \in Nat
    BY <1>16
  <2>3. Begins(widths, columns - 1, apart) \in Int
    BY ONLY <2>1, <2>2, BeginsApart
  <2>4. widths[columns - 1] \in Int
    BY <2>1, <2>2
  <2> QED BY <1>3, <2>3, <2>4
<1> HIDE DEF set
<1>24. IsSetOut(set, members, apart)
  BY <1>2, <1>6, <1>21, <1>22, <1>23 DEF IsSetOut
<1> QED BY <1>24 DEF set

-----------------------------------------------------------------------------
(* Groups that pass the check.                                             *)

LEMMA OpeningFacts ==
  ASSUME opening \in Openings
  PROVE  /\ DOMAIN Rects \subseteq Nat /\ IsFiniteSet(DOMAIN Rects)
         /\ \A n \in DOMAIN Rects : Rects[n] \in RectSet
         /\ \A m, n \in DOMAIN Rects : m # n => ~ MeetBox(BoxOf(Rects[m]), BoxOf(Rects[n]))
         /\ opening.wires \in Seq([source : Nat, target : Nat, points : Seq(Int \X Int)])
         /\ opening.groups \in Seq([id : Nat, members : Seq(Nat), reference : Int, padding : Int])
         /\ opening.memberGap \in Nat \ {0} /\ opening.nodeGap \in Nat
BY OpeningsAssumption DEF IsOpening, Rects, RectSet

GroupSet == [id : Nat, members : Seq(Nat), reference : Int, padding : Int]

\* The groups by their ids.
EarlierGroup(groups) ==
  {p \in (DOMAIN groups) \X (DOMAIN groups) :
     groups[p[1]].id < groups[p[2]].id \/ (groups[p[1]].id = groups[p[2]].id /\ p[1] < p[2])}

Lists(groups, n, order) ==
  /\ DOMAIN groups = 1..n /\ DOMAIN order = 1..n
  /\ \A k \in 1..n : order[k] \in 1..n
  /\ \A a \in 1..n : \E k \in 1..n : order[k] = a
  /\ \A j, k \in 1..n : order[j] = order[k] => j = k
  /\ \A j, k \in 1..n : j < k => groups[order[j]].id <= groups[order[k]].id

LEMMA ByIdFacts ==
  ASSUME NEW groups \in Seq(GroupSet), NEW n \in Nat, n = Len(groups), NEW order, order = ById(groups)
  PROVE  Lists(groups, n, order)
<1>1. DOMAIN groups = 1..n
  OBVIOUS
<1>2. PICK S : S = 1..n
  OBVIOUS
<1>3. IsFiniteSet(S) /\ Cardinality(S) = n
  <2>1. IsFiniteSet(1..n) /\ Cardinality(1..n) = IF 1 > n THEN 0 ELSE n - 1 + 1
    BY ONLY 1 \in Int, n \in Int, FS_Interval
  <2>2. (IF 1 > n THEN 0 ELSE n - 1 + 1) = n
    OBVIOUS
  <2> QED BY <1>2, <2>1, <2>2
<1>4. \A a \in S : groups[a].id \in Nat /\ a \in Nat
  <2>1. \A a \in 1..n : groups[a] \in GroupSet
    OBVIOUS
  <2> QED BY <1>2, <2>1 DEF GroupSet
<1>5. PICK id, at : id = [a \in S |-> groups[a].id] /\ at = [a \in S |-> a]
  OBVIOUS
<1>6. PICK before : before = EarlierGroup(groups)
  OBVIOUS
<1>7. \A a, b \in S : <<a, b>> \in before <=> (id[a] < id[b] \/ (id[a] = id[b] /\ at[a] < at[b]))
  BY <1>1, <1>2, <1>5, <1>6 DEF EarlierGroup
<1>8. /\ \A a \in S : id[a] \in Int /\ at[a] \in Int
      /\ \A a, b \in S : id[a] = id[b] /\ at[a] = at[b] => a = b
  BY <1>4, <1>5
<1>9. StrictlyOrders(before, S)
  BY ONLY <1>7, <1>8, PairsOrder
<1>10. order = [i \in 1..n |-> CHOOSE x \in S :
                   Cardinality({y \in S : LexLess(<<groups[y].id, y>>, <<groups[x].id, x>>)}) = i - 1]
  BY <1>1, <1>2, <1>3 DEF ById, InOrder
<1>11. ASSUME NEW x \in S
       PROVE  {y \in S : LexLess(<<groups[y].id, y>>, <<groups[x].id, x>>)} = AheadOf(S, before, x)
  <2>1. \A y \in S : LexLess(<<groups[y].id, y>>, <<groups[x].id, x>>) <=> <<y, x>> \in before
    BY <1>5, <1>7, LexOfTwo
  <2> QED BY <2>1 DEF AheadOf
<1>12. RanksBy(order, S, before)
  <2>1. ASSUME NEW i \in 1..n
        PROVE  order[i] \in S /\ Cardinality(AheadOf(S, before, order[i])) = i - 1
    <3>1. \E x \in S : Cardinality(AheadOf(S, before, x)) = i - 1
      BY ONLY <1>3, <1>9, i \in 1..n, RankIsHeld
    <3>2. \E x \in S : Cardinality({y \in S : LexLess(<<groups[y].id, y>>, <<groups[x].id, x>>)}) = i - 1
      BY <1>11, <3>1
    <3>3. order[i] \in S
          /\ Cardinality({y \in S : LexLess(<<groups[y].id, y>>, <<groups[order[i]].id, order[i]>>)}) = i - 1
      BY <1>10, <3>2
    <3> QED BY <1>11, <3>3
  <2>2. order \in [1..n -> S]
    BY <1>10, <2>1
  <2> QED BY <1>3, <2>1, <2>2 DEF RanksBy
<1>13. /\ DOMAIN order = 1..n
       /\ \A i \in 1..n : order[i] \in S
       /\ \A x \in S : \E i \in 1..n : order[i] = x
       /\ \A i, j \in 1..n : order[i] = order[j] => i = j
       /\ \A i, j \in 1..n : i < j => <<order[i], order[j]>> \in before
  BY ONLY <1>3, <1>9, <1>12, RanksListAll
<1>14. ASSUME NEW j \in 1..n, NEW k \in 1..n, j < k PROVE groups[order[j]].id <= groups[order[k]].id
  <2>1. <<order[j], order[k]>> \in before /\ order[j] \in S /\ order[k] \in S
    BY <1>13, <1>14
  <2>2. id[order[j]] <= id[order[k]]
    BY <1>7, <1>8, <2>1
  <2> QED BY <1>5, <2>1, <2>2
<1> QED BY <1>1, <1>2, <1>13, <1>14 DEF Lists

LEMMA FaultsMean ==
  ASSUME NEW groups, NEW k, FaultsOf(groups, k) = {}, NEW g, g = groups[ById(groups)[k]]
  PROVE  /\ ~ (k > 1 /\ groups[ById(groups)[k - 1]].id = g.id)
         /\ g.members # <<>> /\ ~ (g.padding < 0)
         /\ Members(g) \subseteq DOMAIN Rects
<1>1. PICK plain : plain = {c \in 1..4 : \/ (c = 1 /\ k > 1 /\ groups[ById(groups)[k - 1]].id = g.id)
                                        \/ (c = 2 /\ g.members = <<>>)
                                        \/ (c = 3 /\ g.reference <= 0)
                                        \/ (c = 4 /\ g.padding < 0)}
  OBVIOUS
<1>2. {<<k, c, 0, c>> : c \in plain} \subseteq FaultsOf(groups, k)
  BY <1>1 DEF FaultsOf
<1>3. plain = {}
  BY <1>2
<1>4. {<<k, 6, m, 6>> : m \in Members(g) \ DOMAIN Rects} \subseteq FaultsOf(groups, k)
  BY DEF FaultsOf
<1>5. Members(g) \subseteq DOMAIN Rects
  BY <1>4
<1>6. 1 \in 1..4 /\ 2 \in 1..4 /\ 4 \in 1..4
  OBVIOUS
<1> QED BY <1>1, <1>3, <1>5, <1>6

\* Every group that passes has members, which are nodes, and an id of its own.
LEMMA ValidFacts ==
  ASSUME opening \in Openings, AreValid(opening.groups), NEW n \in Nat, n = Len(opening.groups)
  PROVE  /\ DOMAIN opening.groups = 1..n
         /\ \A a \in 1..n : /\ opening.groups[a].id \in Nat /\ opening.groups[a].padding \in Nat
                            /\ Members(opening.groups[a]) \subseteq DOMAIN Rects
                            /\ Members(opening.groups[a]) # {}
         /\ \A a, b \in 1..n : opening.groups[a].id = opening.groups[b].id => a = b
<1>1. PICK groups : groups = opening.groups
  OBVIOUS
<1>2. groups \in Seq(GroupSet) /\ n = Len(groups)
  BY <1>1, OpeningFacts DEF GroupSet
<1>3. PICK order : order = ById(groups)
  OBVIOUS
<1>4. Lists(groups, n, order)
  BY <1>2, <1>3, ByIdFacts
<1> USE DEF Lists
<1>5. \A k \in 1..n : FaultsOf(groups, k) = {}
  BY <1>1, <1>4 DEF AreValid, FaultsIn
<1>6. \A a \in 1..n : groups[a].id \in Nat /\ groups[a].padding \in Int /\ groups[a].members \in Seq(Nat)
  <2>1. \A a \in 1..n : groups[a] \in GroupSet
    BY <1>2, <1>4
  <2> QED BY <2>1 DEF GroupSet
<1>7. ASSUME NEW a \in 1..n
      PROVE  groups[a].padding \in Nat /\ Members(groups[a]) \subseteq DOMAIN Rects /\ Members(groups[a]) # {}
  <2>1. PICK k \in 1..n : order[k] = a
    BY <1>4
  <2>2. PICK g : g = groups[a]
    OBVIOUS
  <2>3. g.members # <<>> /\ ~ (g.padding < 0) /\ Members(g) \subseteq DOMAIN Rects
    BY <1>3, <1>5, <2>1, <2>2, FaultsMean
  <2>4. PICK s \in Seq(Nat) : s = g.members
    BY <1>6, <2>2
  <2>5. s # <<>> => 1 \in DOMAIN s
    OBVIOUS
  <2>6. Members(g) # {}
    BY <2>3, <2>4, <2>5 DEF Members, Range
  <2>7. g.padding \in Nat
    BY <1>6, <2>2, <2>3
  <2> QED BY <2>2, <2>3, <2>6, <2>7
<1>8. ASSUME NEW j \in 1..n, NEW k \in 1..n, j < k PROVE groups[order[j]].id # groups[order[k]].id
  <2>1. k > 1 /\ k - 1 \in 1..n /\ j <= k - 1
    BY <1>8
  <2>2. groups[order[k - 1]].id # groups[order[k]].id
    BY <1>3, <1>5, <2>1, FaultsMean
  <2>3. groups[order[k - 1]].id <= groups[order[k]].id
    <3>1. k - 1 < k
      OBVIOUS
    <3> QED BY <1>4, <2>1, <3>1
  <2>4. groups[order[j]].id <= groups[order[k - 1]].id
    <3>1. CASE j = k - 1
      <4>1. groups[order[j]].id \in Nat
        BY <1>4, <1>6
      <4> QED BY <3>1, <4>1
    <3>2. CASE j < k - 1
      BY <1>4, <2>1, <3>2
    <3> QED BY <2>1, <3>1, <3>2
  <2>5. groups[order[j]].id \in Nat /\ groups[order[k]].id \in Nat /\ groups[order[k - 1]].id \in Nat
    BY <1>4, <1>6, <2>1
  <2> QED BY <2>2, <2>3, <2>4, <2>5
<1>9. ASSUME NEW a \in 1..n, NEW b \in 1..n, groups[a].id = groups[b].id PROVE a = b
  <2>1. PICK j \in 1..n : order[j] = a
    BY <1>4
  <2>2. PICK k \in 1..n : order[k] = b
    BY <1>4
  <2>3. ~ (j < k) /\ ~ (k < j)
    BY <1>8, <1>9, <2>1, <2>2
  <2> QED BY <2>1, <2>2, <2>3
<1> QED BY <1>1, <1>4, <1>6, <1>7, <1>9

-----------------------------------------------------------------------------
(* A group by itself.                                                      *)

WireSet == [source : Nat, target : Nat, points : Seq(Int \X Int)]
CoordinatesOf(w, axis) == {p[axis] : p \in Range(w.points)}

LEMMA CoordinateFacts ==
  ASSUME NEW wires, IsFiniteSet(wires), \A w \in wires : w.points \in Seq(Int \X Int), NEW axis \in {1, 2}
  PROVE  /\ IsFiniteSet(UNION {CoordinatesOf(w, axis) : w \in wires})
         /\ UNION {CoordinatesOf(w, axis) : w \in wires} \subseteq Int
<1>1. ASSUME NEW w \in wires
      PROVE  IsFiniteSet(CoordinatesOf(w, axis)) /\ CoordinatesOf(w, axis) \subseteq Int
  <2>0. PICK s \in Seq(Int \X Int) : s = w.points
    OBVIOUS
  <2>1. PICK k \in Nat : k = Len(s) /\ DOMAIN s = 1..k /\ \A i \in 1..k : s[i] \in Int \X Int
    OBVIOUS
  <2>2. PICK f : f = [i \in 1..k |-> s[i][axis]]
    OBVIOUS
  <2>3. PICK T : T = {f[i] : i \in 1..k}
    OBVIOUS
  <2>4. IsFiniteSet(T)
    <3>1. IsFiniteSet(1..k)
      BY FS_Interval, 1 \in Int, k \in Int
    <3> QED BY <2>3, <3>1, ImageIsFinite
  <2>5. T = CoordinatesOf(w, axis)
    BY <2>0, <2>1, <2>2, <2>3 DEF CoordinatesOf, Range
  <2>6. \A i \in 1..k : s[i][1] \in Int /\ s[i][2] \in Int
    BY <2>1
  <2>7. T \subseteq Int
    BY <2>2, <2>3, <2>6
  <2> QED BY <2>4, <2>5, <2>7
<1>2. PICK f : f = [w \in wires |-> CoordinatesOf(w, axis)]
  OBVIOUS
<1>3. PICK F : F = {f[w] : w \in wires}
  OBVIOUS
<1>4. F = {CoordinatesOf(w, axis) : w \in wires}
  BY <1>2, <1>3
<1>5. IsFiniteSet(F)
  BY <1>3, ImageIsFinite
<1>6. \A T \in F : IsFiniteSet(T) /\ T \subseteq Int
  BY <1>1, <1>4
<1>7. IsFiniteSet(UNION F)
  BY <1>5, <1>6, FS_UNION
<1> QED BY <1>4, <1>6, <1>7

\* What is moved to the origin is moved by a number.
LEMMA OriginFacts ==
  ASSUME NEW rects, IsFiniteSet(DOMAIN rects), NEW wires, IsFiniteSet(wires),
         \A w \in wires : w.points \in Seq(Int \X Int), NEW axis \in {1, 2},
         NEW side, \A n \in DOMAIN rects : rects[n][side] \in Int
  PROVE  Origin(rects, wires, side, axis) \in Int
<1>1. PICK f : f = [n \in DOMAIN rects |-> rects[n][side]]
  OBVIOUS
<1>2. PICK A : A = {f[n] : n \in DOMAIN rects}
  OBVIOUS
<1>3. IsFiniteSet(A) /\ A \subseteq Int
  BY <1>1, <1>2, ImageIsFinite
<1>4. PICK B : B = UNION {CoordinatesOf(w, axis) : w \in wires}
  OBVIOUS
<1>5. IsFiniteSet(B) /\ B \subseteq Int
  BY <1>4, CoordinateFacts
<1>6. PICK T : T = {0} \cup A \cup B
  OBVIOUS
<1>7. IsFiniteSet(T)
  <2>1. IsFiniteSet({0})
    BY FS_Singleton
  <2>2. IsFiniteSet({0} \cup A)
    BY <1>3, <2>1, FS_Union
  <2> QED BY <1>5, <1>6, <2>2, FS_Union
<1>8. Smallest(T) \in Int
  <2>1. T \subseteq Int
    BY <1>3, <1>5, <1>6
  <2>2. 0 \in T
    BY <1>6
  <2> QED BY <1>7, <2>1, <2>2, SmallestFacts
<1>9. T = {0} \cup {rects[n][side] : n \in DOMAIN rects}
            \cup UNION {{p[axis] : p \in Range(w.points)} : w \in wires}
  BY <1>1, <1>2, <1>4, <1>6 DEF CoordinatesOf
<1> QED BY <1>8, <1>9 DEF Origin

\* A layout of members: their rectangles and the wires between them.
IsLayout(rects, wires, members) ==
  /\ rects \in [members -> RectSet]
  /\ IsFiniteSet(wires)
  /\ \A w \in wires : /\ w \in WireSet
                      /\ w.source \in members /\ w.target \in members

LEMMA NormalisedFacts ==
  ASSUME NEW members, IsFiniteSet(members), NEW rects, NEW wires, IsLayout(rects, wires, members),
         NEW layout, layout = Normalised(rects, wires)
  PROVE  IsLayout(layout.rects, layout.wires, members)
<1> DEFINE x == Origin(rects, wires, "x", 1)
           y == Origin(rects, wires, "y", 2)
           moved(w) == [w EXCEPT !.points = [i \in DOMAIN @ |-> <<@[i][1] - x, @[i][2] - y>>]]
           out == [n \in DOMAIN rects |-> [rects[n] EXCEPT !.x = @ - x, !.y = @ - y]]
           ws == {moved(w) : w \in wires}
<1>1. layout.rects = out /\ layout.wires = ws
  BY DEF Normalised
<1>2. DOMAIN rects = members /\ (\A n \in members : rects[n] \in RectSet)
      /\ IsFiniteSet(wires) /\ \A w \in wires : w \in WireSet /\ w.source \in members /\ w.target \in members
  BY DEF IsLayout
<1>3. \A n \in members : rects[n]["x"] \in Int /\ rects[n]["y"] \in Int
  BY <1>2 DEF RectSet
<1>4. \A w \in wires : w.points \in Seq(Int \X Int)
  BY <1>2 DEF WireSet
<1>5. x \in Int /\ y \in Int
  BY <1>2, <1>3, <1>4, OriginFacts
<1> HIDE DEF x, y
<1>6. ASSUME NEW n \in members PROVE out[n] \in RectSet
  <2>1. PICK r \in RectSet : r = rects[n]
    BY <1>2
  <2>2. PICK s : s = [r EXCEPT !.x = r.x - x, !.y = r.y - y]
    OBVIOUS
  <2>3. s \in RectSet
    <3>1. r.x \in Int /\ r.y \in Int /\ r.width \in Nat \ {0} /\ r.height \in Nat \ {0}
      BY DEF RectSet
    <3>2. s = [x |-> r.x - x, y |-> r.y - y, width |-> r.width, height |-> r.height]
      BY <2>2 DEF RectSet
    <3>3. r.x - x \in Int /\ r.y - y \in Int
      BY <1>5, <3>1
    <3> QED BY <3>1, <3>2, <3>3 DEF RectSet
  <2>4. out[n] = s
    BY <1>2, <2>1, <2>2
  <2> QED BY <2>3, <2>4
<1>7. out \in [members -> RectSet]
  BY <1>2, <1>6
<1>8. ASSUME NEW w \in wires
      PROVE  moved(w) \in WireSet /\ moved(w).source \in members /\ moved(w).target \in members
  <2>0. PICK s \in Seq(Int \X Int) : s = w.points
    BY <1>4
  <2>1. PICK k \in Nat : k = Len(s) /\ DOMAIN s = 1..k /\ \A i \in 1..k : s[i] \in Int \X Int
    OBVIOUS
  <2>2. PICK t : t = [i \in 1..k |-> <<s[i][1] - x, s[i][2] - y>>]
    OBVIOUS
  <2>3. \A i \in 1..k : s[i][1] \in Int /\ s[i][2] \in Int
    BY <2>1
  <2>4. \A i \in 1..k : t[i] \in Int \X Int
    BY <1>5, <2>2, <2>3
  <2>5. t \in Seq(Int \X Int)
    <3>1. t \in [1..k -> Int \X Int]
      BY <2>2, <2>4
    <3> QED BY <3>1
  <2>6. moved(w) = [w EXCEPT !.points = t]
    BY <2>0, <2>1, <2>2
  <2>7. w \in WireSet /\ w.source \in members /\ w.target \in members
    BY <1>2
  <2> HIDE DEF moved
  <2> QED BY <2>5, <2>6, <2>7 DEF WireSet
<1>9. IsFiniteSet(ws)
  <2>1. PICK f : f = [w \in wires |-> moved(w)]
    OBVIOUS
  <2>2. PICK T : T = {f[w] : w \in wires}
    OBVIOUS
  <2>3. IsFiniteSet(T)
    BY <1>2, <2>2, ImageIsFinite
  <2> HIDE DEF moved
  <2>4. T = ws
    BY <2>1, <2>2
  <2> QED BY <2>3, <2>4
<1> HIDE DEF moved
<1>10. \A w \in ws : w \in WireSet /\ w.source \in members /\ w.target \in members
  BY <1>8
<1> HIDE DEF out, ws
<1> QED BY <1>1, <1>7, <1>9, <1>10 DEF IsLayout

LEMMA LayoutExtent ==
  ASSUME NEW members, IsFiniteSet(members), members # {}, NEW layout,
         IsLayout(layout.rects, layout.wires, members)
  PROVE  Extent(layout) \in Int
<1>1. PICK rects, wires : rects = layout.rects /\ wires = layout.wires
  OBVIOUS
<1>2. DOMAIN rects = members /\ (\A n \in members : rects[n] \in RectSet)
      /\ IsFiniteSet(wires) /\ \A w \in wires : w \in WireSet
  BY <1>1 DEF IsLayout
<1>3. \A w \in wires : w.points \in Seq(Int \X Int)
  BY <1>2 DEF WireSet
<1>4. PICK f : f = [n \in members |-> rects[n].x + rects[n].width]
  OBVIOUS
<1>5. PICK A : A = {f[n] : n \in members}
  OBVIOUS
<1>6. IsFiniteSet(A) /\ A \subseteq Int /\ A # {}
  <2>1. \A n \in members : f[n] \in Int
    BY <1>2, <1>4, RectFacts
  <2> QED BY <1>5, <2>1, ImageIsFinite
<1>7. PICK B : B = UNION {CoordinatesOf(w, 1) : w \in wires}
  OBVIOUS
<1>8. IsFiniteSet(B) /\ B \subseteq Int
  BY <1>2, <1>3, <1>7, CoordinateFacts
<1>9. PICK T : T = A \cup B
  OBVIOUS
<1>10. IsFiniteSet(T) /\ T \subseteq Int /\ T # {}
  BY <1>6, <1>8, <1>9, FS_Union
<1>11. Largest(T) \in Int
  BY <1>10, LargestFacts
<1>12. T = {rects[n].x + rects[n].width : n \in DOMAIN rects}
            \cup UNION {{p[1] : p \in Range(w.points)} : w \in wires}
  BY <1>2, <1>4, <1>5, <1>7, <1>9 DEF CoordinatesOf
<1> QED BY <1>1, <1>11, <1>12 DEF Extent

\* The members of every group are set out apart, part by part.
LEMMA GroupIsSetOut ==
  ASSUME opening \in Openings, NEW g, Members(g) \subseteq DOMAIN Rects, Members(g) # {}
  PROVE  IsSetOut(SetOut(g), Members(g), opening.memberGap)
<1>1. PICK members, apart : members = Members(g) /\ apart = opening.memberGap
  OBVIOUS
<1>2. /\ members \subseteq Nat /\ IsFiniteSet(members) /\ members # {} /\ apart \in Nat \ {0}
      /\ \A n \in members : Rects[n] \in RectSet
  BY <1>1, OpeningFacts, FS_Subset
<1>3. PICK rects, wires : rects = [n \in members |-> Rects[n]] /\ wires = MemberWires(g)
  OBVIOUS
<1>4. IsLayout(rects, wires, members)
  <2>1. rects \in [members -> RectSet]
    BY <1>2, <1>3
  <2>2. PICK s : s = opening.wires
    OBVIOUS
  <2>3. s \in Seq(WireSet)
    BY <2>2, OpeningFacts DEF WireSet
  <2>4. PICK k \in Nat : DOMAIN s = 1..k /\ \A i \in 1..k : s[i] \in WireSet
    <3>1. Len(s) \in Nat /\ DOMAIN s = 1..Len(s) /\ \A i \in 1..Len(s) : s[i] \in WireSet
      BY <2>3
    <3> QED BY <3>1
  <2>5. PICK T : T = {s[i] : i \in 1..k}
    OBVIOUS
  <2>6. IsFiniteSet(T)
    <3>1. IsFiniteSet(1..k)
      BY FS_Interval, 1 \in Int, k \in Int
    <3> QED BY <2>5, <3>1, ImageIsFinite
  <2>7. T = Range(opening.wires)
    BY <2>2, <2>4, <2>5 DEF Range
  <2>8. wires \subseteq T /\ \A w \in wires : w.source \in members /\ w.target \in members
    BY <1>1, <1>3, <2>7 DEF MemberWires
  <2>9. IsFiniteSet(wires)
    BY <2>6, <2>8, FS_Subset
  <2>10. \A w \in wires : w \in WireSet
    BY <2>4, <2>5, <2>8
  <2> QED BY <2>1, <2>8, <2>9, <2>10 DEF IsLayout
<1>5. PICK layout : layout = Normalised(rects, wires)
  OBVIOUS
<1>6. IsLayout(layout.rects, layout.wires, members)
  BY <1>2, <1>4, <1>5, NormalisedFacts
<1>7. SetOut(g) = IF Len(Components(members, wires)) <= 1
                  THEN [parts |-> <<members>>, columns |-> 1, rects |-> layout.rects, width |-> Extent(layout)]
                  ELSE ArrangeMembers(layout.rects, layout.wires,
                                      [vertical |-> apart, horizontal |-> apart], g.reference)
  BY <1>1, <1>3, <1>5 DEF SetOut
<1>8. CASE Len(Components(members, wires)) <= 1
  <2>1. PICK set : set = SetOut(g)
    OBVIOUS
  <2>2. set.parts = <<members>> /\ set.rects = layout.rects /\ set.width = Extent(layout)
    BY <1>7, <1>8, <2>1
  <2>3. set.rects \in [members -> RectSet]
    BY <1>6, <2>2 DEF IsLayout
  <2>4. set.width \in Int
    BY <1>2, <1>6, <2>2, LayoutExtent
  <2>5. DOMAIN set.parts = {1}
    BY <2>2
  <2> QED BY <1>1, <2>1, <2>3, <2>4, <2>5 DEF IsSetOut
<1>9. CASE ~ (Len(Components(members, wires)) <= 1)
  <2>1. PICK rs, ws : rs = layout.rects /\ ws = layout.wires
    OBVIOUS
  <2>2. rs \in [members -> RectSet] /\ IsFiniteSet(ws)
        /\ \A w \in ws : w.source \in members /\ w.target \in members /\ w \in WireSet
    BY <1>6, <2>1 DEF IsLayout
  <2>3. \A w \in ws : w.source \in members /\ w.target \in members /\ w.points \in Seq(Int \X Int)
    BY <2>2 DEF WireSet
  <2>4. IsSetOut(ArrangeMembers(rs, ws, [vertical |-> apart, horizontal |-> apart], g.reference), members, apart)
    BY <1>2, <2>2, <2>3, MembersAreSetOut
  <2> QED BY <1>1, <1>7, <1>9, <2>1, <2>4
<1> QED BY <1>8, <1>9

-----------------------------------------------------------------------------
(* The plans of all groups.                                                *)

\* What a plan says of its group.
IsPlan(p, members) ==
  /\ p.members = members /\ p.padding \in Nat /\ p.insertion \in Nat
  /\ p.original = MembersBox(Rects, members) /\ IsBox(p.original)
  /\ IsSetOut(p.arranged, members, opening.memberGap)

LEMMA GroupPlanFacts ==
  ASSUME opening \in Openings, NEW g, Members(g) \subseteq DOMAIN Rects, Members(g) # {}, g.padding \in Nat
  PROVE  IsPlan(GroupPlan(g), Members(g)) /\ GroupPlan(g).id = g.id
<1>1. PICK members, arranged, original :
         members = Members(g) /\ arranged = SetOut(g) /\ original = MembersBox(Rects, members)
  OBVIOUS
<1>2. PICK insertion : insertion = Most(arranged.width + 2 * g.padding - WidthOf(original), 0)
  OBVIOUS
<1>3. GroupPlan(g) = [id |-> g.id, members |-> members, padding |-> g.padding, original |-> original,
                      arranged |-> arranged, insertion |-> insertion]
  BY <1>1, <1>2 DEF GroupPlan
<1>4. IsSetOut(arranged, members, opening.memberGap)
  BY <1>1, GroupIsSetOut
<1>5. IsFiniteSet(members) /\ members # {} /\ \A n \in members : IsRect(Rects[n])
  BY <1>1, OpeningFacts, FS_Subset, RectFacts
<1>6. IsBox(original)
  BY <1>1, <1>5, MembersBoxFacts
<1>7. insertion \in Nat
  <2>1. PICK a, b \in Int : a = original.right /\ b = original.left
    BY <1>6 DEF IsBox
  <2>2. PICK w \in Int : w = arranged.width
    BY <1>4 DEF IsSetOut
  <2>3. insertion = Most(w + 2 * g.padding - (a - b), 0)
    BY <1>2, <2>1, <2>2 DEF WidthOf
  <2> QED BY <2>3 DEF Most
<1>8. PICK p : p = GroupPlan(g)
  OBVIOUS
<1>9. p.id = g.id /\ p.members = members /\ p.padding = g.padding /\ p.original = original
      /\ p.arranged = arranged /\ p.insertion = insertion
  BY <1>3, <1>8
<1> QED BY <1>1, <1>4, <1>6, <1>7, <1>8, <1>9 DEF IsPlan

PlansOf(groups) == {GroupPlan(g) : g \in Range(groups)}
HigherPlan(S) ==
  {p \in S \X S : \/ p[1].original.top < p[2].original.top
                  \/ (p[1].original.top = p[2].original.top /\ p[1].id < p[2].id)}

LEMMA PlansListAll ==
  ASSUME opening \in Openings, AreValid(opening.groups), NEW ps, ps = Plans(opening.groups)
  PROVE  /\ Len(ps) \in Nat /\ DOMAIN ps = 1..Len(ps)
         /\ \A k \in 1..Len(ps) : ps[k] \in PlansOf(opening.groups)
         /\ \A p \in PlansOf(opening.groups) : \E k \in 1..Len(ps) : ps[k] = p
         /\ \A p \in PlansOf(opening.groups) : IsPlan(p, p.members)
<1>1. PICK groups : groups = opening.groups
  OBVIOUS
<1>2. PICK n \in Nat : n = Len(groups)
  BY <1>1, OpeningFacts
<1>3. /\ DOMAIN groups = 1..n
      /\ \A a \in 1..n : /\ groups[a].id \in Nat /\ groups[a].padding \in Nat
                         /\ Members(groups[a]) \subseteq DOMAIN Rects
                         /\ Members(groups[a]) # {}
      /\ \A a, b \in 1..n : groups[a].id = groups[b].id => a = b
  BY <1>1, <1>2, ValidFacts
<1>4. PICK f : f = [a \in 1..n |-> GroupPlan(groups[a])]
  OBVIOUS
<1>5. PICK S : S = {f[a] : a \in 1..n}
  OBVIOUS
<1>6. S = PlansOf(groups)
  BY <1>3, <1>4, <1>5 DEF PlansOf, Range
<1>7. IsFiniteSet(S)
  <2>1. IsFiniteSet(1..n)
    BY FS_Interval, 1 \in Int, n \in Int
  <2> QED BY <1>5, <2>1, ImageIsFinite
<1>8. \A a \in 1..n : IsPlan(f[a], Members(groups[a])) /\ f[a].id = groups[a].id
  BY <1>3, <1>4, GroupPlanFacts
<1>9. \A p \in S : IsPlan(p, p.members) /\ p.id \in Nat /\ p.original.top \in Int
  <2>1. ASSUME NEW a \in 1..n PROVE IsPlan(f[a], f[a].members) /\ f[a].id \in Nat /\ f[a].original.top \in Int
    <3>1. IsPlan(f[a], Members(groups[a])) /\ f[a].id = groups[a].id
      BY <1>8
    <3>2. f[a].members = Members(groups[a]) /\ IsBox(f[a].original)
      BY <3>1 DEF IsPlan
    <3> QED BY <1>3, <3>1, <3>2 DEF IsBox
  <2> QED BY <1>5, <2>1
<1>10. \A p, q \in S : p.id = q.id => p = q
  BY <1>3, <1>5, <1>8
<1>11. PICK top, id : top = [p \in S |-> p.original.top] /\ id = [p \in S |-> p.id]
  OBVIOUS
<1>12. PICK before : before = HigherPlan(S)
  OBVIOUS
<1>13. \A p, q \in S : <<p, q>> \in before <=> (top[p] < top[q] \/ (top[p] = top[q] /\ id[p] < id[q]))
  BY <1>11, <1>12 DEF HigherPlan
<1>14. StrictlyOrders(before, S)
  <2>1. \A p \in S : top[p] \in Int /\ id[p] \in Int
    BY <1>9, <1>11
  <2>2. \A p, q \in S : top[p] = top[q] /\ id[p] = id[q] => p = q
    BY <1>10, <1>11
  <2> QED BY ONLY <1>13, <2>1, <2>2, PairsOrder
<1>15. PICK m : m = Cardinality(S)
  OBVIOUS
<1>16. ps = [i \in 1..m |-> CHOOSE x \in S :
                Cardinality({y \in S : LexLess(<<y.original.top, y.id>>, <<x.original.top, x.id>>)}) = i - 1]
  BY <1>1, <1>6, <1>15 DEF Plans, FromTheTop, InOrder, PlansOf
<1>17. ASSUME NEW x \in S
       PROVE  {y \in S : LexLess(<<y.original.top, y.id>>, <<x.original.top, x.id>>)} = AheadOf(S, before, x)
  <2>1. \A y \in S : LexLess(<<y.original.top, y.id>>, <<x.original.top, x.id>>) <=> <<y, x>> \in before
    BY <1>11, <1>13, LexOfTwo
  <2> QED BY <2>1 DEF AheadOf
<1>18. RanksBy(ps, S, before)
  <2>1. ASSUME NEW i \in 1..m
        PROVE  ps[i] \in S /\ Cardinality(AheadOf(S, before, ps[i])) = i - 1
    <3>1. \E x \in S : Cardinality(AheadOf(S, before, x)) = i - 1
      BY ONLY <1>7, <1>14, <1>15, i \in 1..m, RankIsHeld
    <3>2. \E x \in S : Cardinality({y \in S :
                                      LexLess(<<y.original.top, y.id>>, <<x.original.top, x.id>>)}) = i - 1
      BY <1>17, <3>1
    <3>3. ps[i] \in S
          /\ Cardinality({y \in S : LexLess(<<y.original.top, y.id>>,
                                            <<ps[i].original.top, ps[i].id>>)}) = i - 1
      BY <1>16, <3>2
    <3> QED BY <1>17, <3>3
  <2>2. ps \in [1..m -> S]
    BY <1>16, <2>1
  <2> QED BY <1>15, <2>1, <2>2 DEF RanksBy
<1>19. /\ m \in Nat /\ Len(ps) = m /\ DOMAIN ps = 1..m
       /\ \A i \in 1..m : ps[i] \in S
       /\ \A x \in S : \E i \in 1..m : ps[i] = x
  BY ONLY <1>7, <1>14, <1>15, <1>18, RanksListAll
<1> QED BY <1>1, <1>6, <1>9, <1>19

LEMMA PartsAreApart ==
  ASSUME opening \in Openings, AreValid(opening.groups), plans = Plans(opening.groups)
  PROVE  PartsKeepApart
<1>1. PICK apart : apart = opening.memberGap
  OBVIOUS
<1>2. ASSUME NEW k \in DOMAIN plans PROVE IsSetOut(plans[k].arranged, plans[k].members, apart)
  <2>1. plans[k] \in PlansOf(opening.groups)
    BY PlansListAll
  <2>2. IsPlan(plans[k], plans[k].members)
    BY <2>1, PlansListAll
  <2> QED BY <1>1, <2>2 DEF IsPlan
<1>3. ASSUME NEW k \in DOMAIN plans, NEW set, set = plans[k].arranged,
             NEW box, box = [i \in DOMAIN set.parts |-> MembersBox(set.rects, set.parts[i])]
      PROVE  \A i, j \in DOMAIN set.parts : i # j => ~ MeetBox(Padded(box[i], apart), box[j])
  BY <1>2, <1>3 DEF IsSetOut
<1> QED BY <1>1, <1>3 DEF PartsKeepApart

-----------------------------------------------------------------------------
(* Room below a frame.                                                     *)

LesserPairs(S) == {p \in S \X S : p[1] < p[2]}

IsListing(order, S, k) ==
  /\ k \in Nat /\ DOMAIN order = 1..k /\ Len(order) = k
  /\ \A i \in 1..k : order[i] \in S
  /\ \A x \in S : \E i \in 1..k : order[i] = x
  /\ \A i, j \in 1..k : order[i] = order[j] => i = j

LEMMA NumbersInOrder ==
  ASSUME NEW S, S \subseteq Nat, IsFiniteSet(S), NEW k, k = Cardinality(S), NEW order,
         order = [i \in 1..k |-> CHOOSE x \in S : Cardinality({y \in S : y < x}) = i - 1]
  PROVE  IsListing(order, S, k)
<1>1. PICK before : before = LesserPairs(S)
  OBVIOUS
<1>2. \A x, y \in S : <<x, y>> \in before <=> x < y
  BY <1>1 DEF LesserPairs
<1>3. StrictlyOrders(before, S)
  <2>1. \A x \in S : x \in Int
    OBVIOUS
  <2>2. \A x, y \in S : x = y \/ x < y \/ y < x
    BY <2>1
  <2>3. \A x, y, z \in S : x < y /\ y < z => x < z
    BY <2>1
  <2>4. \A x \in S : ~ (x < x)
    BY <2>1
  <2> QED BY ONLY <1>2, <2>2, <2>3, <2>4 DEF StrictlyOrders
<1>4. order = [i \in 1..k |-> CHOOSE x \in S : Cardinality({y \in S : y < x}) = i - 1]
  OBVIOUS
<1>5. ASSUME NEW x \in S PROVE {y \in S : y < x} = AheadOf(S, before, x)
  BY <1>2 DEF AheadOf
<1>6. RanksBy(order, S, before)
  <2>1. ASSUME NEW i \in 1..k
        PROVE  order[i] \in S /\ Cardinality(AheadOf(S, before, order[i])) = i - 1
    <3>1. \E x \in S : Cardinality(AheadOf(S, before, x)) = i - 1
      BY <1>3, RankIsHeld
    <3>2. \E x \in S : Cardinality({y \in S : y < x}) = i - 1
      BY <1>5, <3>1
    <3>3. order[i] \in S /\ Cardinality({y \in S : y < order[i]}) = i - 1
      BY <1>4, <3>2
    <3> QED BY <1>5, <3>3
  <2>2. order \in [1..k -> S]
    BY <1>4, <2>1
  <2> QED BY <2>1, <2>2 DEF RanksBy
<1>7. IsFiniteSet(S) /\ k = Cardinality(S)
  OBVIOUS
<1> QED BY ONLY <1>3, <1>6, <1>7, RanksListAll DEF IsListing

LEMMA TotalOfOne ==
  ASSUME NEW f, f[1] \in Int
  PROVE  Total([i \in 1..1 |-> f[i]]) = f[1]
<1>1. \A i \in 1..1 : f[i] \in Int
  OBVIOUS
<1>2. PICK h : Sums(1, f, h)
  BY <1>1, SumsExist
<1>3. Total([i \in 1..1 |-> f[i]]) = h[1]
  <2>1. PICK n \in Nat : n = 1
    OBVIOUS
  <2>2. Sums(n, f, h) /\ n \in 0..n
    BY <1>2, <2>1
  <2>3. Total([i \in 1..n |-> f[i]]) = h[n]
    BY ONLY n \in Nat, <2>2, PrefixTotals
  <2> QED BY <2>1, <2>3
<1> QED BY <1>2, <1>3 DEF Sums

\* Sums of numbers that are not negative grow.
LEMMA SumsGrow ==
  ASSUME NEW n \in Nat, NEW f, \A i \in 1..n : f[i] \in Nat, NEW h, Sums(n, f, h),
         NEW i \in 0..n, NEW j \in 0..n, i <= j
  PROVE  h[i] <= h[j] /\ h[i] \in Int /\ h[j] \in Int
<1>1. PICK Good : Good = {k \in Nat : k <= n => \A a \in 0..k : h[a] <= h[k]}
  OBVIOUS
<1>2. \A a \in 0..n : h[a] \in Int
  BY DEF Sums
<1>3. 0 \in Good
  BY <1>1, <1>2
<1>4. ASSUME NEW k \in Nat, k \in Good PROVE k + 1 \in Good
  <2>1. SUFFICES ASSUME k + 1 <= n PROVE \A a \in 0..(k + 1) : h[a] <= h[k + 1]
    BY <1>1
  <2>2. k + 1 \in 1..n /\ k + 1 - 1 = k
    BY <2>1
  <2>3. h[k + 1] = h[k] + f[k + 1] /\ f[k + 1] \in Nat
    BY <2>2 DEF Sums
  <2>4. \A a \in 0..k : h[a] <= h[k]
    BY <1>1, <1>4, <2>1
  <2>5. h[k] \in Int /\ h[k + 1] \in Int
    BY <1>2, <2>1
  <2> TAKE a \in 0..(k + 1)
  <2>6. a \in 0..k \/ a = k + 1
    OBVIOUS
  <2>7. h[a] \in Int
    BY <1>2, <2>1
  <2>8. CASE a \in 0..k
    <3>1. h[a] <= h[k]
      BY <2>4, <2>8
    <3> QED BY <2>3, <2>5, <2>7, <3>1
  <2>9. CASE a = k + 1
    BY <2>5, <2>9
  <2> QED BY <2>6, <2>8, <2>9
<1>5. j \in Good
  BY <1>3, <1>4, CountingUp
<1> QED BY <1>1, <1>2, <1>5

IsDrawing(rects) == rects \in [DOMAIN Rects -> RectSet]
Apart(r, s) == ~ MeetBox(BoxOf(r), BoxOf(s))

LEMMA ApartFacts ==
  ASSUME NEW r \in RectSet, NEW s \in RectSet
  PROVE  Apart(r, s) <=> \/ r.x + r.width <= s.x \/ s.x + s.width <= r.x
                         \/ r.y + r.height <= s.y \/ s.y + s.height <= r.y
<1>1. /\ r.x \in Int /\ r.y \in Int /\ r.width \in Int /\ r.height \in Int
      /\ s.x \in Int /\ s.y \in Int /\ s.width \in Int /\ s.height \in Int
  BY RectFacts
<1> QED BY <1>1 DEF Apart, MeetBox, BoxOf, Box

LEMMA FrameMeets ==
  ASSUME NEW f, IsBox(f), NEW r \in RectSet
  PROVE  MeetBox(f, BoxOf(r)) <=> /\ f.left < r.x + r.width /\ r.x < f.right
                                  /\ f.top < r.y + r.height /\ r.y < f.bottom
<1>1. r.x \in Int /\ r.y \in Int /\ r.width \in Int /\ r.height \in Int
  BY RectFacts
<1> QED BY <1>1 DEF MeetBox, BoxOf, Box, IsBox

\* A single group: the nodes right of it make room for it and stay apart.
LEMMA SpreadApart ==
  ASSUME opening \in Openings, NEW ps, DOMAIN ps = 1..1, IsPlan(ps[1], ps[1].members)
  PROVE  /\ IsDrawing(SpreadRight(ps))
         /\ \A m, n \in DOMAIN Rects : m # n => Apart(SpreadRight(ps)[m], SpreadRight(ps)[n])
<1>0. PICK right \in Int : right = ps[1].original.right
  BY DEF IsPlan, IsBox
<1>1. PICK ins \in Nat : ins = ps[1].insertion
  BY DEF IsPlan
<1>2. PICK s : s = SpreadRight(ps)
  OBVIOUS
<1>3. PICK by : by = [n \in DOMAIN Rects |-> IF Rects[n].x >= right THEN ins ELSE 0]
  OBVIOUS
<1>4. ASSUME NEW n \in DOMAIN Rects
      PROVE  /\ s[n] \in RectSet /\ Rects[n] \in RectSet
             /\ s[n].x = Rects[n].x + by[n] /\ s[n].y = Rects[n].y
             /\ s[n].width = Rects[n].width /\ s[n].height = Rects[n].height
  <2>1. PICK r \in RectSet : r = Rects[n]
    BY OpeningFacts
  <2>2. PICK f : f = [k \in 1..1 |-> IF Rects[n].x >= ps[k].original.right THEN ps[k].insertion ELSE 0]
    OBVIOUS
  <2>3. f[1] = by[n] /\ by[n] \in Int
    BY <1>0, <1>1, <1>3, <2>2
  <2>4. f = [k \in 1..1 |-> f[k]]
    BY <2>2
  <2>5. Total(f) = by[n]
    BY <2>3, <2>4, TotalOfOne
  <2>6. s[n] = [r EXCEPT !.x = @ + Total(f)]
    BY <1>2, <2>1, <2>2 DEF SpreadRight
  <2>7. s[n] = Moved(r, by[n], 0)
    <3>1. r.y + 0 = r.y
      BY RectFacts
    <3> QED BY <2>5, <2>6, <3>1 DEF Moved, RectSet
  <2>8. s[n] \in RectSet /\ s[n].x = r.x + by[n] /\ s[n].y = r.y + 0
        /\ s[n].width = r.width /\ s[n].height = r.height
    BY <2>3, <2>7, MovedFacts
  <2>9. r.y + 0 = r.y
    BY RectFacts
  <2> QED BY <2>1, <2>8, <2>9
<1>5. DOMAIN s = DOMAIN Rects
  BY <1>2 DEF SpreadRight
<1>6. IsDrawing(s)
  <2>1. s = [n \in DOMAIN Rects |-> s[n]]
    BY <1>2, <1>5 DEF SpreadRight
  <2> QED BY <1>4, <2>1 DEF IsDrawing
<1>7. ASSUME NEW m \in DOMAIN Rects, NEW n \in DOMAIN Rects, m # n PROVE Apart(s[m], s[n])
  <2>1. PICK a, b : a = Rects[m] /\ b = Rects[n]
    OBVIOUS
  <2>2. Apart(a, b)
    BY <1>7, <2>1, OpeningFacts DEF Apart
  <2>3. a \in RectSet /\ b \in RectSet
    BY <1>4, <2>1
  <2>4. \/ a.x + a.width <= b.x \/ b.x + b.width <= a.x
        \/ a.y + a.height <= b.y \/ b.y + b.height <= a.y
    BY <2>2, <2>3, ApartFacts
  <2>5. /\ a.x \in Int /\ a.y \in Int /\ a.width \in Int /\ a.height \in Int
        /\ b.x \in Int /\ b.y \in Int /\ b.width \in Int /\ b.height \in Int
        /\ a.width > 0 /\ b.width > 0
    BY <2>3, RectFacts
  <2>6. PICK da, db : da = by[m] /\ db = by[n]
    OBVIOUS
  <2>7. da = (IF a.x >= right THEN ins ELSE 0) /\ db = (IF b.x >= right THEN ins ELSE 0)
    BY <1>3, <2>1, <2>6
  <2>8. \/ a.x + da + a.width <= b.x + db \/ b.x + db + b.width <= a.x + da
        \/ a.y + a.height <= b.y \/ b.y + b.height <= a.y
    BY ONLY right \in Int, ins \in Nat, <2>4, <2>5, <2>7
  <2>9. PICK p, q : p = s[m] /\ q = s[n]
    OBVIOUS
  <2>10. /\ p \in RectSet /\ q \in RectSet
         /\ p.x = a.x + da /\ p.y = a.y /\ p.width = a.width /\ p.height = a.height
         /\ q.x = b.x + db /\ q.y = b.y /\ q.width = b.width /\ q.height = b.height
    BY <1>4, <2>1, <2>6, <2>9
  <2>11. Apart(p, q)
    BY <2>8, <2>10, ApartFacts
  <2> QED BY <2>9, <2>11
<1> QED BY <1>2, <1>6, <1>7

LEMMA ArrangedFacts ==
  ASSUME opening \in Openings, NEW rects, IsDrawing(rects), NEW plan, NEW members,
         members \subseteq DOMAIN Rects, members # {}, IsPlan(plan, members),
         NEW out, out = Arranged(rects, plan)
  PROVE  /\ IsDrawing(out) /\ \A n \in (DOMAIN Rects) \ members : out[n] = rects[n]
         /\ IsBox(Frame(out, plan)) /\ Frame(out, plan).top < Frame(out, plan).bottom
<1>1. DOMAIN rects = DOMAIN Rects /\ \A n \in DOMAIN Rects : rects[n] \in RectSet
  BY DEF IsDrawing
<1>2. IsFiniteSet(members)
  BY OpeningFacts, FS_Subset
<1>3. PICK set : set = plan.arranged
  OBVIOUS
<1>4. plan.members = members /\ plan.padding \in Nat /\ set.rects \in [members -> RectSet]
  BY <1>3 DEF IsPlan, IsSetOut
<1>5. PICK now : now = MembersBox(rects, members)
  OBVIOUS
<1>6. now.left \in Int /\ now.top \in Int
  <2>1. \A n \in members : IsRect(rects[n])
    BY <1>1, RectFacts
  <2>2. IsBox(now)
    BY <1>2, <1>5, <2>1, MembersBoxFacts
  <2> QED BY <2>2 DEF IsBox
<1>7. PICK dx, dy : dx = now.left + plan.padding /\ dy = now.top + plan.padding
  OBVIOUS
<1>8. dx \in Int /\ dy \in Int
  BY <1>4, <1>6, <1>7
<1>9. ASSUME NEW n \in members PROVE out[n] \in RectSet
  <2>1. PICK r \in RectSet : r = set.rects[n]
    BY <1>4
  <2>2. out[n] = [r EXCEPT !.x = @ + now.left + plan.padding, !.y = @ + now.top + plan.padding]
    BY <1>1, <1>3, <1>4, <1>5, <2>1 DEF Arranged
  <2>3. PICK x, y \in Int : x = r.x /\ y = r.y
    BY RectFacts
  <2>4. x + now.left + plan.padding = x + dx /\ y + now.top + plan.padding = y + dy
    BY <1>4, <1>6, <1>7
  <2>5. out[n] = Moved(r, dx, dy)
    BY <2>2, <2>3, <2>4 DEF Moved, RectSet
  <2> QED BY <1>8, <2>5, MovedFacts
<1>10. ASSUME NEW n \in (DOMAIN Rects) \ members PROVE out[n] = rects[n]
  BY <1>1, <1>4 DEF Arranged
<1>11. IsDrawing(out)
  <2>1. DOMAIN out = DOMAIN Rects /\ out = [n \in DOMAIN Rects |-> out[n]]
    BY <1>1 DEF Arranged
  <2>2. \A n \in DOMAIN Rects : out[n] \in RectSet
    BY <1>1, <1>9, <1>10
  <2> QED BY <2>1, <2>2 DEF IsDrawing
<1>12. PICK box : box = MembersBox(out, members)
  OBVIOUS
<1>13. IsBox(box) /\ box.top < box.bottom
  <2>1. \A n \in members : IsRect(out[n])
    BY <1>9, RectFacts
  <2> QED BY <1>2, <1>12, <2>1, MembersBoxFacts
<1>14. PICK frame : frame = Frame(out, plan)
  OBVIOUS
<1>15. /\ frame.left = box.left - plan.padding /\ frame.top = box.top - plan.padding
       /\ frame.right = box.right + plan.padding /\ frame.bottom = box.bottom + plan.padding
  BY <1>4, <1>12, <1>14 DEF Frame, Padded, Box
<1>16. IsBox(frame) /\ frame.top < frame.bottom
  BY <1>4, <1>13, <1>15 DEF IsBox
<1> QED BY <1>10, <1>11, <1>14, <1>16

Near(frame, r) == frame.left < r.x + r.width /\ r.x < frame.right

\* Where the stack and what is below it end up.
StacksUp(out, frame, intruders, s, k, room, at, h) ==
  /\ k \in Nat /\ room \in Nat
  /\ \A n \in intruders : at[n] \in 1..k
  /\ \A m, n \in intruders : at[m] = at[n] => m = n
  /\ room = Relocation(out, intruders) /\ room = h[k]
  /\ \A i \in 0..k : h[i] \in Nat /\ \A j \in 0..k : i <= j => h[i] <= h[j]
  /\ \A n \in intruders : h[at[n]] = h[at[n] - 1] + out[n].height + opening.nodeGap
  /\ IsDrawing(s)
  /\ \A n \in DOMAIN Rects :
       /\ s[n].x = out[n].x /\ s[n].width = out[n].width /\ s[n].height = out[n].height
       /\ s[n].y = IF n \in intruders THEN frame.bottom + opening.nodeGap + h[at[n] - 1]
                   ELSE IF n \notin AllMembers /\ out[n].y >= frame.bottom
                   THEN out[n].y + room ELSE out[n].y
       /\ n \notin intruders /\ n \in AllMembers => s[n] = out[n]

LEMMA StackedTops ==
  ASSUME opening \in Openings, NEW out, IsDrawing(out), NEW frame, IsBox(frame),
         NEW intruders, intruders \subseteq DOMAIN Rects, NEW s, s = StackBelow(out, frame, intruders)
  PROVE  \E k, room, at, h : StacksUp(out, frame, intruders, s, k, room, at, h)
<1>1. DOMAIN out = DOMAIN Rects /\ \A n \in DOMAIN Rects : out[n] \in RectSet
  BY DEF IsDrawing
<1>2. PICK apart \in Nat : apart = opening.nodeGap
  BY OpeningFacts
<1>3. intruders \subseteq Nat /\ IsFiniteSet(intruders)
  BY OpeningFacts, FS_Subset
<1>4. PICK k : k = Cardinality(intruders)
  OBVIOUS
<1>5. PICK order : order = [i \in 1..k |-> CHOOSE x \in intruders :
                                              Cardinality({y \in intruders : y < x}) = i - 1]
  OBVIOUS
<1>6. /\ k \in Nat /\ DOMAIN order = 1..k /\ Len(order) = k
      /\ \A i \in 1..k : order[i] \in intruders
      /\ \A x \in intruders : \E i \in 1..k : order[i] = x
      /\ \A i, j \in 1..k : order[i] = order[j] => i = j
  <2>1. IsListing(order, intruders, k)
    BY ONLY <1>3, <1>4, <1>5, NumbersInOrder
  <2> QED BY <2>1 DEF IsListing
<1>7. PICK f : f = [i \in 1..k |-> out[order[i]].height + apart]
  OBVIOUS
<1>8. \A i \in 1..k : f[i] \in Nat /\ f[i] \in Int
  <2>1. \A n \in intruders : out[n].height \in Nat
    BY <1>1, RectFacts
  <2> QED BY <1>6, <1>7, <2>1
<1>9. PICK h : Sums(k, f, h)
  BY <1>6, <1>8, SumsExist
<1>10. PICK at : at = [n \in intruders |-> CHOOSE i \in 1..k : order[i] = n]
  OBVIOUS
<1>11. \A n \in intruders : at[n] \in 1..k /\ order[at[n]] = n
  BY <1>6, <1>10
<1>12. ASSUME NEW i \in 0..k
       PROVE  h[i] \in Nat /\ \A j \in 0..k : i <= j => h[i] <= h[j]
  <2>0. k \in Nat /\ \A j \in 1..k : f[j] \in Nat
    BY <1>6, <1>8
  <2>1. \A j \in 0..k : i <= j => h[i] <= h[j]
    BY <1>9, <2>0, SumsGrow
  <2>2. 0 \in 0..k /\ 0 <= i
    BY <1>6
  <2>3. h[0] <= h[i] /\ h[i] \in Int
    BY <1>9, <2>0, <2>2, SumsGrow
  <2>4. h[0] = 0
    BY <1>9 DEF Sums
  <2> QED BY <2>1, <2>3, <2>4
<1>13. ASSUME NEW n \in intruders PROVE h[at[n]] = h[at[n] - 1] + out[n].height + apart
  <2>1. at[n] \in 1..k /\ order[at[n]] = n
    BY <1>11
  <2>2. h[at[n]] = h[at[n] - 1] + f[at[n]]
    BY <1>9, <2>1 DEF Sums
  <2>3. f[at[n]] = out[n].height + apart
    BY <1>7, <2>1
  <2>4. h[at[n] - 1] \in Nat /\ out[n].height \in Nat
    <3>1. at[n] - 1 \in 0..k
      BY <1>6, <2>1
    <3> QED BY <1>1, <1>12, <3>1, RectFacts
  <2> QED BY <2>2, <2>3, <2>4
<1>14. order = InOrder(intruders, <)
  BY <1>4, <1>5 DEF InOrder
<1>15. PICK room : room = h[k]
  OBVIOUS
<1>16. room = Relocation(out, intruders) /\ room \in Nat
  <2>1. k \in 0..k
    BY <1>6
  <2>2. Total([i \in 1..k |-> f[i]]) = h[k]
    BY ONLY <1>6, <1>9, <2>1, PrefixTotals
  <2>3. [i \in 1..k |-> f[i]] = [i \in DOMAIN order |-> out[order[i]].height + opening.nodeGap]
    BY <1>2, <1>6, <1>7
  <2>4. Relocation(out, intruders) = Total([i \in DOMAIN order |-> out[order[i]].height + opening.nodeGap])
    BY <1>14 DEF Relocation
  <2> QED BY <1>12, <1>15, <2>1, <2>2, <2>3, <2>4
<1>17. PICK top : top = [n \in DOMAIN Rects |->
                           CASE n \in intruders -> frame.bottom + apart + h[at[n] - 1]
                             [] n \notin intruders /\ n \notin AllMembers /\ out[n].y >= frame.bottom ->
                                  out[n].y + room
                             [] OTHER -> out[n].y]
  OBVIOUS
<1>18. ASSUME NEW n \in intruders
       PROVE  Total([i \in 1..((CHOOSE i \in DOMAIN order : order[i] = n) - 1)
                       |-> out[order[i]].height + opening.nodeGap]) = h[at[n] - 1]
  <2>1. at[n] \in 1..k /\ at[n] = CHOOSE i \in DOMAIN order : order[i] = n
    BY <1>6, <1>10, <1>11
  <2>2. PICK b : b = at[n] - 1
    OBVIOUS
  <2>3. b \in 0..k
    BY <1>6, <2>1, <2>2
  <2>4. Total([i \in 1..b |-> f[i]]) = h[b]
    BY ONLY <1>6, <1>9, <2>3, PrefixTotals
  <2>5. [i \in 1..b |-> f[i]] = [i \in 1..b |-> out[order[i]].height + opening.nodeGap]
    <3>1. \A i \in 1..b : i \in 1..k
      BY <1>6, <2>3
    <3>2. \A i \in 1..b : f[i] = out[order[i]].height + opening.nodeGap
      BY <1>2, <1>7, <3>1
    <3> QED BY <3>2
  <2> QED BY <2>1, <2>2, <2>4, <2>5
<1>19. s = [n \in DOMAIN Rects |-> [out[n] EXCEPT !.y = top[n]]]
  <2>1. DOMAIN s = DOMAIN Rects /\ s = [n \in DOMAIN Rects |-> s[n]]
    BY <1>1 DEF StackBelow, InOrder, Relocation
  <2>2. ASSUME NEW n \in DOMAIN Rects PROVE s[n] = [out[n] EXCEPT !.y = top[n]]
    <3>1. CASE n \in intruders
      <4>1. top[n] = frame.bottom + apart + h[at[n] - 1]
        BY <1>17, <3>1
      <4>2. s[n] = [out[n] EXCEPT !.y = frame.bottom + opening.nodeGap
              + Total([i \in 1..((CHOOSE i \in DOMAIN order : order[i] = n) - 1)
                         |-> out[order[i]].height + opening.nodeGap])]
        BY <1>1, <1>14, <3>1 DEF StackBelow
      <4> QED BY <1>2, <1>18, <3>1, <4>1, <4>2
    <3>2. CASE n \notin intruders /\ n \notin AllMembers /\ out[n].y >= frame.bottom
      <4>1. top[n] = out[n].y + room
        BY <1>17, <3>2
      <4>2. s[n] = [out[n] EXCEPT !.y = out[n].y + Relocation(out, intruders)]
        BY <1>1, <3>2 DEF StackBelow
      <4> QED BY <1>16, <4>1, <4>2
    <3>3. CASE n \notin intruders /\ ~ (n \notin AllMembers /\ out[n].y >= frame.bottom)
      <4>1. top[n] = out[n].y
        BY <1>17, <3>3
      <4>2. s[n] = [out[n] EXCEPT !.y = out[n].y]
        BY <1>1, <3>3 DEF StackBelow
      <4> QED BY <4>1, <4>2
    <3> QED BY <3>1, <3>2, <3>3
  <2> QED BY <2>1, <2>2
<1>20. ASSUME NEW n \in DOMAIN Rects
       PROVE  /\ s[n] \in RectSet
              /\ s[n].x = out[n].x /\ s[n].width = out[n].width /\ s[n].height = out[n].height
              /\ s[n].y = top[n]
              /\ n \notin intruders /\ n \in AllMembers => s[n] = out[n]
  <2>1. PICK r \in RectSet : r = out[n]
    BY <1>1
  <2>2. r.x \in Int /\ r.y \in Int /\ r.width \in Nat \ {0} /\ r.height \in Nat \ {0}
    BY DEF RectSet
  <2>3. r = [x |-> r.x, y |-> r.y, width |-> r.width, height |-> r.height]
    BY DEF RectSet
  <2>4. s[n] = [x |-> r.x, y |-> top[n], width |-> r.width, height |-> r.height]
    BY <1>19, <2>1 DEF RectSet
  <2>5. top[n] \in Int
    <3>1. n \in intruders => at[n] - 1 \in 0..k
      BY <1>6, <1>11
    <3>2. n \in intruders => h[at[n] - 1] \in Nat
      BY <1>12, <3>1
    <3>3. frame.bottom \in Int
      BY DEF IsBox
    <3>4. PICK b, y, e : b = frame.bottom /\ y = r.y /\ e = h[at[n] - 1]
      OBVIOUS
    <3>5. top[n] = CASE n \in intruders -> b + apart + e
                     [] n \notin intruders /\ n \notin AllMembers /\ y >= b -> y + room
                     [] OTHER -> y
      BY <1>17, <2>1, <3>4
    <3> QED BY <1>16, <2>2, <3>2, <3>3, <3>4, <3>5
  <2>6. s[n] \in RectSet
    BY <2>2, <2>4, <2>5 DEF RectSet
  <2>7. n \notin intruders /\ n \in AllMembers => top[n] = r.y
    BY <1>17, <2>1
  <2> QED BY <2>1, <2>3, <2>4, <2>6, <2>7
<1>21. IsDrawing(s)
  BY <1>19, <1>20 DEF IsDrawing
<1>22. ASSUME NEW n \in DOMAIN Rects
       PROVE  s[n].y = IF n \in intruders THEN frame.bottom + opening.nodeGap + h[at[n] - 1]
                       ELSE IF n \notin AllMembers /\ out[n].y >= frame.bottom
                       THEN out[n].y + room ELSE out[n].y
  BY <1>2, <1>17, <1>20
<1>23. \A m, n \in intruders : at[m] = at[n] => m = n
  BY <1>11
<1>24. StacksUp(out, frame, intruders, s, k, room, at, h)
  BY ONLY <1>2, <1>6, <1>11, <1>12, <1>13, <1>15, <1>16, <1>20, <1>21, <1>22, <1>23 DEF StacksUp
<1> QED BY <1>24

\* What stood in the frame or below it is out of it, and apart from what stood above it.
LEMMA StackedFacts ==
  ASSUME opening \in Openings, NEW out, IsDrawing(out), NEW frame, IsBox(frame), frame.top < frame.bottom,
         NEW intruders, intruders = Intruders(out, frame), NEW s, s = StackBelow(out, frame, intruders),
         \A m, n \in (DOMAIN Rects) \ AllMembers : m # n => Apart(out[m], out[n])
  PROVE  /\ IsDrawing(s)
         /\ \A n \in (DOMAIN Rects) \cap AllMembers : s[n] = out[n]
         /\ \A n \in (DOMAIN Rects) \ AllMembers : ~ MeetBox(frame, BoxOf(s[n]))
         /\ \A m, n \in (DOMAIN Rects) \ AllMembers :
              m # n /\ Near(frame, s[m]) /\ Near(frame, s[n]) => Apart(s[m], s[n])
<1>1. DOMAIN out = DOMAIN Rects /\ \A n \in DOMAIN Rects : out[n] \in RectSet
  BY DEF IsDrawing
<1>2. intruders = {n \in (DOMAIN Rects) \ AllMembers : MeetBox(frame, BoxOf(out[n]))}
  BY <1>1 DEF Intruders
<1>3. intruders \subseteq DOMAIN Rects
  BY <1>2
<1>4. PICK k, room, at, h : StacksUp(out, frame, intruders, s, k, room, at, h)
  BY <1>3, StackedTops
<1>5. PICK apart \in Nat : apart = opening.nodeGap
  BY OpeningFacts
<1>6. PICK bottom \in Int, top \in Int : bottom = frame.bottom /\ top = frame.top /\ top < bottom
  BY DEF IsBox
<1>7. IsDrawing(s) /\ \A n \in DOMAIN Rects : s[n] \in RectSet
  BY <1>4 DEF StacksUp, IsDrawing
<1>8. ASSUME NEW n \in (DOMAIN Rects) \cap AllMembers PROVE s[n] = out[n]
  BY <1>2, <1>4 DEF StacksUp
<1>9. ASSUME NEW n \in DOMAIN Rects
      PROVE  s[n].x = out[n].x /\ s[n].width = out[n].width /\ s[n].height = out[n].height
  BY <1>4 DEF StacksUp
\* Where a node that is near the frame ends up: in the stack, below it, or above the frame.
<1>10. ASSUME NEW n \in intruders
       PROVE  \E i \in 1..k : /\ at[n] = i
                              /\ s[n].y = bottom + apart + h[i - 1] /\ h[i] = h[i - 1] + s[n].height + apart
                              /\ h[i] \in Nat /\ h[i - 1] \in Nat /\ h[i] <= room
  <2>1. n \in DOMAIN Rects
    BY <1>3
  <2>2. PICK i \in 1..k : i = at[n]
    BY <1>4 DEF StacksUp
  <2>3. k \in Nat /\ i \in 0..k /\ i - 1 \in 0..k /\ k \in 0..k /\ i <= k
    <3>1. k \in Nat
      BY <1>4 DEF StacksUp
    <3> QED BY <3>1
  <2>4. h[i] \in Nat /\ h[i - 1] \in Nat /\ h[i] <= h[k] /\ room = h[k]
    BY <1>4, <2>3 DEF StacksUp
  <2>5. s[n].y = bottom + apart + h[i - 1]
    BY <1>4, <1>5, <1>6, <2>1, <2>2 DEF StacksUp
  <2>6. h[i] = h[i - 1] + s[n].height + apart
    BY <1>4, <1>5, <1>9, <2>1, <2>2 DEF StacksUp
  <2> QED BY <2>2, <2>4, <2>5, <2>6
<1>11. ASSUME NEW n \in ((DOMAIN Rects) \ AllMembers) \ intruders
       PROVE  s[n].y = IF out[n].y >= bottom THEN out[n].y + room ELSE out[n].y
  BY <1>4, <1>6 DEF StacksUp
<1>12. ASSUME NEW n \in (DOMAIN Rects) \ AllMembers
       PROVE  /\ s[n].x \in Int /\ s[n].y \in Int /\ s[n].width \in Nat \ {0} /\ s[n].height \in Nat \ {0}
              /\ out[n].x \in Int /\ out[n].y \in Int
              /\ out[n] \in RectSet /\ s[n] \in RectSet
  BY <1>1, <1>7, RectFacts DEF RectSet
<1>13. room \in Nat
  BY <1>4 DEF StacksUp
<1>14. ASSUME NEW n \in (DOMAIN Rects) \ AllMembers PROVE ~ MeetBox(frame, BoxOf(s[n]))
  <2>1. CASE n \in intruders
    <3>1. s[n].y >= bottom
      BY <1>10, <1>13, <2>1
    <3>2. ~ (s[n].y < frame.bottom)
      BY <1>6, <1>12, <3>1
    <3> QED BY <1>12, <3>2, FrameMeets
  <2>2. CASE n \notin intruders /\ out[n].y >= bottom
    <3>1. s[n].y >= bottom
      BY <1>11, <1>12, <1>13, <2>2
    <3>2. ~ (s[n].y < frame.bottom)
      BY <1>6, <1>12, <3>1
    <3> QED BY <1>12, <3>2, FrameMeets
  <2>3. CASE n \notin intruders /\ ~ (out[n].y >= bottom)
    <3>1. ~ MeetBox(frame, BoxOf(out[n]))
      BY <1>2, <2>3
    <3>2. s[n].y = out[n].y
      BY <1>11, <2>3
    <3>3. s[n].x = out[n].x /\ s[n].width = out[n].width /\ s[n].height = out[n].height
      BY <1>9
    <3> QED BY <1>12, <3>1, <3>2, <3>3, FrameMeets
  <2> QED BY <2>1, <2>2, <2>3
<1>15. ASSUME NEW n \in ((DOMAIN Rects) \ AllMembers) \ intruders, out[n].y < bottom, Near(frame, s[n])
       PROVE  s[n].y = out[n].y /\ s[n].y + s[n].height <= top
  <2>1. s[n].y = out[n].y
    BY <1>11, <1>12, <1>15
  <2>2. ~ MeetBox(frame, BoxOf(s[n]))
    BY <1>14
  <2>3. ~ (frame.top < s[n].y + s[n].height /\ s[n].y < frame.bottom)
    BY <1>12, <1>15, <2>2, FrameMeets DEF Near
  <2> QED BY <1>6, <1>12, <1>15, <2>1, <2>3
\* One of two nodes is higher.
<1>16. ASSUME NEW m \in (DOMAIN Rects) \ AllMembers, NEW n \in (DOMAIN Rects) \ AllMembers,
              \/ s[m].y + s[m].height <= s[n].y \/ s[n].y + s[n].height <= s[m].y
       PROVE  Apart(s[m], s[n]) /\ Apart(s[n], s[m])
  BY <1>12, <1>16, ApartFacts
<1>17. ASSUME NEW m \in intruders, NEW n \in intruders, m # n PROVE Apart(s[m], s[n])
  <2>0. m \in (DOMAIN Rects) \ AllMembers /\ n \in (DOMAIN Rects) \ AllMembers
    BY <1>2
  <2>1. PICK i \in 1..k : /\ at[m] = i
                          /\ s[m].y = bottom + apart + h[i - 1] /\ h[i] = h[i - 1] + s[m].height + apart
                          /\ h[i] \in Nat /\ h[i - 1] \in Nat
    BY <1>10
  <2>2. PICK j \in 1..k : /\ at[n] = j
                          /\ s[n].y = bottom + apart + h[j - 1] /\ h[j] = h[j - 1] + s[n].height + apart
                          /\ h[j] \in Nat /\ h[j - 1] \in Nat
    BY <1>10
  <2>3. i # j
    BY <1>4, <1>17, <2>1, <2>2 DEF StacksUp
  <2>4. k \in Nat /\ \A a \in 0..k : \A b \in 0..k : a <= b => h[a] <= h[b]
    BY <1>4 DEF StacksUp
  <2>5. i \in 0..k /\ j \in 0..k /\ i - 1 \in 0..k /\ j - 1 \in 0..k
    BY <2>4
  <2>6. i <= j - 1 \/ j <= i - 1
    BY <2>3
  <2>7. h[i] <= h[j - 1] \/ h[j] <= h[i - 1]
    BY <2>4, <2>5, <2>6
  <2>8. s[m].height \in Nat /\ s[n].height \in Nat
    BY <1>12, <2>0
  <2>9. s[m].y + s[m].height <= s[n].y \/ s[n].y + s[n].height <= s[m].y
    BY <2>1, <2>2, <2>7, <2>8
  <2> QED BY <1>16, <2>0, <2>9
<1>18. ASSUME NEW m \in intruders, NEW n \in ((DOMAIN Rects) \ AllMembers) \ intruders, Near(frame, s[n])
       PROVE  Apart(s[m], s[n]) /\ Apart(s[n], s[m])
  <2>0. m \in (DOMAIN Rects) \ AllMembers
    BY <1>2
  <2>1. PICK i \in 1..k : /\ s[m].y = bottom + apart + h[i - 1] /\ h[i] = h[i - 1] + s[m].height + apart
                          /\ h[i] \in Nat /\ h[i - 1] \in Nat /\ h[i] <= room
    BY <1>10
  <2>2. s[m].height \in Nat
    BY <1>12, <2>0
  <2>3. CASE out[n].y >= bottom
    <3>1. s[n].y = out[n].y + room
      BY <1>11, <2>3
    <3>2. s[m].y + s[m].height <= s[n].y
      BY <1>12, <1>13, <2>1, <2>2, <2>3, <3>1
    <3> QED BY <1>16, <2>0, <3>2
  <2>4. CASE ~ (out[n].y >= bottom)
    <3>1. s[n].y + s[n].height <= top
      BY <1>12, <1>15, <1>18, <2>4
    <3>2. s[n].y + s[n].height <= s[m].y
      BY <1>6, <1>12, <2>1, <3>1
    <3> QED BY <1>16, <2>0, <3>2
  <2> QED BY <2>3, <2>4
<1>19. ASSUME NEW m \in ((DOMAIN Rects) \ AllMembers) \ intruders, NEW n \in ((DOMAIN Rects) \ AllMembers) \ intruders,
              m # n, Near(frame, s[m]), Near(frame, s[n])
       PROVE  Apart(s[m], s[n])
  <2>1. PICK a, b, p, q : a = out[m] /\ b = out[n] /\ p = s[m] /\ q = s[n]
    OBVIOUS
  <2>2. a \in RectSet /\ b \in RectSet /\ p \in RectSet /\ q \in RectSet
    BY <1>12, <2>1
  <2>3. /\ p.x = a.x /\ p.width = a.width /\ p.height = a.height
        /\ q.x = b.x /\ q.width = b.width /\ q.height = b.height
    BY <1>9, <2>1
  <2>4. /\ p.y = (IF a.y >= bottom THEN a.y + room ELSE a.y)
        /\ q.y = (IF b.y >= bottom THEN b.y + room ELSE b.y)
    BY <1>11, <2>1
  <2>5. Apart(a, b)
    BY <1>19, <2>1
  <2>6. \/ a.x + a.width <= b.x \/ b.x + b.width <= a.x
        \/ a.y + a.height <= b.y \/ b.y + b.height <= a.y
    BY <2>2, <2>5, ApartFacts
  <2>7. /\ a.x \in Int /\ a.y \in Int /\ a.width \in Int /\ a.height \in Int
        /\ b.x \in Int /\ b.y \in Int /\ b.width \in Int /\ b.height \in Int
        /\ a.height > 0 /\ b.height > 0
    BY <2>2, RectFacts
  <2>8. (a.y < bottom => p.y + p.height <= top) /\ (b.y < bottom => q.y + q.height <= top)
    BY <1>15, <1>19, <2>1
  <2>9. \/ p.x + p.width <= q.x \/ q.x + q.width <= p.x
        \/ p.y + p.height <= q.y \/ q.y + q.height <= p.y
    <3>1. top < bottom
      BY <1>6
    <3> QED BY ONLY <1>13, <2>3, <2>4, <2>6, <2>7, <2>8, <3>1, bottom \in Int, top \in Int
  <2> QED BY <2>1, <2>2, <2>9, ApartFacts
<1>20. ASSUME NEW m \in (DOMAIN Rects) \ AllMembers, NEW n \in (DOMAIN Rects) \ AllMembers,
              m # n, Near(frame, s[m]), Near(frame, s[n])
       PROVE  Apart(s[m], s[n])
  BY <1>17, <1>18, <1>19, <1>20
<1> QED BY <1>7, <1>8, <1>14, <1>20

\* The only group has its frame to itself once it is settled.
LEMMA LoneGroupSettles ==
  ASSUME opening \in Openings, AreValid(opening.groups), opening.groups # <<>>,
         plans = Plans(opening.groups), Len(plans) = 1,
         standing = Settle(SpreadRight(plans), 1)
  PROVE  LoneGroupIsCleared
<1>1. /\ DOMAIN plans = 1..1 /\ plans[1] \in PlansOf(opening.groups)
      /\ \A p \in PlansOf(opening.groups) : p = plans[1]
      /\ IsPlan(plans[1], plans[1].members)
  BY PlansListAll
<1>2. PICK plan, members : plan = plans[1] /\ members = plan.members
  OBVIOUS
<1>3. IsPlan(plan, members)
  BY <1>1, <1>2
<1>4. PICK groups : groups = opening.groups
  OBVIOUS
<1>5. PICK n \in Nat : n = Len(groups) /\ DOMAIN groups = 1..n /\ 1 \in 1..n
  <2>1. groups \in Seq(GroupSet)
    BY <1>4, OpeningFacts DEF GroupSet
  <2>2. Len(groups) \in Nat /\ DOMAIN groups = 1..Len(groups) /\ Len(groups) # 0
    BY <1>4, <2>1
  <2>3. 1 \in 1..Len(groups)
    BY <2>2
  <2> QED BY <2>2, <2>3
<1>6. \A a \in 1..n : Members(groups[a]) \subseteq DOMAIN Rects /\ Members(groups[a]) # {}
                      /\ groups[a].padding \in Nat
  BY <1>4, <1>5, ValidFacts
<1>7. ASSUME NEW a \in 1..n PROVE Members(groups[a]) = members
  <2>1. GroupPlan(groups[a]) \in PlansOf(groups)
    BY <1>5 DEF PlansOf, Range
  <2>2. GroupPlan(groups[a]) = plan
    BY <1>1, <1>2, <1>4, <2>1
  <2>3. IsPlan(GroupPlan(groups[a]), Members(groups[a]))
    BY <1>6, GroupPlanFacts
  <2> QED BY <1>2, <2>2, <2>3 DEF IsPlan
<1>8. members \subseteq DOMAIN Rects /\ members # {}
  BY <1>5, <1>6, <1>7
<1>9. AllMembers = members
  BY <1>4, <1>5, <1>7 DEF AllMembers, Range
<1>10. PICK first : first = SpreadRight(plans)
  OBVIOUS
<1>11. IsDrawing(first) /\ \A a, b \in DOMAIN Rects : a # b => Apart(first[a], first[b])
  BY <1>1, <1>10, SpreadApart
<1>12. PICK out : out = Arranged(first, plan)
  OBVIOUS
<1>13. PICK frame : frame = Frame(out, plan)
  OBVIOUS
<1>14. /\ IsDrawing(out) /\ \A a \in (DOMAIN Rects) \ members : out[a] = first[a]
       /\ IsBox(frame) /\ frame.top < frame.bottom
  BY <1>3, <1>8, <1>11, <1>12, <1>13, ArrangedFacts
<1>15. PICK intruders : intruders = Intruders(out, frame)
  OBVIOUS
<1>16. PICK s : s = StackBelow(out, frame, intruders)
  OBVIOUS
<1>17. \A a, b \in (DOMAIN Rects) \ AllMembers : a # b => Apart(out[a], out[b])
  BY <1>9, <1>11, <1>14
<1>18. /\ IsDrawing(s)
       /\ \A a \in (DOMAIN Rects) \cap AllMembers : s[a] = out[a]
       /\ \A a \in (DOMAIN Rects) \ AllMembers : ~ MeetBox(frame, BoxOf(s[a]))
       /\ \A a, b \in (DOMAIN Rects) \ AllMembers :
            a # b /\ Near(frame, s[a]) /\ Near(frame, s[b]) => Apart(s[a], s[b])
  BY <1>14, <1>15, <1>16, <1>17, StackedFacts
<1>19. standing = s
  <2>1. PICK room : room = Relocation(out, intruders)
    OBVIOUS
  <2>2. standing = ShiftFuture(s, frame, room, 1)
    BY <1>2, <1>10, <1>12, <1>13, <1>15, <1>16, <2>1 DEF Settle
  <2>3. DOMAIN s = DOMAIN Rects /\ \A a \in DOMAIN Rects : s[a] \in RectSet
    BY <1>18 DEF IsDrawing
  <2>4. \A a : {j \in (1 + 1)..Len(plans) : a \in plans[j].members} = {}
    OBVIOUS
  <2>5. standing = [a \in DOMAIN s |-> [s[a] EXCEPT !.y = @ + 0]]
    BY <2>2, <2>4 DEF ShiftFuture
  <2>6. \A a \in DOMAIN Rects : [s[a] EXCEPT !.y = @ + 0] = s[a]
    BY <2>3 DEF RectSet
  <2>7. s = [a \in DOMAIN Rects |-> s[a]]
    BY <1>18 DEF IsDrawing
  <2> QED BY <2>3, <2>5, <2>6, <2>7
<1>20. \A a \in members : standing[a] = out[a]
  BY <1>8, <1>9, <1>18, <1>19
<1>21. Frame(standing, plan) = frame
  <2>1. {BoxOf(standing[a]) : a \in members} = {BoxOf(out[a]) : a \in members}
    BY <1>20
  <2>2. MembersBox(standing, members) = MembersBox(out, members)
    BY <2>1 DEF MembersBox
  <2> QED BY <1>2, <1>13, <2>2 DEF Frame
<1>22. DOMAIN standing = DOMAIN Rects
  BY <1>18, <1>19 DEF IsDrawing
<1>23. Strangers(standing, plan) = {}
  BY <1>2, <1>9, <1>18, <1>19, <1>21, <1>22 DEF Strangers
<1>24. ASSUME NEW a \in DOMAIN standing \ plans[1].members, NEW b \in DOMAIN standing \ plans[1].members, a # b,
              Near(Frame(standing, plans[1]), standing[a]), Near(Frame(standing, plans[1]), standing[b])
       PROVE  ~ MeetBox(BoxOf(standing[a]), BoxOf(standing[b]))
  <2>1. a \in (DOMAIN Rects) \ AllMembers /\ b \in (DOMAIN Rects) \ AllMembers
    BY <1>2, <1>9, <1>22
  <2>2. Near(frame, s[a]) /\ Near(frame, s[b])
    BY <1>2, <1>19, <1>21, <1>24
  <2> QED BY <1>18, <1>19, <1>24, <2>1, <2>2 DEF Apart
<1>25. Strangers(standing, plans[1]) = {}
  BY <1>2, <1>23
<1> QED BY <1>24, <1>25 DEF LoneGroupIsCleared, Near

-----------------------------------------------------------------------------
(* How the groups are opened.                                              *)

(* The plans are those of the groups, which have passed the check; before  *)
(* the first group is settled the nodes stand as they were spread, and     *)
(* after it as its frame has made them stand.                              *)
GroupsInv ==
  /\ opening \in Openings /\ settled \in Nat
  /\ plans # None =>
       /\ AreValid(opening.groups) /\ opening.groups # <<>>
       /\ plans = Plans(opening.groups)
       /\ settled = 0 => standing = SpreadRight(plans)
       /\ settled = 1 => standing = Settle(SpreadRight(plans), 1)
  /\ plans = None => settled = 0

LEMMA InvariantClears == GroupsInv => FramesAreTheirOwn
<1> SUFFICES ASSUME GroupsInv PROVE FramesAreTheirOwn
  OBVIOUS
<1>1. PartsKeepApart
  <2>1. CASE plans = None
    BY <2>1 DEF PartsKeepApart
  <2>2. CASE plans # None
    BY <2>2, PartsAreApart DEF GroupsInv
  <2> QED BY <2>1, <2>2
<1>2. LoneGroupIsCleared
  <2>1. CASE plans # None /\ Len(plans) = 1 /\ settled = 1
    BY <2>1, LoneGroupSettles DEF GroupsInv
  <2>2. CASE ~ (plans # None /\ Len(plans) = 1 /\ settled = 1)
    BY <2>2 DEF LoneGroupIsCleared
  <2> QED BY <2>1, <2>2
<1> QED BY <1>1, <1>2 DEF FramesAreTheirOwn

\* What is computed from the opening and the plans changes with them only.
LEMMA SameOpening ==
  ASSUME UNCHANGED opening
  PROVE  /\ (AreValid(opening.groups))' <=> AreValid(opening.groups)
         /\ (Plans(opening.groups))' = Plans(opening.groups)
<1>1. Rects' = Rects
  BY DEF Rects
<1>2. \A groups, k : (FaultsOf(groups, k))' = FaultsOf(groups, k)
  BY <1>1 DEF FaultsOf
<1>3. \A groups : (FaultsIn(groups))' = FaultsIn(groups)
  BY <1>2 DEF FaultsIn
<1>4. (AreValid(opening.groups))' <=> AreValid(opening.groups)
  BY <1>3 DEF AreValid
<1>5. \A g : (MemberWires(g))' = MemberWires(g)
  BY DEF MemberWires
<1>6. \A g : (SetOut(g))' = SetOut(g)
  BY <1>1, <1>5 DEF SetOut
<1>7. \A g : (GroupPlan(g))' = GroupPlan(g)
  BY <1>1, <1>6 DEF GroupPlan
<1>8. (Plans(opening.groups))' = Plans(opening.groups)
  <2>1. \A groups : {(GroupPlan(g))' : g \in Range(groups)} = {GroupPlan(g) : g \in Range(groups)}
    BY <1>7
  <2> QED BY <2>1 DEF Plans
<1> QED BY <1>4, <1>8

LEMMA SameSettling ==
  ASSUME UNCHANGED <<opening, plans>>, NEW rects, NEW k
  PROVE  (Settle(rects, k))' = Settle(rects, k)
<1>1. AllMembers' = AllMembers
  BY DEF AllMembers
<1>2. \A r, f : (Intruders(r, f))' = Intruders(r, f)
  BY <1>1 DEF Intruders
<1>3. \A r, i : (Relocation(r, i))' = Relocation(r, i)
  BY DEF Relocation, InOrder
<1>4. \A r, f, i : (StackBelow(r, f, i))' = StackBelow(r, f, i)
  BY <1>1, <1>3 DEF StackBelow, InOrder
<1>5. \A r, f, room, p : (FutureShift(r, f, room, p))' = FutureShift(r, f, room, p)
  BY DEF FutureShift
<1>6. \A r, f, room, j : (ShiftFuture(r, f, room, j))' = ShiftFuture(r, f, room, j)
  BY <1>5 DEF ShiftFuture
<1> QED BY <1>2, <1>3, <1>4, <1>6 DEF Settle

LEMMA GroupsInductive ==
  /\ GroupsInit => GroupsInv
  /\ GroupsInv /\ [GroupsNext]_groupVars => GroupsInv'
<1>1. GroupsInit => GroupsInv
  BY DEF GroupsInit, GroupsInv
<1>2. ASSUME GroupsInv, [GroupsNext]_groupVars PROVE GroupsInv'
  <2>1. CASE UNCHANGED <<opening, plans, standing, settled>>
    <3>1. UNCHANGED opening /\ UNCHANGED plans /\ UNCHANGED standing /\ UNCHANGED settled
      BY <2>1
    <3>2. (SpreadRight(plans))' = SpreadRight(plans)
      BY <3>1 DEF SpreadRight, Rects
    <3>3. (Settle(SpreadRight(plans), 1))' = Settle(SpreadRight(plans), 1)
      BY <3>1, <3>2, SameSettling
    <3> QED BY <1>2, <3>1, <3>2, <3>3, SameOpening DEF GroupsInv
  <2>2. CASE PlanGroups
    <3>1. /\ AreValid(opening.groups) /\ opening.groups # <<>> /\ plans = None
          /\ plans' = Plans(opening.groups) /\ standing' = SpreadRight(plans')
          /\ UNCHANGED opening /\ UNCHANGED settled
      BY <2>2 DEF PlanGroups
    <3>2. (SpreadRight(plans))' = SpreadRight(plans')
      BY <3>1 DEF SpreadRight, Rects
    <3>3. settled = 0
      BY <1>2, <3>1 DEF GroupsInv
    <3> QED BY <1>2, <3>1, <3>2, <3>3, SameOpening DEF GroupsInv
  <2>3. CASE SettleGroup
    <3>1. /\ plans # None /\ standing' = Settle(standing, settled + 1) /\ settled' = settled + 1
          /\ UNCHANGED opening /\ UNCHANGED plans
      BY <2>3 DEF SettleGroup
    <3>2. (SpreadRight(plans))' = SpreadRight(plans)
      BY <3>1 DEF SpreadRight, Rects
    <3>3. (Settle(SpreadRight(plans), 1))' = Settle(SpreadRight(plans), 1)
      BY <3>1, <3>2, SameSettling
    <3>4. settled \in Nat /\ settled' \in Nat /\ settled' # 0 /\ (settled' = 1 => settled = 0 /\ settled + 1 = 1)
      BY <1>2, <3>1 DEF GroupsInv
    <3>5. settled' = 1 => standing' = Settle(SpreadRight(plans), 1)
      BY <1>2, <3>1, <3>4 DEF GroupsInv
    <3> QED BY <1>2, <3>1, <3>2, <3>3, <3>4, <3>5, SameOpening DEF GroupsInv
  <2>4. CASE NothingOpen \/ RefuseGroups \/ RouteGroups \/ GroupsDone \/ UNCHANGED groupVars
    <3>1. UNCHANGED <<opening, plans, standing, settled>>
      BY <2>4 DEF NothingOpen, RefuseGroups, RouteGroups, GroupsDone, groupVars
    <3> QED BY <2>1, <3>1
  <2> QED BY <1>2, <2>2, <2>3, <2>4 DEF GroupsNext
<1> QED BY <1>1, <1>2

(* Once a single group is settled no other node stands in its frame, and   *)
(* what was moved out of it or below it lies on nothing there; the parts   *)
(* that a group is set out in keep apart by the gap between them             *)
(* (apply_expanded_group_constraints, arrange_member_components).          *)
THEOREM FramesHoldTheirPlace == GroupsSpec => []FramesAreTheirOwn
<1>1. GroupsInit => GroupsInv
  BY GroupsInductive
<1>2. GroupsInv /\ [GroupsNext]_groupVars => GroupsInv'
  BY GroupsInductive
<1>3. GroupsInv => FramesAreTheirOwn
  BY InvariantClears
<1> QED BY <1>1, <1>2, <1>3, PTL DEF GroupsSpec

=============================================================================
