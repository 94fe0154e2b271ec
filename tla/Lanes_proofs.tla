--------------------------- MODULE Lanes_proofs ---------------------------
(* How the lanes of a gap are assigned, for every gap and every limit:     *)
(* tracks that meet are given different slots, a repair leaves the lanes   *)
(* as moving its nets one after another does, and what is claimed for an   *)
(* order of lanes is what it saves. What is known of sums, stages and      *)
(* orders is taken from the proofs about the placement.                    *)
EXTENDS GapLanes, Drawing_proofs

-----------------------------------------------------------------------------
(* Lists by keys.                                                          *)

LexPairs(key) == {p \in (DOMAIN key) \X (DOMAIN key) : LexLess(key[p[1]], key[p[2]])}

(* What is listed has every element once, in the order of the keys.        *)
IsByKey(key, order) ==
  LET k == Cardinality(DOMAIN key) IN
  /\ k \in Nat /\ Len(order) = k /\ DOMAIN order = 1..k /\ order = [i \in 1..k |-> order[i]]
  /\ \A i \in 1..k : order[i] \in DOMAIN key
  /\ \A x \in DOMAIN key : \E i \in 1..k : order[i] = x
  /\ \A i, j \in 1..k : order[i] = order[j] => i = j
  /\ \A i, j \in 1..k : i < j => LexLess(key[order[i]], key[order[j]])

LEMMA ListedByKey ==
  ASSUME NEW key, IsFiniteSet(DOMAIN key), StrictlyOrders(LexPairs(key), DOMAIN key)
  PROVE  IsByKey(key, ByKey(key))
<1>1. PICK S, before, order : S = DOMAIN key /\ before = LexPairs(key) /\ order = ByKey(key)
  OBVIOUS
<1>2. \A x, y \in S : <<x, y>> \in before <=> LexLess(key[x], key[y])
  BY <1>1 DEF LexPairs
<1>3. order = [i \in 1..Cardinality(S) |->
                 CHOOSE x \in S : Cardinality({y \in S : LexLess(key[y], key[x])}) = i - 1]
  BY <1>1 DEF ByKey, InOrder
<1>4. ASSUME NEW x \in S PROVE {y \in S : LexLess(key[y], key[x])} = AheadOf(S, before, x)
  BY <1>2 DEF AheadOf
<1>5. RanksBy(order, S, before)
  <2>1. ASSUME NEW i \in 1..Cardinality(S)
        PROVE  order[i] \in S /\ Cardinality(AheadOf(S, before, order[i])) = i - 1
    <3>1. \E x \in S : Cardinality(AheadOf(S, before, x)) = i - 1
      BY <1>1, RankIsHeld
    <3>2. \E x \in S : Cardinality({y \in S : LexLess(key[y], key[x])}) = i - 1
      BY <1>4, <3>1
    <3>3. order[i] \in S /\ Cardinality({y \in S : LexLess(key[y], key[order[i]])}) = i - 1
      BY <1>3, <3>2
    <3> QED BY <1>4, <3>3
  <2>2. order \in [1..Cardinality(S) -> S]
    BY <1>3, <2>1
  <2> QED BY <2>1, <2>2 DEF RanksBy
<1>6. IsFiniteSet(S) /\ StrictlyOrders(before, S)
  BY <1>1
<1>7. /\ Cardinality(S) \in Nat /\ Len(order) = Cardinality(S) /\ DOMAIN order = 1..Cardinality(S)
      /\ \A i \in 1..Cardinality(S) : order[i] \in S
      /\ \A x \in S : \E i \in 1..Cardinality(S) : order[i] = x
      /\ \A i, j \in 1..Cardinality(S) : order[i] = order[j] => i = j
      /\ \A i, j \in 1..Cardinality(S) : i < j => <<order[i], order[j]>> \in before
  BY ONLY <1>5, <1>6, RanksListAll
<1>8. \A i, j \in 1..Cardinality(S) : i < j => LexLess(key[order[i]], key[order[j]])
  BY <1>2, <1>7
<1>9. order = [i \in 1..Cardinality(S) |-> order[i]]
  <2>1. order \in [1..Cardinality(S) -> S]
    BY <1>5 DEF RanksBy
  <2> QED BY ONLY <2>1
<1> QED BY <1>1, <1>7, <1>8, <1>9 DEF IsByKey

LEMMA LexOfThree ==
  ASSUME NEW s, NEW t, Len(s) = 3
  PROVE  LexLess(s, t) <=>
           \/ s[1] < t[1]
           \/ (s[1] = t[1] /\ s[2] < t[2])
           \/ (s[1] = t[1] /\ s[2] = t[2] /\ s[3] < t[3])
<1>1. /\ \A j \in 1..(1 - 1) : FALSE
      /\ \A j : j \in 1..(2 - 1) <=> j = 1
      /\ \A j : j \in 1..(3 - 1) <=> (j = 1 \/ j = 2)
      /\ \A i : i \in 1..3 <=> (i = 1 \/ i = 2 \/ i = 3)
  OBVIOUS
<1>2. LexLess(s, t) <=> \E i \in 1..3 : s[i] < t[i] /\ \A j \in 1..(i - 1) : s[j] = t[j]
  BY DEF LexLess
<1> QED BY ONLY <1>1, <1>2

LEMMA ThreesOrder ==
  ASSUME NEW key, \A x \in DOMAIN key : /\ Len(key[x]) = 3
                                        /\ key[x][1] \in Int /\ key[x][2] \in Int /\ key[x][3] \in Int,
         \A x, y \in DOMAIN key : key[x][2] = key[y][2] /\ key[x][3] = key[y][3] => x = y
  PROVE  StrictlyOrders(LexPairs(key), DOMAIN key)
<1>1. PICK S, before : S = DOMAIN key /\ before = LexPairs(key)
  OBVIOUS
<1>2. PICK a, b, c : a = [x \in S |-> key[x][1]] /\ b = [x \in S |-> key[x][2]] /\ c = [x \in S |-> key[x][3]]
  OBVIOUS
<1>3. \A x \in S : a[x] \in Int /\ b[x] \in Int /\ c[x] \in Int
  BY <1>1, <1>2
<1>4. \A x, y \in S : b[x] = b[y] /\ c[x] = c[y] => x = y
  BY <1>1, <1>2
<1>5. ASSUME NEW x \in S, NEW y \in S
      PROVE  <<x, y>> \in before <=>
               (a[x] < a[y] \/ (a[x] = a[y] /\ b[x] < b[y])
                 \/ (a[x] = a[y] /\ b[x] = b[y] /\ c[x] < c[y]))
  <2>1. <<x, y>> \in before <=> LexLess(key[x], key[y])
    BY <1>1 DEF LexPairs
  <2>2. LexLess(key[x], key[y]) <=>
           \/ key[x][1] < key[y][1]
           \/ (key[x][1] = key[y][1] /\ key[x][2] < key[y][2])
           \/ (key[x][1] = key[y][1] /\ key[x][2] = key[y][2] /\ key[x][3] < key[y][3])
    <3>1. Len(key[x]) = 3
      BY <1>1
    <3> QED BY <3>1, LexOfThree
  <2> QED BY <1>2, <2>1, <2>2
<1>6. ASSUME NEW x \in S, NEW y \in S, NEW z \in S, <<x, y>> \in before, <<y, z>> \in before
      PROVE  <<x, z>> \in before
  <2>1. /\ a[x] < a[y] \/ (a[x] = a[y] /\ b[x] < b[y]) \/ (a[x] = a[y] /\ b[x] = b[y] /\ c[x] < c[y])
        /\ a[y] < a[z] \/ (a[y] = a[z] /\ b[y] < b[z]) \/ (a[y] = a[z] /\ b[y] = b[z] /\ c[y] < c[z])
    BY <1>5, <1>6
  <2>2. {a[x], b[x], c[x], a[y], b[y], c[y], a[z], b[z], c[z]} \subseteq Int
    BY <1>3
  <2>3. a[x] < a[z] \/ (a[x] = a[z] /\ b[x] < b[z]) \/ (a[x] = a[z] /\ b[x] = b[z] /\ c[x] < c[z])
    BY ONLY <2>1, <2>2
  <2> QED BY <1>5, <2>3
<1>7. ASSUME NEW x \in S PROVE <<x, x>> \notin before
  <2>1. a[x] \in Int /\ b[x] \in Int /\ c[x] \in Int
    BY <1>3
  <2> QED BY <1>5, <2>1
<1>8. ASSUME NEW x \in S, NEW y \in S PROVE x = y \/ <<x, y>> \in before \/ <<y, x>> \in before
  <2>1. {a[x], b[x], c[x], a[y], b[y], c[y]} \subseteq Int
    BY <1>3
  <2>2. \/ (b[x] = b[y] /\ c[x] = c[y])
        \/ (a[x] < a[y] \/ (a[x] = a[y] /\ b[x] < b[y]) \/ (a[x] = a[y] /\ b[x] = b[y] /\ c[x] < c[y]))
        \/ (a[y] < a[x] \/ (a[y] = a[x] /\ b[y] < b[x]) \/ (a[y] = a[x] /\ b[y] = b[x] /\ c[y] < c[x]))
    BY ONLY <2>1
  <2> QED BY <1>4, <1>5, <2>2
<1>9. StrictlyOrders(before, S)
  BY <1>6, <1>7, <1>8 DEF StrictlyOrders
<1> QED BY <1>1, <1>9

LEMMA TwosOrder ==
  ASSUME NEW key, \A x \in DOMAIN key : Len(key[x]) = 2 /\ key[x] = <<key[x][1], key[x][2]>>
                                        /\ key[x][1] \in Int /\ key[x][2] \in Int,
         \A x, y \in DOMAIN key : key[x] = key[y] => x = y
  PROVE  StrictlyOrders(LexPairs(key), DOMAIN key)
<1>1. PICK S, before : S = DOMAIN key /\ before = LexPairs(key)
  OBVIOUS
<1>2. PICK a, b : a = [x \in S |-> key[x][1]] /\ b = [x \in S |-> key[x][2]]
  OBVIOUS
<1>3. \A x \in S : a[x] \in Int /\ b[x] \in Int
  BY <1>1, <1>2
<1>4. \A x \in S : key[x] = <<a[x], b[x]>>
  BY <1>1, <1>2
<1>5. \A x, y \in S : a[x] = a[y] /\ b[x] = b[y] => x = y
  BY <1>1, <1>4
<1>6. ASSUME NEW x \in S, NEW y \in S
      PROVE  <<x, y>> \in before <=> (a[x] < a[y] \/ (a[x] = a[y] /\ b[x] < b[y]))
  <2>1. <<x, y>> \in before <=> LexLess(<<a[x], b[x]>>, <<a[y], b[y]>>)
    BY <1>1, <1>4 DEF LexPairs
  <2> QED BY <2>1, LexOfTwo
<1>7. StrictlyOrders(before, S)
  BY <1>3, <1>5, <1>6, PairsOrder
<1> QED BY <1>1, <1>7

-----------------------------------------------------------------------------
(* Tracks and their slots.                                                 *)

KeysIn(g) == [t \in DOMAIN g.lanes |-> <<g.lanes[t], t[1], t[2]>>]
Ahead(g) == LexPairs(KeysIn(g))

SharesOf(g) ==
  {p \in (DOMAIN g.lanes) \X (DOMAIN g.lanes) : g.access[p[1]].edges \cap g.access[p[2]].edges # {}}
MeetsOf(g) ==
  {p \in (DOMAIN g.lanes) \X (DOMAIN g.lanes) :
     /\ p[1][1] # p[2][1]
     /\ \E i \in DOMAIN g.access[p[1]].vertical, k \in DOMAIN g.access[p[2]].vertical :
          /\ g.access[p[1]].vertical[i][1] <= g.access[p[2]].vertical[k][2]
          /\ g.access[p[2]].vertical[k][1] <= g.access[p[1]].vertical[i][2]}

(* Tracks have colours, but for those that remain. Who has one is ahead of *)
(* those, the first of a colour ahead of the others in it, and the colours *)
(* are in the order of their firsts. Tracks of a colour do not meet, and   *)
(* those of a wire have colours in their order.                            *)
AreColoured(T, ahead, shares, meets, n, M, F, remaining) ==
  /\ n \in Nat /\ remaining \subseteq T
  /\ \A c \in 1..n : M[c] \subseteq T /\ F[c] \in M[c]
  /\ \A t \in T : t \in remaining \/ \E c \in 1..n : t \in M[c]
  /\ \A c \in 1..n : \A t \in M[c] : \A r \in remaining : <<t, r>> \in ahead
  /\ \A c \in 1..n : \A t \in M[c] : t = F[c] \/ <<F[c], t>> \in ahead
  /\ \A c, d \in 1..n : c < d => <<F[c], F[d]>> \in ahead
  /\ \A c, d \in 1..n : \A a \in M[c] : \A b \in M[d] :
       /\ a = b => c = d
       /\ a # b /\ c = d => <<a, b>> \notin meets
       /\ <<a, b>> \in shares /\ <<a, b>> \in ahead => c < d

\* The next track, and the colours with it, of its own or among the others of its colour.
IsNext(track, R, ahead) == track \in R /\ \A r \in R \ {track} : <<track, r>> \in ahead
WithNew(n, M, F, track, N, G) ==
  (\A c \in 1..n : N[c] = M[c] /\ G[c] = F[c]) /\ N[n + 1] = {track} /\ G[n + 1] = track
WithOld(n, M, F, track, k, N, G) ==
  /\ k \in 1..n /\ \A c \in 1..n : N[c] = (IF c = k THEN M[c] \cup {track} ELSE M[c]) /\ G[c] = F[c]
MayJoin(n, M, track, k, shares, meets) ==
  /\ \A c \in 1..n : \A m \in M[c] : <<m, track>> \in shares => c < k
  /\ \A m \in M[k] : <<m, track>> \notin meets

LEMMA NewColour ==
  ASSUME NEW T, NEW ahead, StrictlyOrders(ahead, T), NEW shares, NEW meets, NEW n, NEW M, NEW F, NEW R,
         AreColoured(T, ahead, shares, meets, n, M, F, R),
         NEW track, IsNext(track, R, ahead), NEW N, NEW G, WithNew(n, M, F, track, N, G)
  PROVE  AreColoured(T, ahead, shares, meets, n + 1, N, G, R \ {track})
<1>0. /\ track \in R /\ \A r \in R \ {track} : <<track, r>> \in ahead
      /\ \A c \in 1..n : N[c] = M[c] /\ G[c] = F[c]
      /\ N[n + 1] = {track} /\ G[n + 1] = track
  BY DEF IsNext, WithNew
<1>1. /\ n \in Nat /\ R \subseteq T /\ track \in T
      /\ \A c \in 1..n : M[c] \subseteq T /\ F[c] \in M[c]
      /\ \A t \in T : t \in R \/ \E c \in 1..n : t \in M[c]
      /\ \A c \in 1..n : \A t \in M[c] : \A r \in R : <<t, r>> \in ahead
      /\ \A c \in 1..n : \A t \in M[c] : t = F[c] \/ <<F[c], t>> \in ahead
      /\ \A c, d \in 1..n : c < d => <<F[c], F[d]>> \in ahead
      /\ \A c, d \in 1..n : \A a \in M[c] : \A b \in M[d] :
           /\ a = b => c = d
           /\ a # b /\ c = d => <<a, b>> \notin meets
           /\ <<a, b>> \in shares /\ <<a, b>> \in ahead => c < d
  BY <1>0 DEF AreColoured
<1>2. /\ \A x, y, z \in T : <<x, y>> \in ahead /\ <<y, z>> \in ahead => <<x, z>> \in ahead
      /\ \A x \in T : <<x, x>> \notin ahead
  BY DEF StrictlyOrders
<1>3. \A c : c \in 1..(n + 1) => (c \in 1..n /\ c <= n /\ c < n + 1) \/ (c = n + 1 /\ ~(c <= n) /\ c \notin 1..n)
  BY <1>1
<1>4. \A c \in 1..n : c \in 1..(n + 1) /\ N[c] = M[c] /\ G[c] = F[c]
  BY <1>0, <1>1
<1>5. n + 1 \in 1..(n + 1) /\ N[n + 1] = {track} /\ G[n + 1] = track /\ n + 1 \in Nat
  BY <1>0, <1>1
<1>6. ASSUME NEW c \in 1..n, track \in M[c] PROVE FALSE
  <2>1. <<track, track>> \in ahead
    BY <1>0, <1>1, <1>6
  <2> QED BY <1>1, <1>2, <2>1
<1>7. ASSUME NEW c \in 1..n, NEW t \in M[c] PROVE <<t, track>> \in ahead /\ <<track, t>> \notin ahead
  <2>1. <<t, track>> \in ahead /\ t \in T
    BY <1>0, <1>1
  <2> QED BY <1>1, <1>2, <2>1
<1>8. \A c \in 1..(n + 1) : N[c] \subseteq T /\ G[c] \in N[c]
  BY <1>1, <1>3, <1>4, <1>5
<1>9. \A t \in T : t \in R \ {track} \/ \E c \in 1..(n + 1) : t \in N[c]
  BY <1>1, <1>4, <1>5
<1>10. ASSUME NEW c \in 1..(n + 1), NEW t \in N[c], NEW r \in R \ {track} PROVE <<t, r>> \in ahead
  <2>1. CASE c \in 1..n
    BY <1>1, <1>4, <2>1
  <2>2. CASE c = n + 1
    BY <1>0, <1>5, <2>2
  <2> QED BY <1>3, <2>1, <2>2
<1>11. \A c \in 1..(n + 1) : \A t \in N[c] : t = G[c] \/ <<G[c], t>> \in ahead
  BY <1>1, <1>3, <1>4, <1>5
<1>12. ASSUME NEW c \in 1..(n + 1), NEW d \in 1..(n + 1), c < d PROVE <<G[c], G[d]>> \in ahead
  <2>1. c \in 1..n
    BY <1>1, <1>12
  <2>2. CASE d \in 1..n
    BY <1>1, <1>4, <1>12, <2>1, <2>2
  <2>3. CASE d = n + 1
    BY <1>1, <1>4, <1>5, <1>7, <2>1, <2>3
  <2> QED BY <1>3, <2>2, <2>3
<1>13. ASSUME NEW c \in 1..(n + 1), NEW d \in 1..(n + 1), NEW a \in N[c], NEW b \in N[d]
       PROVE  /\ a = b => c = d
              /\ a # b /\ c = d => <<a, b>> \notin meets
              /\ <<a, b>> \in shares /\ <<a, b>> \in ahead => c < d
  <2>1. CASE c \in 1..n /\ d \in 1..n
    BY <1>1, <1>4, <2>1
  <2>2. CASE c \in 1..n /\ d = n + 1
    <3>1. a \in M[c] /\ b = track /\ c < d /\ c # d
      BY <1>3, <1>4, <1>5, <2>2
    <3> QED BY <1>6, <2>2, <3>1
  <2>3. CASE c = n + 1 /\ d \in 1..n
    <3>1. a = track /\ b \in M[d] /\ c # d
      BY <1>3, <1>4, <1>5, <2>3
    <3> QED BY <1>6, <1>7, <2>3, <3>1
  <2>4. CASE c = n + 1 /\ d = n + 1
    <3>1. a = track /\ b = track
      BY <1>5, <2>4
    <3> QED BY <1>1, <1>2, <2>4, <3>1
  <2> QED BY <1>3, <2>1, <2>2, <2>3, <2>4
<1>14. R \ {track} \subseteq T
  BY <1>1
<1> QED BY <1>5, <1>8, <1>9, <1>10, <1>11, <1>12, <1>13, <1>14 DEF AreColoured

LEMMA OldColour ==
  ASSUME NEW T, NEW ahead, StrictlyOrders(ahead, T), NEW shares, NEW meets, NEW n, NEW M, NEW F, NEW R,
         AreColoured(T, ahead, shares, meets, n, M, F, R),
         \A p, q \in T : <<p, q>> \in meets => <<q, p>> \in meets,
         NEW track, IsNext(track, R, ahead), NEW k, MayJoin(n, M, track, k, shares, meets),
         NEW N, NEW G, WithOld(n, M, F, track, k, N, G)
  PROVE  AreColoured(T, ahead, shares, meets, n, N, G, R \ {track})
<1>0. /\ track \in R /\ \A r \in R \ {track} : <<track, r>> \in ahead
      /\ k \in 1..n /\ \A c \in 1..n : N[c] = (IF c = k THEN M[c] \cup {track} ELSE M[c]) /\ G[c] = F[c]
      /\ \A c \in 1..n : \A m \in M[c] : <<m, track>> \in shares => c < k
      /\ \A m \in M[k] : <<m, track>> \notin meets
  BY DEF IsNext, WithOld, MayJoin
<1>1. /\ n \in Nat /\ R \subseteq T /\ track \in T
      /\ \A c \in 1..n : M[c] \subseteq T /\ F[c] \in M[c]
      /\ \A t \in T : t \in R \/ \E c \in 1..n : t \in M[c]
      /\ \A c \in 1..n : \A t \in M[c] : \A r \in R : <<t, r>> \in ahead
      /\ \A c \in 1..n : \A t \in M[c] : t = F[c] \/ <<F[c], t>> \in ahead
      /\ \A c, d \in 1..n : c < d => <<F[c], F[d]>> \in ahead
      /\ \A c, d \in 1..n : \A a \in M[c] : \A b \in M[d] :
           /\ a = b => c = d
           /\ a # b /\ c = d => <<a, b>> \notin meets
           /\ <<a, b>> \in shares /\ <<a, b>> \in ahead => c < d
  BY <1>0 DEF AreColoured
<1>2. /\ \A x, y, z \in T : <<x, y>> \in ahead /\ <<y, z>> \in ahead => <<x, z>> \in ahead
      /\ \A x \in T : <<x, x>> \notin ahead
  BY DEF StrictlyOrders
<1>3. \A c \in 1..n : \A t : t \in N[c] <=> (t \in M[c] \/ (c = k /\ t = track))
  BY <1>0
<1>6. ASSUME NEW c \in 1..n, track \in M[c] PROVE FALSE
  <2>1. <<track, track>> \in ahead
    BY <1>0, <1>1, <1>6
  <2> QED BY <1>1, <1>2, <2>1
<1>7. ASSUME NEW c \in 1..n, NEW t \in M[c] PROVE <<t, track>> \in ahead /\ <<track, t>> \notin ahead
  <2>1. <<t, track>> \in ahead /\ t \in T
    BY <1>0, <1>1
  <2> QED BY <1>1, <1>2, <2>1
<1>8. \A c \in 1..n : N[c] \subseteq T /\ G[c] \in N[c]
  BY <1>0, <1>1, <1>3
<1>9. \A t \in T : t \in R \ {track} \/ \E c \in 1..n : t \in N[c]
  BY <1>0, <1>1, <1>3
<1>10. \A c \in 1..n : \A t \in N[c] : \A r \in R \ {track} : <<t, r>> \in ahead
  BY <1>0, <1>1, <1>3
<1>11. \A c \in 1..n : \A t \in N[c] : t = G[c] \/ <<G[c], t>> \in ahead
  BY <1>0, <1>1, <1>3, <1>7
<1>13. ASSUME NEW c \in 1..n, NEW d \in 1..n, NEW a \in N[c], NEW b \in N[d]
       PROVE  /\ a = b => c = d
              /\ a # b /\ c = d => <<a, b>> \notin meets
              /\ <<a, b>> \in shares /\ <<a, b>> \in ahead => c < d
  <2>1. CASE a \in M[c] /\ b \in M[d]
    BY <1>1, <2>1
  <2>2. CASE a \in M[c] /\ d = k /\ b = track
    <3>1. a # b
      BY <1>6, <2>2
    <3>2. c = d => <<a, b>> \notin meets
      BY <1>0, <2>2
    <3>3. <<a, b>> \in shares => c < d
      BY <1>0, <2>2
    <3> QED BY <3>1, <3>2, <3>3
  <2>3. CASE c = k /\ a = track /\ b \in M[d]
    <3>1. a # b /\ <<a, b>> \notin ahead
      BY <1>6, <1>7, <2>3
    <3>2. ASSUME c = d, <<a, b>> \in meets PROVE FALSE
      <4>1. a \in T /\ b \in T /\ b \in M[k]
        BY <1>1, <2>3, <3>2
      <4>2. <<b, a>> \in meets
        BY <3>2, <4>1
      <4> QED BY <1>0, <2>3, <4>1, <4>2
    <3> QED BY <3>1, <3>2
  <2>4. CASE c = k /\ a = track /\ d = k /\ b = track
    BY <1>1, <1>2, <2>4
  <2> QED BY <1>3, <2>1, <2>2, <2>3, <2>4
<1>14. R \ {track} \subseteq T
  BY <1>1
<1>15. \A c, d \in 1..n : c < d => <<G[c], G[d]>> \in ahead
  BY <1>0, <1>1
<1> QED BY <1>1, <1>15, <1>8, <1>9, <1>10, <1>11, <1>13, <1>14 DEF AreColoured

LEMMA LanesOrder ==
  ASSUME NEW g, IsGap(Nat \X Int, g)
  PROVE  /\ DOMAIN KeysIn(g) = DOMAIN g.lanes /\ IsFiniteSet(DOMAIN g.lanes)
         /\ StrictlyOrders(Ahead(g), DOMAIN g.lanes)
         /\ \A a, b \in DOMAIN g.lanes :
              /\ g.lanes[a] \in Nat
              /\ <<a, b>> \in Ahead(g) <=> LexLess(KeysIn(g)[a], KeysIn(g)[b])
              /\ g.lanes[a] < g.lanes[b] => <<a, b>> \in Ahead(g)
<1>1. PICK T, L, key : T = DOMAIN g.lanes /\ L = g.lanes /\ key = KeysIn(g)
  OBVIOUS
<1>2. /\ T \subseteq Nat \X Int /\ IsFiniteSet(T) /\ L \in [T -> Nat]
      /\ key = [t \in T |-> <<L[t], t[1], t[2]>>] /\ DOMAIN key = T
  BY <1>1 DEF IsGap, KeysIn
<1>3. \A t \in T : /\ Len(key[t]) = 3 /\ key[t][1] = L[t] /\ key[t][2] = t[1] /\ key[t][3] = t[2]
                   /\ L[t] \in Nat /\ t[1] \in Nat /\ t[2] \in Int /\ t = <<t[1], t[2]>>
  BY <1>2
<1>4. StrictlyOrders(LexPairs(key), T)
  <2>1. \A x \in DOMAIN key : Len(key[x]) = 3 /\ key[x][1] \in Int /\ key[x][2] \in Int /\ key[x][3] \in Int
    BY <1>2, <1>3
  <2>2. ASSUME NEW x \in DOMAIN key, NEW y \in DOMAIN key, key[x][2] = key[y][2], key[x][3] = key[y][3]
        PROVE  x = y
    <3>1. x = <<x[1], x[2]>> /\ y = <<y[1], y[2]>> /\ x[1] = y[1] /\ x[2] = y[2]
      BY <1>2, <1>3, <2>2
    <3> QED BY ONLY <3>1
  <2>3. StrictlyOrders(LexPairs(key), DOMAIN key)
    BY <2>1, <2>2, ThreesOrder
  <2> QED BY <1>2, <2>3
<1>5. ASSUME NEW a \in T, NEW b \in T
      PROVE  /\ L[a] \in Nat
             /\ <<a, b>> \in LexPairs(key) <=> LexLess(key[a], key[b])
             /\ L[a] < L[b] => <<a, b>> \in LexPairs(key)
  <2>1. <<a, b>> \in LexPairs(key) <=> LexLess(key[a], key[b])
    BY <1>2 DEF LexPairs
  <2>2. key[a][1] < key[b][1] => LexLess(key[a], key[b])
    <3>1. Len(key[a]) = 3
      BY <1>3
    <3> QED BY <3>1, LexOfThree
  <2> QED BY <1>3, <2>1, <2>2
<1>6. Ahead(g) = LexPairs(key)
  BY <1>1 DEF Ahead
<1>7. /\ DOMAIN key = T /\ IsFiniteSet(T) /\ StrictlyOrders(Ahead(g), T)
      /\ \A a, b \in T : /\ L[a] \in Nat
                         /\ <<a, b>> \in Ahead(g) <=> LexLess(key[a], key[b])
                         /\ L[a] < L[b] => <<a, b>> \in Ahead(g)
  BY <1>2, <1>4, <1>5, <1>6
<1> QED BY <1>1, <1>7

MembersOf(members) == [c \in 1..Len(members) |-> Range(members[c])]
FirstsOf(members) == [c \in 1..Len(members) |-> members[c][1]]

(* Colours in work: those that remain stand in the order of their lanes.   *)
IsColouring(g, members, left) ==
  LET T == DOMAIN g.lanes IN
  /\ members \in Seq(Seq(T)) /\ left \in Seq(T)
  /\ \A c \in 1..Len(members) : members[c] # <<>>
  /\ \A i, j \in 1..Len(left) : i < j => <<left[i], left[j]>> \in Ahead(g)
  /\ AreColoured(T, Ahead(g), SharesOf(g), MeetsOf(g), Len(members),
                 MembersOf(members), FirstsOf(members), Range(left))

LEMMA ColouringBegins ==
  ASSUME NEW g, IsGap(Nat \X Int, g)
  PROVE  IsColouring(g, <<>>, ByKey(KeysIn(g)))
<1>1. PICK T, left, k : T = DOMAIN g.lanes /\ left = ByKey(KeysIn(g)) /\ k = Cardinality(T)
  OBVIOUS
<1>2. /\ DOMAIN KeysIn(g) = T /\ IsFiniteSet(T) /\ StrictlyOrders(LexPairs(KeysIn(g)), T)
      /\ \A a, b \in T : <<a, b>> \in Ahead(g) <=> LexLess(KeysIn(g)[a], KeysIn(g)[b])
  BY <1>1, LanesOrder DEF Ahead
<1>3. IsByKey(KeysIn(g), left)
  BY <1>1, <1>2, ListedByKey
<1>4. /\ k \in Nat /\ Len(left) = k /\ DOMAIN left = 1..k /\ left = [i \in 1..k |-> left[i]]
      /\ \A i \in 1..k : left[i] \in T
      /\ \A x \in T : \E i \in 1..k : left[i] = x
      /\ \A i, j \in 1..k : i < j => LexLess(KeysIn(g)[left[i]], KeysIn(g)[left[j]])
  BY <1>1, <1>2, <1>3 DEF IsByKey
<1>6. left \in Seq(T)
  BY <1>4
<1>7. Range(left) = T
  BY <1>4 DEF Range
<1>8. \A i, j \in 1..Len(left) : i < j => <<left[i], left[j]>> \in Ahead(g)
  BY <1>2, <1>4
<1>9. <<>> \in Seq(Seq(T)) /\ Len(<<>>) = 0 /\ 1..0 = {}
  OBVIOUS
<1>10. AreColoured(T, Ahead(g), SharesOf(g), MeetsOf(g), 0, MembersOf(<<>>), FirstsOf(<<>>), T)
  BY <1>9 DEF AreColoured
<1> QED BY <1>1, <1>6, <1>7, <1>8, <1>9, <1>10 DEF IsColouring

(* What two tracks have with each other, either way.                       *)
LEMMA PairsOfTracks ==
  ASSUME NEW g, NEW a \in DOMAIN g.lanes, NEW b \in DOMAIN g.lanes
  PROVE  /\ <<a, b>> \in MeetsOf(g) => <<b, a>> \in MeetsOf(g)
         /\ <<a, b>> \in SharesOf(g) <=> g.access[a].edges \cap g.access[b].edges # {}
         /\ <<a, b>> \in MeetsOf(g) <=>
              /\ a[1] # b[1]
              /\ \E i \in DOMAIN g.access[a].vertical, k \in DOMAIN g.access[b].vertical :
                   /\ g.access[a].vertical[i][1] <= g.access[b].vertical[k][2]
                   /\ g.access[b].vertical[k][1] <= g.access[a].vertical[i][2]
BY DEF MeetsOf, SharesOf

LEMMA TrackIsColoured ==
  ASSUME NEW g, IsGap(Nat \X Int, g), NEW members, NEW left, IsColouring(g, members, left), left # <<>>,
         NEW track, track = Head(left)
  PROVE  /\ track \in DOMAIN g.lanes
         /\ IsColouring(g, Append(members, <<track>>), Tail(left))
         /\ \A k \in 1..Len(members) :
              /\ \A c \in 1..Len(members) : \A m \in Range(members[c]) : <<m, track>> \in SharesOf(g) => c < k
              /\ \A m \in Range(members[k]) : <<m, track>> \notin MeetsOf(g)
              => IsColouring(g, [members EXCEPT ![k] = Append(@, track)], Tail(left))
<1> DEFINE T == DOMAIN g.lanes  ahead == Ahead(g)  shares == SharesOf(g)  meets == MeetsOf(g)
           n == Len(members)  rest == Tail(left)
<1>1. /\ members \in Seq(Seq(T)) /\ left \in Seq(T) /\ n \in Nat
      /\ \A c \in 1..n : members[c] \in Seq(T) /\ members[c] # <<>>
      /\ \A i, j \in 1..Len(left) : i < j => <<left[i], left[j]>> \in ahead
      /\ AreColoured(T, ahead, shares, meets, n, MembersOf(members), FirstsOf(members), Range(left))
  BY ONLY IsColouring(g, members, left) DEF IsColouring
<1>2. StrictlyOrders(ahead, T) /\ \A x \in T : <<x, x>> \notin ahead
  BY LanesOrder DEF StrictlyOrders
<1>3. \A p, q \in T : <<p, q>> \in meets => <<q, p>> \in meets
  BY PairsOfTracks
<1>4. /\ Len(left) \in Nat /\ Len(left) >= 1 /\ track = left[1] /\ track \in T
      /\ rest \in Seq(T) /\ Len(rest) = Len(left) - 1
      /\ \A i \in 1..Len(rest) : rest[i] = left[i + 1]
      /\ DOMAIN rest = 1..Len(rest) /\ DOMAIN left = 1..Len(left)
  BY <1>1
<1>5. track \in Range(left) /\ Range(rest) = Range(left) \ {track}
  <2>1. \A i \in 1..Len(rest) : i + 1 \in 1..Len(left) /\ 1 < i + 1 /\ 1 \in 1..Len(left)
    BY <1>4
  <2>2. \A i \in 1..Len(rest) : rest[i] # track /\ rest[i] \in Range(left)
    BY <1>1, <1>2, <1>4, <2>1 DEF Range
  <2>3. \A x \in Range(left) : x = track \/ \E i \in 1..Len(rest) : rest[i] = x
    <3>1. ASSUME NEW i \in 1..Len(left), i # 1 PROVE i - 1 \in 1..Len(rest) /\ rest[i - 1] = left[i]
      BY <1>4, <3>1
    <3> QED BY <1>4, <3>1 DEF Range
  <2>4. track \in Range(left)
    BY <1>4 DEF Range
  <2>5. \A x : x \in Range(rest) <=> \E i \in 1..Len(rest) : rest[i] = x
    BY <1>4 DEF Range
  <2>6. \A x : x \in Range(rest) <=> x \in Range(left) \ {track}
    BY <2>2, <2>3, <2>5
  <2> QED BY <2>4, <2>6
<1>6. \A r \in Range(left) \ {track} : <<track, r>> \in ahead
  <2>1. \A i \in 1..Len(left) : i # 1 => 1 < i /\ 1 \in 1..Len(left)
    BY <1>4
  <2> QED BY <1>1, <1>4, <2>1 DEF Range
<1>7. \A i, j \in 1..Len(rest) : i < j => <<rest[i], rest[j]>> \in ahead
  <2>1. \A i, j \in 1..Len(rest) : i + 1 \in 1..Len(left) /\ (i < j => i + 1 < j + 1)
    BY <1>4
  <2> QED BY <1>1, <1>4, <2>1
<1>8. IsColouring(g, Append(members, <<track>>), rest)
  <2>1. PICK new : new = Append(members, <<track>>)
    OBVIOUS
  <2>2. <<track>> \in Seq(T) /\ Range(<<track>>) = {track} /\ <<track>> # <<>> /\ <<track>>[1] = track
    <3>1. <<track>> \in Seq(T) /\ <<track>> # <<>> /\ <<track>>[1] = track
      <4>1. track \in T
        BY <1>4
      <4>2. <<track>> \in Seq(T)
        <5> HIDE DEF T
        <5> QED BY ONLY <4>1
      <4>3. Len(<<track>>) = 1 /\ <<track>>[1] = track /\ Len(<<>>) = 0
        OBVIOUS
      <4> QED BY ONLY <4>2, <4>3
    <3>2. DOMAIN <<track>> = {1}
      OBVIOUS
    <3>3. Range(<<track>>) = {track}
      BY ONLY <3>1, <3>2 DEF Range
    <3> QED BY <3>1, <3>3
  <2>3. /\ new \in Seq(Seq(T)) /\ Len(new) = n + 1
        /\ \A c \in 1..n : new[c] = members[c]
        /\ new[n + 1] = <<track>>
    BY ONLY <1>1, <2>1, <2>2, AppendProperties
  <2>4. \A c \in 1..(n + 1) : (c <= n /\ c \in 1..n) \/ (c = n + 1 /\ ~(c <= n))
    BY <1>1
  <2>5. \A c \in 1..(n + 1) : new[c] = IF c <= n THEN members[c] ELSE <<track>>
    BY <2>3, <2>4
  <2>6. /\ \A c \in 1..n : MembersOf(new)[c] = MembersOf(members)[c] /\ FirstsOf(new)[c] = FirstsOf(members)[c]
        /\ MembersOf(new)[n + 1] = {track} /\ FirstsOf(new)[n + 1] = track
    <3>1. n + 1 \in 1..Len(new) /\ \A c \in 1..n : c \in 1..Len(new)
      BY <1>1, <2>3
    <3> QED BY <2>2, <2>3, <3>1 DEF MembersOf, FirstsOf
  <2>7. AreColoured(T, ahead, shares, meets, n + 1, MembersOf(new), FirstsOf(new), Range(left) \ {track})
    <3>1. WithNew(n, MembersOf(members), FirstsOf(members), track, MembersOf(new), FirstsOf(new))
      BY <2>6 DEF WithNew
    <3>2. IsNext(track, Range(left), ahead)
      BY <1>5, <1>6 DEF IsNext
    <3>3. AreColoured(T, ahead, shares, meets, n, MembersOf(members), FirstsOf(members), Range(left))
      BY <1>1
    <3> HIDE DEF T, ahead, shares, meets, n
    <3> QED BY ONLY <1>2, <3>1, <3>2, <3>3, NewColour
  <2>8. \A c \in 1..Len(new) : new[c] # <<>>
    BY <1>1, <2>2, <2>3, <2>4, <2>5
  <2> QED BY <1>4, <1>5, <1>7, <2>1, <2>3, <2>7, <2>8 DEF IsColouring
<1>9. ASSUME NEW k \in 1..n,
             \A c \in 1..n : \A m \in Range(members[c]) : <<m, track>> \in shares => c < k,
             \A m \in Range(members[k]) : <<m, track>> \notin meets
      PROVE  IsColouring(g, [members EXCEPT ![k] = Append(@, track)], rest)
  <2>1. PICK old, new, added : old = members[k] /\ added = Append(old, track) /\ new = [members EXCEPT ![k] = added]
    OBVIOUS
  <2>2. old \in Seq(T) /\ old # <<>>
    BY <1>1, <2>1
  <2>3. /\ added \in Seq(T) /\ added # <<>> /\ Len(added) = Len(old) + 1
        /\ \A i \in 1..Len(old) : added[i] = old[i]
        /\ added[Len(old) + 1] = track
    <3>1. added = Append(old, track) /\ track \in T
      BY <1>4, <2>1
    <3> HIDE DEF T
    <3> QED BY ONLY <2>2, <3>1, AppendProperties
  <2>4. Len(old) \in Nat /\ Len(old) >= 1 /\ DOMAIN old = 1..Len(old) /\ DOMAIN added = 1..Len(added)
    BY <2>2, <2>3
  <2>5. Range(added) = Range(old) \cup {track} /\ added[1] = old[1]
    <3>1. \A i \in 1..(Len(old) + 1) : i \in 1..Len(old) \/ i = Len(old) + 1
      BY <2>4
    <3>2. 1 \in 1..Len(old) /\ Len(old) + 1 \in 1..(Len(old) + 1) /\ \A i \in 1..Len(old) : i \in 1..(Len(old) + 1)
      BY <2>4
    <3> QED BY <2>3, <2>4, <3>1, <3>2 DEF Range
  <2>6. /\ new \in Seq(Seq(T)) /\ Len(new) = n
        /\ \A c \in 1..n : new[c] = IF c = k THEN added ELSE members[c]
    <3>1. members \in Seq(Seq(T)) /\ k \in 1..Len(members) /\ added \in Seq(T) /\ new = [members EXCEPT ![k] = added]
      BY <1>1, <2>1, <2>3
    <3> HIDE DEF T
    <3>2. /\ new \in Seq(Seq(T)) /\ Len(new) = Len(members)
          /\ \A c \in 1..Len(members) : new[c] = IF c = k THEN added ELSE members[c]
      BY ONLY <3>1, ExceptSeq
    <3> QED BY <3>2
  <2>7. ASSUME NEW c \in 1..n
        PROVE  /\ MembersOf(new)[c] = IF c = k THEN MembersOf(members)[c] \cup {track} ELSE MembersOf(members)[c]
               /\ FirstsOf(new)[c] = FirstsOf(members)[c]
    <3>1. /\ MembersOf(new)[c] = Range(new[c]) /\ MembersOf(members)[c] = Range(members[c])
          /\ FirstsOf(new)[c] = new[c][1] /\ FirstsOf(members)[c] = members[c][1]
      BY <2>6 DEF MembersOf, FirstsOf
    <3>2. CASE c = k
      <4>1. new[c] = added /\ members[c] = old
        BY <2>1, <2>6, <3>2
      <4> QED BY <2>5, <3>1, <3>2, <4>1
    <3>3. CASE c # k
      <4>1. new[c] = members[c]
        BY <2>6, <3>3
      <4> QED BY <3>1, <3>3, <4>1
    <3> QED BY <3>2, <3>3
  <2>8. /\ \A c \in 1..n : \A m \in MembersOf(members)[c] : <<m, track>> \in shares => c < k
        /\ \A m \in MembersOf(members)[k] : <<m, track>> \notin meets
    BY <1>9 DEF MembersOf
  <2>9. AreColoured(T, ahead, shares, meets, n, MembersOf(new), FirstsOf(new), Range(left) \ {track})
    <3>1. WithOld(n, MembersOf(members), FirstsOf(members), track, k, MembersOf(new), FirstsOf(new))
      BY <2>7 DEF WithOld
    <3>2. IsNext(track, Range(left), ahead)
      BY <1>5, <1>6 DEF IsNext
    <3>3. AreColoured(T, ahead, shares, meets, n, MembersOf(members), FirstsOf(members), Range(left))
      BY <1>1
    <3>4. MayJoin(n, MembersOf(members), track, k, shares, meets)
      BY <2>8 DEF MayJoin
    <3> HIDE DEF T, ahead, shares, meets, n
    <3> QED BY ONLY <1>2, <1>3, <3>1, <3>2, <3>3, <3>4, OldColour
  <2>10. \A c \in 1..Len(new) : new[c] # <<>>
    BY <1>1, <2>3, <2>6
  <2>11. IsColouring(g, new, rest)
    BY <1>4, <1>5, <1>7, <2>6, <2>7, <2>9, <2>10 DEF IsColouring
  <2> QED BY <2>1, <2>11
<1> QED BY <1>4, <1>8, <1>9

(* What TracksKeepApart asks of the slots of one gap.                      *)
ServesTracks(g, o) ==
  /\ {o.slots[t] : t \in DOMAIN g.lanes} = 0..(o.count - 1)
  /\ \A a, b \in DOMAIN g.lanes :
       /\ <<a, b>> \in MeetsOf(g) => o.slots[a] # o.slots[b]
       /\ <<a, b>> \in SharesOf(g) /\ g.lanes[a] < g.lanes[b] => o.slots[a] < o.slots[b]

\* The slot of a track is its colour, counted from zero.
LEMMA SlotsAreColours ==
  ASSUME IsGap(Nat \X Int, Gap), NEW members, IsColouring(Gap, members, <<>>)
  PROVE  \A c \in 1..Len(members) : \A t \in Range(members[c]) : Slots(members)[t] = c - 1
<1> DEFINE T == DOMAIN Gap.lanes  n == Len(members)  M == MembersOf(members)  F == FirstsOf(members)
<1>1. /\ members \in Seq(Seq(T)) /\ n \in Nat /\ DOMAIN members = 1..n
      /\ AreColoured(T, Ahead(Gap), SharesOf(Gap), MeetsOf(Gap), n, M, F, Range(<<>>))
  BY DEF IsColouring
<1>2. /\ \A c \in 1..n : M[c] \subseteq T /\ F[c] \in M[c]
      /\ \A c \in 1..n : \A t \in M[c] : t = F[c] \/ <<F[c], t>> \in Ahead(Gap)
      /\ \A c, d \in 1..n : c < d => <<F[c], F[d]>> \in Ahead(Gap)
      /\ \A c, d \in 1..n : \A a \in M[c] : \A b \in M[d] : a = b => c = d
  BY <1>1 DEF AreColoured
<1>3. /\ \A x, y, z \in T : <<x, y>> \in Ahead(Gap) /\ <<y, z>> \in Ahead(Gap) => <<x, z>> \in Ahead(Gap)
      /\ \A x \in T : <<x, x>> \notin Ahead(Gap)
      /\ \A a, b \in T : <<a, b>> \in Ahead(Gap) <=> ByLane(a, b)
  <2>1. LaneKeys = KeysIn(Gap)
    BY DEF LaneKeys, KeysIn
  <2>2. \A a, b \in T : <<a, b>> \in Ahead(Gap) <=> LexLess(KeysIn(Gap)[a], KeysIn(Gap)[b])
    BY LanesOrder
  <2>3. StrictlyOrders(Ahead(Gap), T)
    BY LanesOrder
  <2> QED BY <2>1, <2>2, <2>3 DEF ByLane, StrictlyOrders
<1>4. \A c \in 1..n : M[c] = Range(members[c])
  BY <1>1 DEF MembersOf
<1>5. ASSUME NEW c \in 1..n PROVE FirstOf(members[c]) = F[c]
  <2> DEFINE f == FirstOf(members[c])
  <2>1. F[c] \in M[c] /\ \A o \in M[c] : o = F[c] \/ ByLane(F[c], o)
    <3>1. \A o \in M[c] : o \in T /\ F[c] \in T
      BY <1>2
    <3> QED BY <1>2, <1>3, <3>1
  <2>2. f = CHOOSE m \in M[c] : \A o \in M[c] : o = m \/ ByLane(m, o)
    BY <1>4 DEF FirstOf
  <2>3. f \in M[c] /\ \A o \in M[c] : o = f \/ ByLane(f, o)
    <3> HIDE DEF f, M, F
    <3> QED BY ONLY <2>1, <2>2
  <2>4. f \in T /\ F[c] \in T
    BY <1>2, <2>3
  <2>5. CASE f # F[c]
    <3>1. ByLane(f, F[c]) /\ ByLane(F[c], f)
      BY <2>1, <2>3, <2>5
    <3> HIDE DEF f, F
    <3>2. <<f, F[c]>> \in Ahead(Gap) /\ <<F[c], f>> \in Ahead(Gap)
      BY <1>3, <2>4, <3>1
    <3> QED BY <1>3, <2>4, <3>2
  <2> QED BY <2>5
<1>6. ASSUME NEW c \in 1..n, NEW t \in M[c] PROVE Slots(members)[t] = c - 1
  <2>1. PICK first : first = [d \in DOMAIN members |-> FirstOf(members[d])]
    OBVIOUS
  <2>2. \A d \in 1..n : first[d] = F[d]
    BY <1>1, <1>5, <2>1
  <2>3. PICK mine : mine = CHOOSE d \in DOMAIN members : t \in Range(members[d])
    OBVIOUS
  <2>4. mine = c
    <3>1. c \in DOMAIN members /\ t \in Range(members[c])
      BY <1>1, <1>4
    <3>2. mine \in DOMAIN members /\ t \in Range(members[mine])
      BY <2>3, <3>1
    <3>3. mine \in 1..n /\ t \in M[mine]
      BY <1>1, <1>4, <3>2
    <3> QED BY <1>2, <3>3
  <2>5. t \in T
    BY <1>2
  <2>6. Slots(members)[t] = Cardinality({d \in DOMAIN members : ByLane(first[d], first[mine])})
    BY <2>1, <2>3, <2>5 DEF Slots
  <2>7. ASSUME NEW d \in 1..n PROVE ByLane(first[d], first[c]) <=> d < c
    <3>1. first[d] = F[d] /\ first[c] = F[c] /\ F[d] \in T /\ F[c] \in T
      BY <1>2, <2>2
    <3>2. d < c => <<F[d], F[c]>> \in Ahead(Gap)
      BY <1>2
    <3>3. c < d => <<F[c], F[d]>> \in Ahead(Gap)
      BY <1>2
    <3>4. d < c \/ c < d \/ d = c
      BY <1>1
    <3> HIDE DEF F
    <3>5. ASSUME <<F[d], F[c]>> \in Ahead(Gap) PROVE d < c
      <4>1. <<F[c], F[d]>> \notin Ahead(Gap) /\ d # c
        BY <1>3, <3>1, <3>5
      <4> QED BY <3>3, <3>4, <4>1
    <3>6. ByLane(F[d], F[c]) <=> <<F[d], F[c]>> \in Ahead(Gap)
      BY <1>3, <3>1
    <3> QED BY <3>1, <3>2, <3>5, <3>6
  <2>8. \A d : d \in {e \in DOMAIN members : ByLane(first[e], first[mine])} <=> d \in 1..(c - 1)
    <3>1. \A d : d \in 1..(c - 1) <=> d \in 1..n /\ d < c
      BY <1>1
    <3> QED BY <1>1, <2>4, <2>7, <3>1
  <2>9. {d \in DOMAIN members : ByLane(first[d], first[mine])} = 1..(c - 1)
    BY <2>8
  <2>10. Cardinality(1..(c - 1)) = c - 1
    <3>1. 1 \in Int /\ c - 1 \in Int /\ c - 1 >= 0
      BY <1>1
    <3>2. Cardinality(1..(c - 1)) = IF 1 > c - 1 THEN 0 ELSE (c - 1) - 1 + 1
      BY <3>1, FS_Interval
    <3> QED BY <3>1, <3>2
  <2> QED BY <2>6, <2>9, <2>10
<1> QED BY <1>4, <1>6

LEMMA SlotsServe ==
  ASSUME IsGap(Nat \X Int, Gap), NEW members, IsColouring(Gap, members, <<>>)
  PROVE  ServesTracks(Gap, [slots |-> Slots(members), count |-> Len(members)])
<1> DEFINE T == DOMAIN Gap.lanes  n == Len(members)  M == MembersOf(members)
<1>1. /\ n \in Nat /\ DOMAIN members = 1..n
      /\ AreColoured(T, Ahead(Gap), SharesOf(Gap), MeetsOf(Gap), n, M, FirstsOf(members), Range(<<>>))
  BY DEF IsColouring
<1>2. PICK slots : slots = Slots(members)
  OBVIOUS
<1>3. \A c \in 1..n : \A t \in M[c] : slots[t] = c - 1
  <2>1. \A c \in 1..n : M[c] = Range(members[c])
    BY <1>1 DEF MembersOf
  <2> QED BY <1>2, <2>1, SlotsAreColours
<1>4. Range(<<>>) = {}
  BY DEF Range
<1>5. /\ \A c \in 1..n : M[c] \subseteq T /\ FirstsOf(members)[c] \in M[c]
      /\ \A t \in T : \E c \in 1..n : t \in M[c]
      /\ \A c, d \in 1..n : \A a \in M[c] : \A b \in M[d] :
           /\ a = b => c = d
           /\ a # b /\ c = d => <<a, b>> \notin MeetsOf(Gap)
           /\ <<a, b>> \in SharesOf(Gap) /\ <<a, b>> \in Ahead(Gap) => c < d
  BY <1>1, <1>4 DEF AreColoured
<1> HIDE DEF M
<1>6. ASSUME NEW v PROVE v \in {slots[t] : t \in T} <=> v \in 0..(n - 1)
  <2>1. ASSUME NEW t \in T, v = slots[t] PROVE v \in 0..(n - 1)
    <3>1. PICK c \in 1..n : t \in M[c]
      BY <1>5
    <3> QED BY <1>1, <1>3, <2>1, <3>1
  <2>2. ASSUME v \in 0..(n - 1) PROVE \E t \in T : v = slots[t]
    <3>1. v + 1 \in 1..n /\ (v + 1) - 1 = v
      BY <1>1, <2>2
    <3> QED BY <1>3, <1>5, <3>1
  <2> QED BY <2>1, <2>2
<1>7. {slots[t] : t \in T} = 0..(n - 1)
  BY <1>6
<1>8. ASSUME NEW a \in T, NEW b \in T
      PROVE  /\ <<a, b>> \in MeetsOf(Gap) => slots[a] # slots[b]
             /\ <<a, b>> \in SharesOf(Gap) /\ Gap.lanes[a] < Gap.lanes[b] => slots[a] < slots[b]
  <2>1. PICK c \in 1..n, d \in 1..n : a \in M[c] /\ b \in M[d]
    BY <1>5
  <2>2. slots[a] = c - 1 /\ slots[b] = d - 1 /\ c \in Nat /\ d \in Nat
    BY <1>1, <1>3, <2>1
  <2>3. <<a, b>> \in MeetsOf(Gap) => a # b
    BY DEF MeetsOf
  <2>4. Gap.lanes[a] < Gap.lanes[b] => <<a, b>> \in Ahead(Gap)
    BY LanesOrder
  <2> QED BY <1>5, <2>1, <2>2, <2>3, <2>4
<1> QED BY <1>2, <1>7, <1>8 DEF ServesTracks

-----------------------------------------------------------------------------
(* The pitch, gap by gap.                                                  *)

IsList(s) == Len(s) \in Nat /\ s = [k \in 1..Len(s) |-> s[k]]

LEMMA ListedOnce ==
  ASSUME NEW s, IsList(s), NEW e
  PROVE  /\ IsList(Append(s, e)) /\ Len(Append(s, e)) = Len(s) + 1
         /\ \A k \in 1..Len(s) : Append(s, e)[k] = s[k]
         /\ Append(s, e)[Len(s) + 1] = e
<1>1. PICK S, n : n = Len(s) /\ S = {s[k] : k \in 1..n} \cup {e}
  OBVIOUS
<1>2. n \in Nat /\ s = [k \in 1..n |-> s[k]] /\ e \in S /\ \A k \in 1..n : s[k] \in S
  BY <1>1 DEF IsList
<1>3. s \in Seq(S)
  BY ONLY <1>2
<1>4. PICK t : t = Append(s, e)
  OBVIOUS
<1>5. /\ t \in Seq(S) /\ Len(t) = n + 1
      /\ \A k \in 1..n : t[k] = s[k]
      /\ t[n + 1] = e
  <2>1. /\ t \in Seq(S) /\ Len(t) = Len(s) + 1
        /\ \A k \in 1..Len(s) : t[k] = s[k]
        /\ t[Len(s) + 1] = e
    BY ONLY <1>2, <1>3, <1>4, AppendProperties
  <2> QED BY <1>1, <2>1
<1>6. t = [k \in 1..Len(t) |-> t[k]] /\ Len(t) \in Nat
  BY ONLY <1>5
<1> QED BY <1>1, <1>4, <1>5, <1>6 DEF IsList

PitchInv ==
  problem.job = "pitch" =>
    /\ gap \in Nat /\ gap >= 1 /\ gap <= Len(problem.gaps) + 1
    /\ IsList(ordered) /\ Len(ordered) = gap - 1
    /\ \A k \in 1..Len(ordered) : ordered[k] # None => ServesTracks(problem.gaps[k], ordered[k])
    /\ work # None => gap <= Len(problem.gaps) /\ IsColouring(Gap, work.members, work.left)
    /\ outcome # None /\ outcome # <<>> => outcome = ordered /\ gap > Len(problem.gaps)

LEMMA PitchGap ==
  ASSUME problem \in Problems, problem.job = "pitch"
  PROVE  /\ Len(problem.gaps) \in Nat
         /\ gap \in Nat /\ gap >= 1 /\ gap <= Len(problem.gaps) => IsGap(Nat \X Int, Gap)
<1>1. IsProblem(problem)
  BY ProblemsAssumption
<1>2. /\ DOMAIN problem.gaps = 1..Len(problem.gaps) /\ Len(problem.gaps) \in Nat
      /\ \A k \in DOMAIN problem.gaps : IsGap(Nat \X Int, problem.gaps[k])
  BY <1>1 DEF IsProblem
<1>3. gap \in Nat /\ gap >= 1 /\ gap <= Len(problem.gaps) => gap \in DOMAIN problem.gaps
  BY <1>2
<1> QED BY <1>2, <1>3 DEF Gap

LEMMA PitchBegins ==
  ASSUME problem \in Problems, problem.job = "pitch", PitchInv, EnterPitchGap
  PROVE  PitchInv'
<1>1. /\ Working("pitch") /\ work = None
      /\ \/ outcome' = <<>> /\ work' = work
         \/ work' = [members |-> <<>>, left |-> ByKey(LaneKeys)] /\ outcome' = outcome
      /\ problem' = problem /\ gap' = gap /\ ordered' = ordered
  BY DEF EnterPitchGap
<1>2. gap \in Nat /\ gap >= 1 /\ gap <= Len(problem.gaps)
  BY <1>1 DEF PitchInv, Working
<1>3. IsColouring(Gap, <<>>, ByKey(KeysIn(Gap)))
  BY <1>2, PitchGap, ColouringBegins
<1>4. LaneKeys = KeysIn(Gap) /\ Gap' = Gap
  BY <1>1 DEF LaneKeys, KeysIn, Gap
<1>5. CASE work' = [members |-> <<>>, left |-> ByKey(LaneKeys)] /\ outcome' = outcome
  <2>1. work'.members = <<>> /\ work'.left = ByKey(LaneKeys)
    BY <1>5
  <2>2. IsColouring(Gap, work'.members, work'.left)
    BY <1>3, <1>4, <2>1
  <2>3. (problem.job = "pitch" =>
           /\ gap \in Nat /\ gap >= 1 /\ gap <= Len(problem.gaps) + 1
           /\ IsList(ordered) /\ Len(ordered) = gap - 1
           /\ \A k \in 1..Len(ordered) : ordered[k] # None => ServesTracks(problem.gaps[k], ordered[k])
           /\ work # None => gap <= Len(problem.gaps) /\ IsColouring(Gap, work.members, work.left)
           /\ outcome # None /\ outcome # <<>> => outcome = ordered /\ gap > Len(problem.gaps))
    BY DEF PitchInv
  <2> QED BY <1>1, <1>2, <1>4, <1>5, <2>2, <2>3 DEF PitchInv
<1>6. CASE outcome' = <<>> /\ work' = work
  BY <1>1, <1>6 DEF PitchInv
<1> QED BY <1>1, <1>5, <1>6

\* The greatest colour with a track of the same wire.
LEMMA FirstFit ==
  ASSUME NEW n \in Nat, NEW shared, shared \subseteq 1..n, NEW first,
         first = IF shared = {} THEN 1 ELSE Largest(shared) + 1
  PROVE  first \in Nat /\ first >= 1 /\ \A c \in shared : c < first
<1>1. CASE shared = {}
  BY <1>1
<1>2. CASE shared # {}
  <2>1. IsFiniteSet(1..n)
    <3>1. 1 \in Int /\ n \in Int
      OBVIOUS
    <3> QED BY <3>1, FS_Interval
  <2>2. IsFiniteSet(shared) /\ shared \subseteq Int
    <3>1. shared \in SUBSET (1..n) /\ \A c \in shared : c \in Int
      OBVIOUS
    <3>2. IsFiniteSet(shared)
      BY ONLY <2>1, <3>1, FS_Subset
    <3> QED BY <3>1, <3>2
  <2>4. PICK top : top = Largest(shared)
    OBVIOUS
  <2>5. top \in shared /\ \A d \in shared : d <= top
    <3>1. Largest(shared) \in shared /\ \A d \in shared : d <= Largest(shared)
      BY <1>2, <2>2, LargestFacts
    <3> QED BY ONLY <2>4, <3>1
  <2>6. first = top + 1 /\ top \in 1..n /\ \A c \in shared : c \in 1..n
    BY <1>2, <2>4, <2>5
  <2> QED BY ONLY <2>5, <2>6, n \in Nat
<1> QED BY <1>1, <1>2

LEMMA PitchColours ==
  ASSUME problem \in Problems, problem.job = "pitch", PitchInv, ColourTrack
  PROVE  PitchInv'
<1> DEFINE track == Head(work.left)
           members == work.members
           n == Len(members)
           shared == {c \in DOMAIN members : \E m \in Range(members[c]) : ShareWire(m, track)}
           first == IF shared = {} THEN 1 ELSE Largest(shared) + 1
           free == {c \in first..n : \A m \in Range(members[c]) : ~Conflict(m, track)}
           colour == IF free = {} THEN n + 1 ELSE Smallest(free)
           new == IF free = {} THEN Append(members, <<track>>)
                  ELSE [members EXCEPT ![colour] = Append(@, track)]
<1>1. /\ Working("pitch") /\ work # None /\ work.left # <<>>
      /\ problem' = problem /\ gap' = gap /\ ordered' = ordered
  BY DEF ColourTrack
<1>2. \/ outcome' = <<>> /\ work' = work
      \/ work' = [members |-> new, left |-> Tail(work.left)] /\ outcome' = outcome
  BY DEF ColourTrack, ByColour
<1>3. gap \in Nat /\ gap >= 1 /\ gap <= Len(problem.gaps) /\ IsColouring(Gap, members, work.left)
  BY <1>1 DEF PitchInv, Working
<1>4. IsGap(Nat \X Int, Gap)
  BY <1>3, PitchGap
<1>5. /\ track \in DOMAIN Gap.lanes
      /\ IsColouring(Gap, Append(members, <<track>>), Tail(work.left))
      /\ \A k \in 1..n :
           /\ \A c \in 1..n : \A m \in Range(members[c]) : <<m, track>> \in SharesOf(Gap) => c < k
           /\ \A m \in Range(members[k]) : <<m, track>> \notin MeetsOf(Gap)
           => IsColouring(Gap, [members EXCEPT ![k] = Append(@, track)], Tail(work.left))
  BY <1>1, <1>3, <1>4, TrackIsColoured
<1>6. n \in Nat /\ DOMAIN members = 1..n /\ \A c \in 1..n : Range(members[c]) \subseteq DOMAIN Gap.lanes
  <2>1. members \in Seq(Seq(DOMAIN Gap.lanes))
    BY <1>3 DEF IsColouring
  <2>2. n \in Nat /\ DOMAIN members = 1..n /\ \A c \in 1..n : members[c] \in Seq(DOMAIN Gap.lanes)
    BY <2>1
  <2> QED BY <2>2, RangeOfSeq
<1>7. \A c \in 1..n : \A m \in Range(members[c]) :
        /\ <<m, track>> \in SharesOf(Gap) <=> ShareWire(m, track)
        /\ <<m, track>> \in MeetsOf(Gap) => Conflict(m, track)
  <2> TAKE c \in 1..n
  <2> TAKE m \in Range(members[c])
  <2>1. m \in DOMAIN Gap.lanes /\ track \in DOMAIN Gap.lanes
    BY <1>5, <1>6
  <2> HIDE DEF track
  <2> QED BY <2>1, PairsOfTracks DEF ShareWire, Conflict, VerticalsMeet
<1>8. shared \subseteq 1..n
  BY <1>6
<1>9. first \in Nat /\ first >= 1 /\ \A c \in shared : c < first
  <2> HIDE DEF shared, n
  <2> QED BY <1>6, <1>8, FirstFit
<1>10. ASSUME free # {} PROVE colour \in free
  <2>1. IsFiniteSet(free) /\ free \subseteq Int
    <3>1. IsFiniteSet(first..n)
      <4>1. first \in Int /\ n \in Int
        BY <1>6, <1>9
      <4> HIDE DEF first, n
      <4> QED BY <4>1, FS_Interval
    <3>2. free \subseteq first..n /\ first..n \subseteq Int
      BY <1>6, <1>9
    <3> HIDE DEF free, first, n
    <3> QED BY <3>1, <3>2, FS_Subset
  <2> HIDE DEF free
  <2> QED BY <1>10, <2>1, SmallestFacts
<1>11. IsColouring(Gap, new, Tail(work.left))
  <2>1. CASE free = {}
    BY <1>5, <2>1
  <2>2. CASE free # {}
    <3>1. colour \in first..n /\ \A m \in Range(members[colour]) : ~Conflict(m, track)
      <4>1. colour \in free
        BY <1>10, <2>2
      <4> HIDE DEF colour
      <4> QED BY <4>1
    <3>2. PICK k : k = colour
      OBVIOUS
    <3>3. k \in first..n /\ \A m \in Range(members[k]) : ~Conflict(m, track)
      BY <3>1, <3>2
    <3>4. new = [members EXCEPT ![k] = Append(@, track)]
      BY <2>2, <3>2
    <3>5. k \in 1..n /\ first <= k
      BY <1>6, <1>9, <3>3
    <3>6. ASSUME NEW c \in 1..n, NEW m \in Range(members[c]), <<m, track>> \in SharesOf(Gap) PROVE c < k
      <4>1. c \in shared
        BY <1>6, <1>7, <3>6
      <4>2. c < first
        BY <1>9, <4>1
      <4> HIDE DEF first, n
      <4> QED BY <1>6, <1>9, <3>5, <4>2
    <3>7. \A m \in Range(members[k]) : <<m, track>> \notin MeetsOf(Gap)
      BY <1>7, <3>3, <3>5
    <3> HIDE DEF new, n, track, members
    <3> QED BY <1>5, <3>4, <3>5, <3>6, <3>7
  <2> QED BY <2>1, <2>2
<1>12. Gap' = Gap
  BY <1>1 DEF Gap
<1>13. CASE outcome' = <<>> /\ work' = work
  BY <1>1, <1>12, <1>13 DEF PitchInv
<1>14. CASE work' = [members |-> new, left |-> Tail(work.left)] /\ outcome' = outcome
  <2>1. work'.members = new /\ work'.left = Tail(work.left)
    BY <1>14
  <2> HIDE DEF new
  <2>2. IsColouring(Gap', work'.members, work'.left)
    BY <1>11, <1>12, <2>1
  <2> QED BY <1>1, <1>3, <1>14, <2>2 DEF PitchInv
<1> HIDE DEF new
<1> QED BY <1>2, <1>13, <1>14

LEMMA PitchGoesOn ==
  ASSUME problem \in Problems, problem.job = "pitch", PitchInv, problem' = problem, outcome = None, outcome' = None,
         gap <= Len(problem.gaps), gap' = gap + 1, work' = None,
         NEW found, ordered' = Append(ordered, found), found = None \/ ServesTracks(Gap, found)
  PROVE  PitchInv'
<1>1. /\ gap \in Nat /\ gap >= 1
      /\ IsList(ordered) /\ Len(ordered) = gap - 1
      /\ \A k \in 1..Len(ordered) : ordered[k] # None => ServesTracks(problem.gaps[k], ordered[k])
      /\ Len(problem.gaps) \in Nat
  BY PitchGap DEF PitchInv
<1>2. /\ IsList(ordered') /\ Len(ordered') = gap
      /\ \A k \in 1..Len(ordered) : ordered'[k] = ordered[k]
      /\ ordered'[gap] = found
  <2>1. /\ IsList(ordered') /\ Len(ordered') = Len(ordered) + 1
        /\ \A k \in 1..Len(ordered) : ordered'[k] = ordered[k]
        /\ ordered'[Len(ordered) + 1] = found
    BY <1>1, ListedOnce
  <2>2. Len(ordered) + 1 = gap
    BY <1>1
  <2> QED BY <2>1, <2>2
<1>3. ASSUME NEW k \in 1..Len(ordered'), ordered'[k] # None PROVE ServesTracks(problem.gaps[k], ordered'[k])
  <2>1. CASE k = gap
    BY <1>2, <1>3, <2>1 DEF Gap
  <2>2. CASE k # gap
    <3>1. k \in 1..Len(ordered)
      BY <1>1, <1>2, <2>2
    <3> QED BY <1>1, <1>2, <1>3, <3>1
  <2> QED BY <2>1, <2>2
<1>4. gap' \in Nat /\ gap' >= 1 /\ gap' <= Len(problem'.gaps) + 1 /\ Len(ordered') = gap' - 1
  BY <1>1, <1>2
<1> QED BY <1>2, <1>3, <1>4 DEF PitchInv

LEMMA PitchSlots ==
  ASSUME problem \in Problems, problem.job = "pitch", PitchInv, SlotGap
  PROVE  PitchInv'
<1>1. /\ outcome = None /\ outcome' = None /\ gap <= Len(problem.gaps) /\ work # None /\ work.left = <<>>
      /\ problem' = problem /\ gap' = gap + 1 /\ work' = None
  BY DEF SlotGap, Working
<1>2. PICK found : found = [slots |-> Slots(work.members), count |-> Len(work.members)]
  OBVIOUS
<1>3. ordered' = Append(ordered, found)
  BY <1>2 DEF SlotGap
<1>4. IsColouring(Gap, work.members, <<>>) /\ IsGap(Nat \X Int, Gap)
  BY <1>1, PitchGap DEF PitchInv
<1>5. ServesTracks(Gap, found)
  BY <1>2, <1>4, SlotsServe
<1> QED BY <1>1, <1>3, <1>5, PitchGoesOn

LEMMA PitchLeaves ==
  ASSUME problem \in Problems, problem.job = "pitch", PitchInv, LeaveGap
  PROVE  PitchInv'
<1>1. /\ outcome = None /\ outcome' = None /\ gap <= Len(problem.gaps)
      /\ problem' = problem /\ gap' = gap + 1 /\ work' = None
      /\ ordered' = Append(ordered, None)
  BY DEF LeaveGap, Working
<1> QED BY <1>1, PitchGoesOn

LEMMA PitchOffers ==
  ASSUME problem \in Problems, problem.job = "pitch", PitchInv, OfferTracks
  PROVE  PitchInv'
<1>1. /\ gap > Len(problem.gaps) /\ (outcome' = <<>> \/ outcome' = ordered)
      /\ problem' = problem /\ gap' = gap /\ work' = work /\ ordered' = ordered
  BY DEF OfferTracks
<1>2. Gap' = Gap
  BY <1>1 DEF Gap
<1> QED BY <1>1, <1>2 DEF PitchInv

\* No step changes the problem.
LEMMA ProblemStays ==
  ASSUME [LaneNext]_laneVars
  PROVE  problem' = problem
<1>1. Admit \/ EnterGap => problem' = problem
  BY DEF Admit, EnterGap
<1>2. Descend \/ SeedSmallGap \/ StartInsertion => problem' = problem
  BY DEF Descend, SeedSmallGap, StartInsertion, Step
<1>3. KeepLocal \/ OrderSmallGap \/ OrderLargeGap \/ RefineLargeGap => problem' = problem
  BY DEF KeepLocal, OrderSmallGap, OrderLargeGap, RefineLargeGap, Ordered
<1>4. InsertNet => problem' = problem
  <2>1. \A next : Step(next) => problem' = problem
    BY DEF Step
  <2> QED BY <2>1 DEF InsertNet
<1>5. PassGlobal \/ PassHalf \/ RepeatRound \/ PassPreserved \/ RefineFurther => problem' = problem
  BY DEF PassGlobal, PassHalf, RepeatRound, PassPreserved, RefineFurther, Step
<1>6. EnterPitchGap \/ SlotGap \/ LeaveGap \/ OfferTracks => problem' = problem
  BY DEF EnterPitchGap, SlotGap, LeaveGap, OfferTracks
<1>7. ColourTrack => problem' = problem
  BY DEF ColourTrack
<1>8. OfferOrders \/ MoveForRepair => problem' = problem
  BY DEF OfferOrders, MoveForRepair
<1>9. LanesDone \/ UNCHANGED laneVars => problem' = problem
  BY DEF LanesDone, laneVars
<1> QED BY <1>1, <1>2, <1>3, <1>4, <1>5, <1>6, <1>7, <1>8, <1>9 DEF LaneNext

LEMMA PitchSteps ==
  ASSUME problem \in Problems, PitchInv, [LaneNext]_laneVars
  PROVE  PitchInv'
<1>1. CASE problem.job # "pitch"
  <2> QED BY <1>1, ProblemStays DEF PitchInv
<1>2. CASE problem.job = "pitch"
  <2>1. CASE UNCHANGED laneVars
    BY <2>1 DEF PitchInv, laneVars, Gap
  <2>2. ~Working("lanes") /\ "pitch" # "lanes" /\ "pitch" # "repair"
    BY <1>2 DEF Working
  <2>3. CASE LaneNext
    <3>1. EnterPitchGap \/ ColourTrack \/ SlotGap \/ LeaveGap \/ OfferTracks \/ LanesDone
      BY <1>2, <2>2, <2>3
      DEF LaneNext, In, AllIn, Descended, Admit, EnterGap, Descend, KeepLocal, SeedSmallGap, OrderSmallGap,
          StartInsertion, InsertNet, OrderLargeGap, PassGlobal, PassHalf, RepeatRound, PassPreserved,
          RefineFurther, RefineLargeGap, OfferOrders, MoveForRepair
    <3>2. CASE LanesDone
      BY <2>1, <3>2 DEF LanesDone
    <3> QED BY <1>2, <3>1, <3>2, PitchBegins, PitchColours, PitchSlots, PitchLeaves, PitchOffers
  <2> QED BY <2>1, <2>3
<1> QED BY <1>1, <1>2

LEMMA PitchShows ==
  ASSUME problem \in Problems, PitchInv
  PROVE  TracksKeepApart
<1>1. CASE problem.job = "pitch" /\ outcome \notin {None, <<>>}
  <2>1. /\ outcome = ordered /\ DOMAIN ordered = 1..Len(ordered)
        /\ \A k \in 1..Len(ordered) : ordered[k] # None => ServesTracks(problem.gaps[k], ordered[k])
    BY <1>1 DEF PitchInv, IsList
  <2>2. ASSUME NEW k \in DOMAIN outcome, outcome[k] # None,
               NEW a \in DOMAIN problem.gaps[k].lanes, NEW b \in DOMAIN problem.gaps[k].lanes
        PROVE  /\ <<a, b>> \in MeetsOf(problem.gaps[k]) => outcome[k].slots[a] # outcome[k].slots[b]
               /\ <<a, b>> \in SharesOf(problem.gaps[k]) /\ problem.gaps[k].lanes[a] < problem.gaps[k].lanes[b]
                    => outcome[k].slots[a] < outcome[k].slots[b]
    BY <2>1, <2>2 DEF ServesTracks
  <2>3. ASSUME NEW k \in DOMAIN outcome, outcome[k] # None
        PROVE  {outcome[k].slots[t] : t \in DOMAIN problem.gaps[k].lanes} = 0..(outcome[k].count - 1)
    BY <2>1, <2>3 DEF ServesTracks
  <2>4. ASSUME NEW k \in DOMAIN outcome, outcome[k] # None,
               NEW a \in DOMAIN problem.gaps[k].lanes, NEW b \in DOMAIN problem.gaps[k].lanes
        PROVE  /\ a[1] # b[1] /\ (\E i \in DOMAIN problem.gaps[k].access[a].vertical,
                                     j \in DOMAIN problem.gaps[k].access[b].vertical :
                    /\ problem.gaps[k].access[a].vertical[i][1] <= problem.gaps[k].access[b].vertical[j][2]
                    /\ problem.gaps[k].access[b].vertical[j][1] <= problem.gaps[k].access[a].vertical[i][2])
                  => outcome[k].slots[a] # outcome[k].slots[b]
               /\ /\ problem.gaps[k].access[a].edges \cap problem.gaps[k].access[b].edges # {}
                  /\ problem.gaps[k].lanes[a] < problem.gaps[k].lanes[b]
                  => outcome[k].slots[a] < outcome[k].slots[b]
    BY <2>2, <2>4, PairsOfTracks
  <2> QED BY ONLY <2>3, <2>4 DEF TracksKeepApart
<1> QED BY <1>1 DEF TracksKeepApart

-----------------------------------------------------------------------------
(* Nets moved to the outer edge.                                           *)

LEMMA RisingFromBelow ==
  ASSUME NEW n \in Nat, NEW f, \A i \in 1..n : f[i] \in Int /\ f[i] >= 0,
         \A i, j \in 1..n : i < j => f[i] < f[j]
  PROVE  \A i \in 1..n : f[i] >= i - 1
<1>1. PICK Good : Good = {k \in Nat : k + 1 <= n => f[k + 1] >= k}
  OBVIOUS
<1>2. 0 \in Good
  BY <1>1
<1>3. ASSUME NEW k \in Nat, k \in Good PROVE k + 1 \in Good
  <2>1. CASE (k + 1) + 1 <= n
    <3>1. k + 1 \in 1..n /\ (k + 1) + 1 \in 1..n /\ k + 1 < (k + 1) + 1
      BY <2>1
    <3>2. f[k + 1] >= k /\ f[k + 1] < f[(k + 1) + 1] /\ f[k + 1] \in Int /\ f[(k + 1) + 1] \in Int
      BY <1>1, <1>3, <3>1
    <3> QED BY <1>1, <3>2
  <2>2. CASE ~ ((k + 1) + 1 <= n)
    BY <1>1, <2>2
  <2> QED BY <2>1, <2>2
<1>4. \A k \in Nat : k \in Good
  BY <1>2, <1>3, CountingUp
<1>5. ASSUME NEW i \in 1..n PROVE f[i] >= i - 1
  <2>1. i - 1 \in Nat /\ (i - 1) + 1 = i /\ i <= n
    OBVIOUS
  <2> QED BY <1>1, <1>4, <2>1
<1> QED BY <1>5

\* What rises through as many numbers as there are takes them one by one.
LEMMA RisingThroughAll ==
  ASSUME NEW n \in Nat, NEW f, \A i \in 1..n : f[i] \in Int /\ f[i] >= 0 /\ f[i] < n,
         \A i, j \in 1..n : i < j => f[i] < f[j]
  PROVE  \A i \in 1..n : f[i] = i - 1
<1>1. \A i \in 1..n : f[i] >= i - 1
  BY RisingFromBelow
<1>2. PICK g : g = [i \in 1..n |-> (n - 1) - f[n + 1 - i]]
  OBVIOUS
<1>3. \A i \in 1..n : n + 1 - i \in 1..n /\ n + 1 - (n + 1 - i) = i
  OBVIOUS
<1>4. \A i \in 1..n : g[i] = (n - 1) - f[n + 1 - i] /\ g[i] \in Int /\ g[i] >= 0
  BY <1>2, <1>3
<1>5. ASSUME NEW i \in 1..n, NEW j \in 1..n, i < j PROVE g[i] < g[j]
  <2>1. n + 1 - j < n + 1 - i
    BY <1>5
  <2>2. f[n + 1 - j] < f[n + 1 - i] /\ f[n + 1 - j] \in Int /\ f[n + 1 - i] \in Int
    BY <1>3, <2>1
  <2> QED BY <1>4, <2>2
<1>6. \A i \in 1..n : g[i] >= i - 1
  BY ONLY n \in Nat, <1>4, <1>5, RisingFromBelow
<1>7. ASSUME NEW i \in 1..n PROVE f[i] <= i - 1
  <2>1. g[n + 1 - i] >= (n + 1 - i) - 1 /\ g[n + 1 - i] = (n - 1) - f[i]
    BY <1>3, <1>4, <1>6
  <2>2. f[i] \in Int
    OBVIOUS
  <2> QED BY ONLY n \in Nat, i \in 1..n, <2>1, <2>2
<1>8. ASSUME NEW i \in 1..n PROVE f[i] = i - 1
  <2>1. f[i] >= i - 1 /\ f[i] <= i - 1 /\ f[i] \in Int
    BY <1>1, <1>7
  <2> QED BY ONLY <2>1, i \in 1..n, n \in Nat
<1> QED BY <1>8

\* Every net has a lane of its own, and every lane a net.
IsLanes(T, n, B) ==
  /\ n \in Nat /\ IsFiniteSet(T) /\ Cardinality(T) = n /\ T \subseteq Nat
  /\ B = [t \in T |-> B[t]] /\ DOMAIN B = T /\ \A t \in T : B[t] \in 0..(n - 1)
  /\ \A t, u \in T : B[t] = B[u] => t = u
  /\ \A v \in 0..(n - 1) : \E t \in T : B[t] = v

LEMMA LanesInOrder ==
  ASSUME NEW T, NEW n, NEW B, IsLanes(T, n, B), NEW o, o = OrderOf(B)
  PROVE  /\ Len(o) = n /\ o = [i \in 1..n |-> o[i]] /\ DOMAIN o = 1..n
         /\ \A i \in 1..n : o[i] \in T /\ B[o[i]] = i - 1
         /\ \A t \in T : \E i \in 1..n : o[i] = t
         /\ \A i, j \in 1..n : o[i] = o[j] => i = j
<1>1. /\ n \in Nat /\ IsFiniteSet(T) /\ Cardinality(T) = n /\ T \subseteq Nat
      /\ DOMAIN B = T /\ \A t \in T : B[t] \in 0..(n - 1)
      /\ \A t, u \in T : B[t] = B[u] => t = u
  BY DEF IsLanes
<1>2. PICK key : key = [t \in T |-> <<B[t], t>>]
  OBVIOUS
<1>3. /\ DOMAIN key = T
      /\ \A t \in T : /\ key[t] = <<B[t], t>> /\ Len(key[t]) = 2 /\ key[t][1] = B[t] /\ key[t][2] = t
                      /\ B[t] \in Int /\ B[t] \in Nat /\ B[t] < n /\ t \in Int
  BY <1>1, <1>2
<1>4. StrictlyOrders(LexPairs(key), DOMAIN key)
  <2>1. \A x \in DOMAIN key : Len(key[x]) = 2 /\ key[x] = <<key[x][1], key[x][2]>>
                              /\ key[x][1] \in Int /\ key[x][2] \in Int
    BY <1>3
  <2>2. ASSUME NEW x \in DOMAIN key, NEW y \in DOMAIN key, key[x] = key[y] PROVE x = y
    <3>1. key[x][2] = x /\ key[y][2] = y
      BY <1>3
    <3> QED BY <2>2, <3>1
  <2> QED BY <2>1, <2>2, TwosOrder
<1>5. o = ByKey(key)
  BY <1>1, <1>2 DEF OrderOf
<1>6. IsByKey(key, o)
  BY <1>1, <1>3, <1>4, <1>5, ListedByKey
<1>7. /\ Len(o) = n /\ DOMAIN o = 1..n /\ o = [i \in 1..n |-> o[i]]
      /\ \A i \in 1..n : o[i] \in T
      /\ \A x \in T : \E i \in 1..n : o[i] = x
      /\ \A i, j \in 1..n : o[i] = o[j] => i = j
      /\ \A i, j \in 1..n : i < j => LexLess(key[o[i]], key[o[j]])
  BY <1>1, <1>3, <1>6 DEF IsByKey
<1>8. ASSUME NEW i \in 1..n, NEW j \in 1..n, i < j PROVE B[o[i]] < B[o[j]]
  <2>1. PICK a, b : a = o[i] /\ b = o[j]
    OBVIOUS
  <2>2. a \in T /\ b \in T /\ a # b
    <3>1. i # j
      BY <1>1, <1>8
    <3> QED BY <1>7, <2>1, <3>1
  <2>3. LexLess(<<B[a], a>>, <<B[b], b>>)
    <3>1. LexLess(key[a], key[b])
      BY <1>7, <1>8, <2>1
    <3>2. key[a] = <<B[a], a>> /\ key[b] = <<B[b], b>>
      BY <1>3, <2>2
    <3> QED BY <3>1, <3>2
  <2>4. B[a] < B[b] \/ (B[a] = B[b] /\ a < b)
    BY <2>3, LexOfTwo
  <2> QED BY <1>1, <2>1, <2>2, <2>4
<1>9. PICK f : f = [i \in 1..n |-> B[o[i]]]
  OBVIOUS
<1>10. \A i \in 1..n : f[i] = B[o[i]] /\ f[i] \in Int /\ f[i] >= 0 /\ f[i] < n
  BY <1>3, <1>7, <1>9
<1>11. \A i \in 1..n : f[i] = i - 1
  <2>1. \A i, j \in 1..n : i < j => f[i] < f[j]
    BY <1>8, <1>10
  <2> QED BY ONLY <1>1, <1>10, <2>1, RisingThroughAll
<1> QED BY <1>7, <1>10, <1>11

\* A list without one of its elements.
LEMMA Removed ==
  ASSUME NEW o, IsList(o), NEW p \in 1..Len(o), NEW r, r = RemoveAt(o, p)
  PROVE  /\ IsList(r) /\ Len(r) = Len(o) - 1
         /\ \A i \in 1..Len(r) : r[i] = IF i < p THEN o[i] ELSE o[i + 1]
<1>1. PICK n, S, a, b : n = Len(o) /\ S = {o[k] : k \in 1..n} /\ a = SubSeq(o, 1, p - 1) /\ b = SubSeq(o, p + 1, n)
  OBVIOUS
<1>2. n \in Nat /\ p \in 1..n /\ \A k \in 1..n : o[k] \in S
  BY <1>1 DEF IsList
<1>3. /\ a \in Seq(S) /\ Len(a) = p - 1
      /\ \A i \in 1..(p - 1) : a[i] = o[i]
  <2>1. 1 \in Int /\ p - 1 \in Int /\ \A i \in 1..(p - 1) : o[i] \in S
    BY <1>2
  <2>2. /\ a \in Seq(S) /\ Len(a) = IF 1 <= p - 1 THEN (p - 1) - 1 + 1 ELSE 0
        /\ \A i \in 1..((p - 1) - 1 + 1) : a[i] = o[1 + i - 1]
    <3>1. a = SubSeq(o, 1, p - 1)
      BY <1>1
    <3> QED BY ONLY <2>1, <3>1, SubSeqProperties
  <2> QED BY <1>2, <2>2
<1>4. /\ b \in Seq(S) /\ Len(b) = n - p
      /\ \A i \in 1..(n - p) : b[i] = o[i + p]
  <2>1. p + 1 \in Int /\ n \in Int /\ \A i \in (p + 1)..n : o[i] \in S
    BY <1>2
  <2>2. /\ b \in Seq(S) /\ Len(b) = IF p + 1 <= n THEN n - (p + 1) + 1 ELSE 0
        /\ \A i \in 1..(n - (p + 1) + 1) : b[i] = o[(p + 1) + i - 1]
    <3>1. b = SubSeq(o, p + 1, n)
      BY <1>1
    <3> QED BY ONLY <2>1, <3>1, SubSeqProperties
  <2>3. \A i \in 1..(n - p) : i \in 1..(n - (p + 1) + 1) /\ (p + 1) + i - 1 = i + p
    BY <1>2
  <2> QED BY <1>2, <2>2, <2>3
<1>5. r = a \o b
  BY <1>1 DEF RemoveAt
<1>6. /\ r \in Seq(S) /\ Len(r) = n - 1
      /\ \A i \in 1..(n - 1) : r[i] = IF i <= p - 1 THEN a[i] ELSE b[i - (p - 1)]
  <2>1. /\ r \in Seq(S) /\ Len(r) = Len(a) + Len(b)
        /\ \A i \in 1..(Len(a) + Len(b)) : r[i] = IF i <= Len(a) THEN a[i] ELSE b[i - Len(a)]
    BY ONLY <1>3, <1>4, <1>5, ConcatProperties
  <2>2. Len(a) + Len(b) = n - 1
    BY <1>2, <1>3, <1>4
  <2> QED BY <1>3, <2>1, <2>2
<1>7. ASSUME NEW i \in 1..(n - 1) PROVE r[i] = IF i < p THEN o[i] ELSE o[i + 1]
  <2>1. CASE i < p
    <3>1. i \in 1..(p - 1) /\ i <= p - 1
      BY <1>2, <2>1
    <3> QED BY <1>3, <1>6, <2>1, <3>1
  <2>2. CASE ~ (i < p)
    <3>1. ~ (i <= p - 1) /\ i - (p - 1) \in 1..(n - p) /\ (i - (p - 1)) + p = i + 1
      BY <1>2, <2>2
    <3>2. r[i] = b[i - (p - 1)] /\ b[i - (p - 1)] = o[(i - (p - 1)) + p]
      BY <1>4, <1>6, <3>1
    <3> QED BY <2>2, <3>1, <3>2
  <2> QED BY <2>1, <2>2
<1>8. Len(r) \in Nat /\ r = [i \in 1..Len(r) |-> r[i]]
  BY ONLY <1>6
<1> QED BY <1>1, <1>6, <1>7, <1>8 DEF IsList

\* What moving one net to the outer edge does to the lanes.
Outer(T, n, B, x) ==
  IF x \in T THEN [t \in T |-> IF t = x THEN n - 1 ELSE IF B[x] < B[t] THEN B[t] - 1 ELSE B[t]] ELSE B

LEMMA OuterLanes ==
  ASSUME NEW T, NEW n, NEW B, IsLanes(T, n, B), NEW x, NEW C, C = Outer(T, n, B, x)
  PROVE  IsLanes(T, n, C)
<1>1. /\ n \in Nat /\ IsFiniteSet(T) /\ Cardinality(T) = n /\ T \subseteq Nat
      /\ B = [t \in T |-> B[t]] /\ DOMAIN B = T /\ \A t \in T : B[t] \in 0..(n - 1)
      /\ \A t, u \in T : B[t] = B[u] => t = u
      /\ \A v \in 0..(n - 1) : \E t \in T : B[t] = v
  BY DEF IsLanes
<1>2. CASE x \notin T
  BY <1>2 DEF Outer
<1>3. CASE x \in T
  <2>1. /\ DOMAIN C = T /\ C = [t \in T |-> C[t]]
        /\ C[x] = n - 1
        /\ \A t \in T : t # x => C[t] = IF B[x] < B[t] THEN B[t] - 1 ELSE B[t]
    BY <1>3 DEF Outer
  <2>2. \A t \in T : B[t] \in Int /\ 0 <= B[t] /\ B[t] < n /\ (t # x => B[t] # B[x])
    BY <1>1, <1>3
  <2>3. ASSUME NEW t \in T, t # x
        PROVE  /\ (B[t] < B[x] /\ C[t] = B[t]) \/ (B[x] < B[t] /\ C[t] = B[t] - 1)
               /\ C[t] \in Int /\ 0 <= C[t] /\ C[t] < n - 1
    <3>1. /\ B[t] \in Int /\ 0 <= B[t] /\ B[t] < n /\ B[t] # B[x]
          /\ B[x] \in Int /\ 0 <= B[x] /\ B[x] < n
          /\ C[t] = IF B[x] < B[t] THEN B[t] - 1 ELSE B[t]
      BY <1>3, <2>1, <2>2, <2>3
    <3> QED BY ONLY <1>1, <3>1
  <2>4. \A t \in T : C[t] \in 0..(n - 1)
    <3> TAKE t \in T
    <3>1. CASE t = x
      BY <1>1, <2>1, <2>2, <3>1
    <3>2. CASE t # x
      <4>1. C[t] \in Int /\ 0 <= C[t] /\ C[t] < n - 1
        BY <2>3, <3>2
      <4> QED BY ONLY <1>1, <4>1
    <3> QED BY <3>1, <3>2
  <2>5. ASSUME NEW t \in T, NEW u \in T, C[t] = C[u] PROVE t = u
    <3>1. CASE t = x \/ u = x
      <4>1. C[x] = n - 1 /\ \A v \in T : v # x => C[v] < n - 1 /\ C[v] \in Int
        BY <2>1, <2>3
      <4> QED BY <1>1, <2>5, <3>1, <4>1
    <3>2. CASE t # x /\ u # x
      <4>1. B[t] = B[u]
        <5>1. /\ (B[t] < B[x] /\ C[t] = B[t]) \/ (B[x] < B[t] /\ C[t] = B[t] - 1)
              /\ (B[u] < B[x] /\ C[u] = B[u]) \/ (B[x] < B[u] /\ C[u] = B[u] - 1)
          BY <2>3, <3>2
        <5>2. B[t] \in Int /\ B[u] \in Int /\ B[x] \in Int
          BY <1>3, <2>2
        <5> QED BY ONLY <2>5, <5>1, <5>2
      <4> QED BY <1>1, <4>1
    <3> QED BY <3>1, <3>2
  <2>6. ASSUME NEW v \in 0..(n - 1) PROVE \E t \in T : C[t] = v
    <3>1. v \in Int /\ 0 <= v /\ v <= n - 1 /\ B[x] \in Int
      BY <1>1, <1>3, <2>2
    <3>2. CASE v = n - 1
      BY <1>3, <2>1, <3>2
    <3>3. CASE v < B[x]
      <4>1. PICK t \in T : B[t] = v
        BY <1>1
      <4>2. t # x /\ ~(B[x] < B[t])
        BY <3>1, <3>3, <4>1
      <4>3. C[t] = B[t]
        BY <2>3, <4>2
      <4> QED BY <4>1, <4>3
    <3>4. CASE B[x] <= v /\ v < n - 1
      <4>1. v + 1 \in 0..(n - 1)
        BY <1>1, <3>1, <3>4
      <4>2. PICK t \in T : B[t] = v + 1
        BY <1>1, <4>1
      <4>3. B[x] < B[t]
        BY <3>1, <3>4, <4>2
      <4>4. t # x
        BY <3>1, <4>3
      <4>5. C[t] = (v + 1) - 1
        <5>1. (B[t] < B[x] /\ C[t] = B[t]) \/ (B[x] < B[t] /\ C[t] = B[t] - 1)
          BY <2>3, <4>4
        <5> QED BY ONLY <3>1, <4>2, <4>3, <5>1
      <4> QED BY <3>1, <4>5
    <3> QED BY <1>1, <3>1, <3>2, <3>3, <3>4
  <2> QED BY <1>1, <2>1, <2>4, <2>5, <2>6 DEF IsLanes
<1> QED BY <1>2, <1>3

\* The orders follow the lanes.
LEMMA OuterOrder ==
  ASSUME NEW T, NEW n, NEW B, IsLanes(T, n, B), NEW x
  PROVE  OrderOf(Outer(T, n, B, x)) = ToOuterEdge(OrderOf(B), x)
<1>1. PICK C, o, q : C = Outer(T, n, B, x) /\ o = OrderOf(B) /\ q = OrderOf(C)
  OBVIOUS
<1>2. /\ n \in Nat /\ Len(o) = n /\ o = [i \in 1..n |-> o[i]] /\ DOMAIN o = 1..n
      /\ \A i \in 1..n : o[i] \in T /\ B[o[i]] = i - 1
      /\ \A t \in T : \E i \in 1..n : o[i] = t
      /\ \A i, j \in 1..n : o[i] = o[j] => i = j
  <2>1. n \in Nat
    BY DEF IsLanes
  <2>2. o = OrderOf(B)
    BY <1>1
  <2> QED BY <2>1, <2>2, LanesInOrder
<1>3. IsLanes(T, n, C)
  BY <1>1, OuterLanes
<1>4. /\ Len(q) = n /\ q = [i \in 1..n |-> q[i]] /\ DOMAIN q = 1..n
      /\ \A i \in 1..n : q[i] \in T /\ C[q[i]] = i - 1
  BY <1>1, <1>3, LanesInOrder
<1>5. Range(o) = T
  BY <1>2 DEF Range
<1>6. CASE x \notin T
  <2>1. C = B
    BY <1>1, <1>6 DEF Outer
  <2> QED BY <1>1, <1>5, <1>6, <2>1 DEF ToOuterEdge
<1>7. CASE x \in T
  <2>1. PICK p : p = PlaceOf(o, x)
    OBVIOUS
  <2>2. p \in 1..n /\ o[p] = x
    <3>1. p = CHOOSE i \in 1..n : o[i] = x
      BY <1>2, <2>1 DEF PlaceOf
    <3>2. \E i \in 1..n : o[i] = x
      BY <1>2, <1>7
    <3> QED BY <3>1, <3>2
  <2>3. PICK r, s : r = RemoveAt(o, p) /\ s = Append(r, x)
    OBVIOUS
  <2>4. IsList(o)
    BY <1>2 DEF IsList
  <2>5. /\ IsList(r) /\ Len(r) = n - 1
        /\ \A i \in 1..(n - 1) : r[i] = IF i < p THEN o[i] ELSE o[i + 1]
    <3>1. /\ IsList(r) /\ Len(r) = Len(o) - 1
          /\ \A i \in 1..Len(r) : r[i] = IF i < p THEN o[i] ELSE o[i + 1]
      <4>1. p \in 1..Len(o) /\ r = RemoveAt(o, p)
        BY <1>2, <2>2, <2>3
      <4> QED BY ONLY <2>4, <4>1, Removed
    <3> QED BY <1>2, <3>1
  <2>6. /\ s = [i \in 1..n |-> s[i]]
        /\ \A i \in 1..(n - 1) : s[i] = r[i]
        /\ s[n] = x
    <3>1. /\ IsList(s) /\ Len(s) = Len(r) + 1
          /\ \A i \in 1..Len(r) : s[i] = r[i]
          /\ s[Len(r) + 1] = x
      BY <2>3, <2>5, ListedOnce
    <3>2. Len(s) = n /\ Len(r) + 1 = n /\ Len(r) = n - 1
      BY <1>2, <2>5, <3>1
    <3> QED BY <3>1, <3>2 DEF IsList
  <2>7. /\ C[x] = n - 1
        /\ \A t \in T : t # x => C[t] = IF B[x] < B[t] THEN B[t] - 1 ELSE B[t]
    BY <1>1, <1>7 DEF Outer
  <2>8. B[x] = p - 1
    BY <1>2, <2>2
  <2>9. ASSUME NEW i \in 1..n PROVE s[i] \in T /\ C[s[i]] = i - 1
    <3>1. CASE i = n
      BY <1>7, <2>6, <2>7, <3>1
    <3>2. CASE i # n /\ i < p
      <4>1. i \in 1..(n - 1)
        BY <1>2, <3>2
      <4>2. s[i] = o[i] /\ o[i] \in T /\ B[o[i]] = i - 1
        BY <1>2, <2>5, <2>6, <3>2, <4>1
      <4>3. o[i] # x
        BY <1>2, <2>2, <3>2
      <4>4. ~(B[x] < B[o[i]])
        BY <1>2, <2>2, <2>8, <3>2, <4>2
      <4> QED BY <2>7, <4>2, <4>3, <4>4
    <3>3. CASE i # n /\ ~(i < p)
      <4>1. i \in 1..(n - 1) /\ i + 1 \in 1..n
        BY <1>2, <3>3
      <4>2. s[i] = o[i + 1] /\ o[i + 1] \in T /\ B[o[i + 1]] = (i + 1) - 1
        BY <1>2, <2>5, <2>6, <3>3, <4>1
      <4>3. p # i + 1
        BY <1>2, <2>2, <3>3
      <4>4. o[i + 1] # x
        BY <1>2, <2>2, <4>1, <4>3
      <4>5. B[x] < B[o[i + 1]] /\ B[o[i + 1]] - 1 = i - 1
        BY <1>2, <2>2, <2>8, <3>3, <4>2
      <4> QED BY <2>7, <4>2, <4>4, <4>5
    <3> QED BY <3>1, <3>2, <3>3
  <2>10. \A t, u \in T : C[t] = C[u] => t = u
    BY <1>3 DEF IsLanes
  <2>11. \A i \in 1..n : q[i] = s[i]
    BY <1>4, <2>9, <2>10
  <2>12. q = s
    BY <1>4, <2>6, <2>11
  <2>13. ToOuterEdge(o, x) = s
    BY <1>5, <1>7, <2>1, <2>3 DEF ToOuterEdge
  <2> QED BY <1>1, <2>12, <2>13
<1> QED BY <1>6, <1>7

(* What has been moved after some of the nets, and where everything stands *)
(* then: what moved is right of what did not, and nothing else changed its *)
(* order.                                                                  *)
Here(T, nets, j) == {t \in T : \E i \in 1..j : nets[i] = t}
PlacedBefore(T, nets, place, j, t) == {u \in Here(T, nets, j) : place[u] < place[t]}
LeftBefore(T, nets, L, j, t) == {u \in Here(T, nets, j) : L[u] < L[t]}

MovedTo(T, n, L, nets, place, j, B) ==
  /\ IsLanes(T, n, B)
  /\ \A t \in T : \A u \in T : t \in Here(T, nets, j) /\ u \notin Here(T, nets, j) => B[u] < B[t]
  /\ \A t \in T : \A u \in T : t \notin Here(T, nets, j) /\ u \notin Here(T, nets, j) => (B[u] < B[t] <=> L[u] < L[t])
  /\ \A t \in Here(T, nets, j) :
       B[t] = n - Cardinality(Here(T, nets, j)) + Cardinality(PlacedBefore(T, nets, place, j, t))
  /\ \A t \in T : t \notin Here(T, nets, j) => B[t] = L[t] - Cardinality(LeftBefore(T, nets, L, j, t))

\* Nets are named once, and each is known by its place.
AreNamedOnce(nets, m, place) ==
  /\ m \in Nat
  /\ \A i, j \in 1..m : nets[i] = nets[j] => i = j
  /\ \A i \in 1..m : place[nets[i]] = i

LEMMA NoneMoved ==
  ASSUME NEW T, NEW n, NEW L, IsLanes(T, n, L), NEW nets, NEW place
  PROVE  MovedTo(T, n, L, nets, place, 0, L)
<1>1. Here(T, nets, 0) = {}
  BY DEF Here
<1>2. Cardinality({}) = 0
  BY FS_EmptySet
<1>3. \A t \in T : L[t] \in Int /\ LeftBefore(T, nets, L, 0, t) = {}
  BY <1>1 DEF IsLanes, LeftBefore
<1>4. \A t \in T : L[t] = L[t] - Cardinality(LeftBefore(T, nets, L, 0, t))
  BY <1>2, <1>3
<1> QED BY <1>1, <1>4 DEF MovedTo

LEMMA OneMoved ==
  ASSUME NEW T, NEW n, NEW L, IsLanes(T, n, L), NEW nets, NEW m, NEW place, AreNamedOnce(nets, m, place),
         NEW j \in 1..m, NEW B, MovedTo(T, n, L, nets, place, j - 1, B),
         NEW C, C = Outer(T, n, B, nets[j])
  PROVE  MovedTo(T, n, L, nets, place, j, C)
<1>1. PICK x, H, K : x = nets[j] /\ H = Here(T, nets, j - 1) /\ K = Here(T, nets, j)
  OBVIOUS
<1>2. /\ m \in Nat /\ j \in 1..m
      /\ \A i, k \in 1..m : nets[i] = nets[k] => i = k
      /\ \A i \in 1..m : place[nets[i]] = i
  BY DEF AreNamedOnce
<1>3. /\ n \in Nat /\ IsFiniteSet(T) /\ \A t \in T : B[t] \in 0..(n - 1)
      /\ \A t, u \in T : B[t] = B[u] => t = u
      /\ \A t, u \in T : L[t] = L[u] => t = u
      /\ \A t \in T : L[t] \in 0..(n - 1)
  BY DEF IsLanes, MovedTo
<1>4. /\ \A t \in T : \A u \in T : t \in H /\ u \notin H => B[u] < B[t]
      /\ \A t \in T : \A u \in T : t \notin H /\ u \notin H => (B[u] < B[t] <=> L[u] < L[t])
      /\ \A t \in H : B[t] = n - Cardinality(H) + Cardinality(PlacedBefore(T, nets, place, j - 1, t))
      /\ \A t \in T : t \notin H => B[t] = L[t] - Cardinality(LeftBefore(T, nets, L, j - 1, t))
  BY <1>1 DEF MovedTo
<1>5. IsLanes(T, n, C)
  BY <1>1, OuterLanes DEF MovedTo
<1>6. \A i : i \in 1..j <=> i \in 1..(j - 1) \/ i = j
  BY <1>2
<1>7. H \subseteq T /\ K = H \cup ({x} \cap T) /\ x \notin H
  <2>1. H \subseteq T
    BY <1>1 DEF Here
  <2>2. ASSUME NEW t PROVE t \in K <=> t \in H \/ (t = x /\ t \in T)
    BY <1>1, <1>6 DEF Here
  <2>3. ASSUME x \in H PROVE FALSE
    <3>1. PICK i \in 1..(j - 1) : nets[i] = x
      BY <1>1, <2>3 DEF Here
    <3>2. i \in 1..m /\ i # j
      BY <1>2
    <3> QED BY <1>1, <1>2, <3>1, <3>2
  <2> QED BY <2>1, <2>2, <2>3
<1>8. CASE x \notin T
  <2>1. C = B /\ K = H
    BY <1>1, <1>7, <1>8 DEF Outer
  <2>2. /\ \A t : PlacedBefore(T, nets, place, j, t) = PlacedBefore(T, nets, place, j - 1, t)
        /\ \A t : LeftBefore(T, nets, L, j, t) = LeftBefore(T, nets, L, j - 1, t)
    BY <1>1, <2>1 DEF PlacedBefore, LeftBefore
  <2> QED BY <1>1, <1>4, <1>5, <2>1, <2>2 DEF MovedTo
<1>9. CASE x \in T
  <2>1. K = H \cup {x} /\ x \notin H /\ x \in K /\ H \subseteq T
    BY <1>7, <1>9
  <2>2. /\ C[x] = n - 1
        /\ \A t \in T : t # x => C[t] = IF B[x] < B[t] THEN B[t] - 1 ELSE B[t]
    BY <1>1, <1>9 DEF Outer
  <2>3. ASSUME NEW t \in T, t # x
        PROVE  /\ (B[t] < B[x] /\ C[t] = B[t]) \/ (B[x] < B[t] /\ C[t] = B[t] - 1)
               /\ B[t] \in Int /\ B[x] \in Int /\ C[t] \in Int /\ C[t] < n - 1
    <3>1. /\ B[t] \in 0..(n - 1) /\ B[x] \in 0..(n - 1) /\ B[t] # B[x]
          /\ C[t] = IF B[x] < B[t] THEN B[t] - 1 ELSE B[t]
      BY <1>3, <1>9, <2>2, <2>3
    <3> QED BY ONLY <1>3, <3>1
  <2>4. IsFiniteSet(H) /\ Cardinality(H) \in Nat /\ Cardinality(K) = Cardinality(H) + 1
    <3>1. IsFiniteSet(H)
      BY ONLY <1>3, <2>1, FS_Subset
    <3> QED BY <2>1, <3>1, FS_AddElement, FS_CardinalityType
  <2>5. ASSUME NEW t \in T, NEW u \in T, t \in K, u \notin K PROVE C[u] < C[t]
    <3>1. u # x /\ u \notin H
      BY <2>1, <2>5
    <3>2. CASE t = x
      <4>1. C[u] < n - 1 /\ C[t] = n - 1
        BY <2>2, <2>3, <3>1, <3>2
      <4> QED BY <4>1
    <3>3. CASE t # x
      <4>1. t \in H
        BY <2>1, <2>5, <3>3
      <4>2. B[u] < B[t] /\ B[x] < B[t]
        BY <1>4, <1>9, <2>1, <3>1, <4>1
      <4>3. /\ (B[t] < B[x] /\ C[t] = B[t]) \/ (B[x] < B[t] /\ C[t] = B[t] - 1)
            /\ (B[u] < B[x] /\ C[u] = B[u]) \/ (B[x] < B[u] /\ C[u] = B[u] - 1)
            /\ B[t] \in Int /\ B[x] \in Int /\ B[u] \in Int
        BY <2>3, <3>1, <3>3
      <4> QED BY ONLY <4>2, <4>3
    <3> QED BY <3>2, <3>3
  <2>6. ASSUME NEW t \in T, NEW u \in T, t \notin K, u \notin K PROVE C[u] < C[t] <=> L[u] < L[t]
    <3>1. t # x /\ u # x /\ t \notin H /\ u \notin H
      BY <2>1, <2>6
    <3>2. B[u] < B[t] <=> L[u] < L[t]
      BY <1>4, <3>1
    <3>3. /\ (B[t] < B[x] /\ C[t] = B[t]) \/ (B[x] < B[t] /\ C[t] = B[t] - 1)
          /\ (B[u] < B[x] /\ C[u] = B[u]) \/ (B[x] < B[u] /\ C[u] = B[u] - 1)
          /\ B[t] \in Int /\ B[x] \in Int /\ B[u] \in Int
      BY <2>3, <3>1
    <3>4. C[u] < C[t] <=> B[u] < B[t]
      BY ONLY <3>3
    <3> QED BY ONLY <3>2, <3>4
  <2>7. ASSUME NEW t \in K
        PROVE  C[t] = n - Cardinality(K) + Cardinality(PlacedBefore(T, nets, place, j, t))
    <3>1. CASE t = x
      <4>1. \A u : u \in PlacedBefore(T, nets, place, j, t) <=> u \in H
        <5>1. ASSUME NEW u \in H PROVE place[u] < place[x]
          <6>1. PICK i \in 1..(j - 1) : nets[i] = u
            BY <1>1 DEF Here
          <6>2. i \in 1..m /\ i < j
            BY <1>2
          <6>3. place[u] = i /\ place[x] = j
            BY <1>1, <1>2, <6>1, <6>2
          <6> QED BY <6>2, <6>3
        <5>2. ~(place[x] < place[x])
          <6>1. place[x] = j
            BY <1>1, <1>2
          <6> QED BY <1>2, <6>1
        <5> QED BY <1>1, <2>1, <3>1, <5>1, <5>2 DEF PlacedBefore
      <4>2. PlacedBefore(T, nets, place, j, t) = H
        BY <4>1
      <4> QED BY <1>3, <2>2, <2>4, <3>1, <4>2
    <3>2. CASE t # x
      <4>1. t \in H /\ t \in T
        BY <2>1, <2>7, <3>2
      <4>2. \A u : u \in PlacedBefore(T, nets, place, j, t) <=> u \in PlacedBefore(T, nets, place, j - 1, t)
        <5>1. PICK i \in 1..(j - 1) : nets[i] = t
          BY <1>1, <4>1 DEF Here
        <5>2. i \in 1..m /\ i < j
          BY <1>2
        <5>3. place[t] = i /\ place[x] = j
          BY <1>1, <1>2, <5>1, <5>2
        <5>4. ~(place[x] < place[t])
          BY <1>2, <5>2, <5>3
        <5> QED BY <1>1, <2>1, <5>4 DEF PlacedBefore
      <4>3. PlacedBefore(T, nets, place, j, t) = PlacedBefore(T, nets, place, j - 1, t)
        BY <4>2
      <4>4. B[t] = n - Cardinality(H) + Cardinality(PlacedBefore(T, nets, place, j, t))
        BY <1>4, <4>1, <4>3
      <4>5. Cardinality(PlacedBefore(T, nets, place, j, t)) \in Nat
        <5>1. PlacedBefore(T, nets, place, j, t) \in SUBSET H
          BY <1>1, <4>3 DEF PlacedBefore
        <5>2. IsFiniteSet(PlacedBefore(T, nets, place, j, t))
          BY <2>4, <5>1, FS_Subset
        <5> QED BY <5>2, FS_CardinalityType
      <4>6. B[x] < B[t]
        BY <1>4, <1>9, <2>1, <4>1
      <4>7. /\ (B[t] < B[x] /\ C[t] = B[t]) \/ (B[x] < B[t] /\ C[t] = B[t] - 1)
            /\ B[t] \in Int /\ B[x] \in Int
        BY <2>3, <3>2, <4>1
      <4>8. C[t] = B[t] - 1
        BY ONLY <4>6, <4>7
      <4> QED BY ONLY <1>3, <2>4, <4>4, <4>5, <4>8
    <3> QED BY <3>1, <3>2
  <2>8. ASSUME NEW t \in T, t \notin K
        PROVE  C[t] = L[t] - Cardinality(LeftBefore(T, nets, L, j, t))
    <3>1. t # x /\ t \notin H
      BY <2>1, <2>8
    <3>2. PICK old, new : old = LeftBefore(T, nets, L, j - 1, t) /\ new = LeftBefore(T, nets, L, j, t)
      OBVIOUS
    <3>3. \A u : /\ u \in old <=> u \in H /\ L[u] < L[t]
                 /\ u \in new <=> u \in K /\ L[u] < L[t]
      BY <1>1, <3>2 DEF LeftBefore
    <3>4. B[t] = L[t] - Cardinality(old)
      BY <1>4, <3>1, <3>2
    <3>5. IsFiniteSet(old) /\ Cardinality(old) \in Nat
      <4>1. old \in SUBSET H
        BY <3>3
      <4>2. IsFiniteSet(old)
        BY <2>4, <4>1, FS_Subset
      <4> QED BY <4>2, FS_CardinalityType
    <3>6. B[x] < B[t] <=> L[x] < L[t]
      BY <1>4, <1>9, <2>1, <3>1
    <3>7. /\ (B[t] < B[x] /\ C[t] = B[t]) \/ (B[x] < B[t] /\ C[t] = B[t] - 1)
          /\ B[t] \in Int /\ B[x] \in Int
      BY <2>3, <3>1
    <3>8. L[t] \in Int
      BY <1>3
    <3>9. CASE L[x] < L[t]
      <4>1. new = old \cup {x} /\ x \notin old
        BY <2>1, <3>3, <3>9
      <4>2. Cardinality(new) = Cardinality(old) + 1
        BY <3>5, <4>1, FS_AddElement
      <4> QED BY ONLY <3>2, <3>4, <3>5, <3>6, <3>7, <3>8, <3>9, <4>2
    <3>10. CASE ~(L[x] < L[t])
      <4>1. \A u : u \in new <=> u \in old
        BY <2>1, <3>3, <3>10
      <4>2. new = old
        BY <4>1
      <4> QED BY ONLY <3>2, <3>4, <3>5, <3>6, <3>7, <3>8, <3>10, <4>2
    <3> QED BY <3>9, <3>10
  <2> QED BY <1>1, <1>5, <2>5, <2>6, <2>7, <2>8 DEF MovedTo
<1> QED BY <1>8, <1>9

\* What a gap is when nets have been moved in it one after another.
TurnedTo(T, n, L, nets, B) ==
  /\ OrderOf(B) = InTurn(OrderOf(L), nets)
  /\ Len(nets) >= 1 /\ nets[Len(nets)] \in T => B[nets[Len(nets)]] = n - 1

LEMMA TurnsAgree ==
  ASSUME NEW T, NEW n, NEW L, IsLanes(T, n, L), NEW nets, NEW m, Len(nets) = m,
         NEW place, AreNamedOnce(nets, m, place)
  PROVE  \E B : MovedTo(T, n, L, nets, place, m, B) /\ TurnedTo(T, n, L, nets, B)
<1>1. PICK V, apply : /\ V = [T -> Int]
                      /\ apply = [p \in (1..m) \X V |-> Outer(T, n, p[2], nets[p[1]])]
  OBVIOUS
<1>2. /\ m \in Nat /\ n \in Nat
      /\ L \in V
  BY <1>1 DEF AreNamedOnce, IsLanes
<1>3. \A i \in 1..m : \A v \in V : apply[<<i, v>>] = Outer(T, n, v, nets[i]) /\ apply[<<i, v>>] \in V
  <2> TAKE i \in 1..m
  <2> TAKE v \in V
  <2>1. apply[<<i, v>>] = Outer(T, n, v, nets[i])
    BY <1>1
  <2>2. Outer(T, n, v, nets[i]) \in V
    BY <1>1, <1>2 DEF Outer
  <2> QED BY <2>1, <2>2
<1>4. PICK h \in [0..m -> V] : h[0] = L /\ \A i \in 1..m : h[i] = apply[<<i, h[i - 1]>>]
  <2>1. StagesFrom(m, V, L, apply) # {}
    BY ONLY <1>2, <1>3, StagesExist
  <2> QED BY <2>1 DEF StagesFrom
<1>5. ASSUME NEW i \in 1..m PROVE h[i] = Outer(T, n, h[i - 1], nets[i])
  <2>1. i - 1 \in 0..m
    BY <1>2
  <2>2. h[i - 1] \in V
    BY <1>4, <2>1
  <2> QED BY <1>3, <1>4, <2>2
<1>6. PICK Good : Good = {k \in Nat : k <= m => MovedTo(T, n, L, nets, place, k, h[k])}
  OBVIOUS
<1>7. 0 \in Good
  BY <1>4, <1>6, NoneMoved
<1>8. ASSUME NEW k \in Nat, k \in Good PROVE k + 1 \in Good
  <2>1. CASE k + 1 <= m
    <3>1. k + 1 \in 1..m /\ (k + 1) - 1 = k /\ k <= m
      BY <1>2, <2>1
    <3>2. MovedTo(T, n, L, nets, place, (k + 1) - 1, h[k]) /\ h[k + 1] = Outer(T, n, h[k], nets[k + 1])
      BY <1>5, <1>6, <1>8, <3>1
    <3>3. MovedTo(T, n, L, nets, place, k + 1, h[k + 1])
      BY ONLY IsLanes(T, n, L), AreNamedOnce(nets, m, place), <3>1, <3>2, OneMoved
    <3> QED BY <1>6, <3>3
  <2>2. CASE ~ (k + 1 <= m)
    BY <1>6, <2>2
  <2> QED BY <2>1, <2>2
<1>9. \A k \in Nat : k \in Good
  BY <1>7, <1>8, CountingUp
<1>10. \A k \in 0..m : MovedTo(T, n, L, nets, place, k, h[k])
  BY <1>2, <1>6, <1>9
<1>11. PICK f : f = [i \in 0..m |-> OrderOf(h[i])]
  OBVIOUS
<1>12. f[0] = OrderOf(L) /\ \A i \in 1..m : f[i] = ToOuterEdge(f[i - 1], nets[i])
  <2>1. 0 \in 0..m /\ \A i \in 1..m : i \in 0..m /\ i - 1 \in 0..m
    BY <1>2
  <2>2. ASSUME NEW i \in 1..m PROVE f[i] = ToOuterEdge(f[i - 1], nets[i])
    <3>1. IsLanes(T, n, h[i - 1])
      BY <1>10, <2>1 DEF MovedTo
    <3>2. OrderOf(h[i]) = ToOuterEdge(OrderOf(h[i - 1]), nets[i])
      BY <1>5, <3>1, OuterOrder
    <3> QED BY <1>11, <2>1, <3>2
  <2> QED BY <1>4, <1>11, <2>1, <2>2
<1>13. f = [i \in 0..m |-> IF i = 0 THEN OrderOf(L) ELSE ToOuterEdge(f[i - 1], nets[i])]
  <2>1. \A i \in 0..m : i = 0 \/ i \in 1..m
    BY <1>2
  <2> QED BY <1>11, <1>12, <2>1
<1>14. PICK after : /\ after = [i \in 0..m |-> IF i = 0 THEN OrderOf(L) ELSE ToOuterEdge(after[i - 1], nets[i])]
                    /\ InTurn(OrderOf(L), nets) = after[m]
  <2>1. PICK after : after = CHOOSE g : g = [i \in 0..m |-> IF i = 0 THEN OrderOf(L) ELSE ToOuterEdge(g[i - 1], nets[i])]
    OBVIOUS
  <2>2. after = [i \in 0..m |-> IF i = 0 THEN OrderOf(L) ELSE ToOuterEdge(after[i - 1], nets[i])]
    BY <1>13, <2>1
  <2>3. InTurn(OrderOf(L), nets) = after[m]
    BY <2>1 DEF InTurn
  <2> QED BY <2>2, <2>3
<1>15. after[m] = f[m]
  <2>1. after[0] = f[0] /\ \A i \in 1..m : after[i - 1] = f[i - 1] => after[i] = f[i]
    <3>1. 0 \in 0..m /\ \A i \in 1..m : i \in 0..m /\ i # 0
      BY <1>2
    <3> QED BY <1>12, <1>14, <3>1
  <2>2. MadeAlike(m, after, f)
    BY ONLY <2>1 DEF MadeAlike
  <2>3. Alike(m, after, f)
    BY ONLY <1>2, <2>2, StagesAgree
  <2>4. m \in 0..m
    BY <1>2
  <2> QED BY <2>3, <2>4 DEF Alike
<1>16. m \in 0..m /\ f[m] = OrderOf(h[m])
  BY <1>2, <1>11
<1>17. ASSUME m >= 1, nets[m] \in T PROVE h[m][nets[m]] = n - 1
  <2>1. m \in 1..m
    BY <1>2, <1>17
  <2>2. h[m] = Outer(T, n, h[m - 1], nets[m])
    BY <1>5, <2>1
  <2> QED BY <1>17, <2>2 DEF Outer
<1>18. TurnedTo(T, n, L, nets, h[m])
  BY <1>14, <1>15, <1>16, <1>17 DEF TurnedTo
<1> QED BY <1>10, <1>16, <1>18

\* The nets of a repair are different ones that can move.
LEMMA RepairNetsMove ==
  ASSUME problem \in Problems, problem.job = "repair", NEW nets, nets = RepairNets
  PROVE  /\ IsList(nets)
         /\ \A i, j \in 1..Len(nets) : nets[i] = nets[j] => i = j
         /\ \A i \in 1..Len(nets) : Movable(nets[i])
<1>1. /\ IsFiniteSet(DOMAIN problem.crossings) /\ DOMAIN problem.crossings \subseteq Nat
      /\ problem.crossings \in [DOMAIN problem.crossings -> Nat] /\ problem.limit \in Nat
  BY ProblemsAssumption DEF IsProblem
<1>2. PICK S : S = {n \in DOMAIN problem.crossings : problem.crossings[n] >= MinRepairNet /\ Movable(n)}
  OBVIOUS
<1>3. PICK key : key = [n \in S |-> <<0 - problem.crossings[n], n>>]
  OBVIOUS
<1>4. /\ DOMAIN key = S /\ \A n \in S : Movable(n)
      /\ \A n \in S : /\ Len(key[n]) = 2 /\ key[n] = <<key[n][1], key[n][2]>>
                      /\ key[n][1] \in Int /\ key[n][2] \in Int /\ key[n][2] = n
  BY <1>1, <1>2, <1>3
<1>5. IsFiniteSet(S)
  <2>1. S \in SUBSET (DOMAIN problem.crossings)
    BY <1>2
  <2> QED BY <1>1, <2>1, FS_Subset
<1>6. StrictlyOrders(LexPairs(key), DOMAIN key)
  <2>1. ASSUME NEW x \in DOMAIN key, NEW y \in DOMAIN key, key[x] = key[y] PROVE x = y
    <3>1. key[x][2] = x /\ key[y][2] = y
      BY <1>4
    <3> QED BY <2>1, <3>1
  <2> QED BY <1>4, <2>1, TwosOrder
<1>7. PICK all, n : all = ByKey(key) /\ n = Cardinality(S)
  OBVIOUS
<1>8. /\ n \in Nat /\ Len(all) = n /\ all = [i \in 1..n |-> all[i]]
      /\ \A i \in 1..n : all[i] \in S
      /\ \A i, j \in 1..n : all[i] = all[j] => i = j
  <2>1. IsByKey(key, ByKey(key))
    BY <1>4, <1>5, <1>6, ListedByKey
  <2> QED BY <1>4, <1>7, <2>1 DEF IsByKey
<1>9. PICK c : c = Least(problem.limit, n)
  OBVIOUS
<1>10. c \in Nat /\ c <= n
  BY <1>1, <1>8, <1>9 DEF Least
<1>11. nets = <<>> \/ nets = SubSeq(all, 1, c)
  <2>1. CASE problem.total < MinRepairTotal
    BY <2>1 DEF RepairNets
  <2>2. CASE ~(problem.total < MinRepairTotal)
    <3>1. nets = SubSeq(ByKey(key), 1, Least(problem.limit, Len(ByKey(key))))
      BY <1>2, <1>3, <2>2 DEF RepairNets
    <3> QED BY <1>7, <1>8, <1>9, <3>1
  <2> QED BY <2>1, <2>2
<1>12. CASE nets = <<>>
  <2>1. Len(nets) = 0 /\ nets = [i \in 1..0 |-> nets[i]] /\ 1..0 = {}
    BY <1>12
  <2> QED BY <2>1 DEF IsList
<1>13. CASE nets = SubSeq(all, 1, c)
  <2>1. /\ nets \in Seq(S) /\ Len(nets) = c
        /\ \A i \in 1..c : nets[i] = all[i] /\ i \in 1..n
    <3>1. 1 \in Int /\ c \in Int /\ \A i \in 1..c : i \in 1..n /\ all[i] \in S
      BY <1>8, <1>10
    <3>2. \A i \in 1..c : all[i] \in S
      BY <3>1
    <3>3. /\ nets \in Seq(S) /\ Len(nets) = IF 1 <= c THEN c - 1 + 1 ELSE 0
          /\ \A i \in 1..(c - 1 + 1) : nets[i] = all[1 + i - 1]
      <4>1. 1 \in Int /\ c \in Int
        BY <1>10
      <4>2. PICK s : s = SubSeq(all, 1, c)
        OBVIOUS
      <4>3. /\ s \in Seq(S) /\ Len(s) = IF 1 <= c THEN c - 1 + 1 ELSE 0
            /\ \A i \in 1..(c - 1 + 1) : s[i] = all[1 + i - 1]
        BY ONLY <3>2, <4>1, <4>2, SubSeqProperties
      <4>4. s = nets
        BY <1>13, <4>2
      <4> QED BY <4>3, <4>4
    <3>4. c - 1 + 1 = c /\ \A i \in 1..c : 1 + i - 1 = i
      BY <1>10
    <3> QED BY <1>10, <3>1, <3>3, <3>4
  <2>2. nets = [i \in 1..Len(nets) |-> nets[i]] /\ Len(nets) \in Nat
    BY <1>10, <2>1
  <2>3. ASSUME NEW i \in 1..Len(nets), NEW j \in 1..Len(nets), nets[i] = nets[j] PROVE i = j
    <3>1. i \in 1..c /\ j \in 1..c
      BY <2>1
    <3>2. /\ nets[i] = all[i] /\ i \in 1..n
          /\ nets[j] = all[j] /\ j \in 1..n
      BY <2>1, <3>1
    <3>3. all[i] = all[j]
      BY ONLY <2>3, <3>2
    <3> QED BY ONLY <1>8, <3>2, <3>3
  <2>4. ASSUME NEW i \in 1..Len(nets) PROVE Movable(nets[i])
    <3>1. i \in 1..c
      BY <2>1
    <3>2. nets[i] = all[i] /\ i \in 1..n
      BY <2>1, <3>1
    <3>3. all[i] \in S
      BY <1>8, <3>2
    <3> QED BY <1>4, <3>2, <3>3
  <2>5. IsList(nets)
    BY <2>2 DEF IsList
  <2> QED BY <2>3, <2>4, <2>5
<1> QED BY <1>11, <1>12, <1>13
(* What a repair makes of the lanes of a gap is what the moves make of     *)
(* them, one after another.                                                *)
LEMMA GapIsMoved ==
  ASSUME problem \in Problems, problem.job = "repair", NEW nets, nets = RepairNets,
         NEW k \in DOMAIN problem.gaps, NEW L, L = problem.gaps[k].lanes, NEW T, T = DOMAIN L
  PROVE  /\ MovedLanes(nets)[k] \in [T -> Int]
         /\ TurnedTo(T, Cardinality(T), L, nets, MovedLanes(nets)[k])
<1>1. PICK n, m : n = Cardinality(T) /\ m = Len(nets)
  OBVIOUS
<1>2. /\ T \subseteq Nat /\ IsFiniteSet(T) /\ L \in [T -> Nat]
      /\ IsInjective(L) /\ Range(L) = 0..(n - 1)
  <2>1. IsProblem(problem)
    BY ProblemsAssumption
  <2>2. IsGap(Nat, problem.gaps[k]) /\ IsInjective(L) /\ Range(L) = 0..(n - 1)
    BY <1>1, <2>1 DEF IsProblem
  <2> QED BY <2>2 DEF IsGap
<1>3. IsLanes(T, n, L)
  <2>1. n \in Nat
    BY <1>1, <1>2, FS_CardinalityType
  <2>2. \A t \in T : L[t] \in 0..(n - 1)
    BY <1>2 DEF Range
  <2>3. \A v \in 0..(n - 1) : \E t \in T : L[t] = v
    BY <1>2 DEF Range
  <2>4. \A t, u \in T : L[t] = L[u] => t = u
    BY <1>2 DEF IsInjective
  <2> QED BY <1>1, <1>2, <2>1, <2>2, <2>3, <2>4 DEF IsLanes
<1>4. /\ m \in Nat /\ DOMAIN nets = 1..m
      /\ \A i, j \in 1..m : nets[i] = nets[j] => i = j
  <2>1. /\ IsList(nets)
        /\ \A i, j \in 1..Len(nets) : nets[i] = nets[j] => i = j
    BY RepairNetsMove
  <2> QED BY <1>1, <2>1 DEF IsList
<1>5. PICK place : place = [u \in Range(nets) |-> PlaceOf(nets, u)]
  OBVIOUS
<1>6. \A i \in 1..m : place[nets[i]] = i /\ nets[i] \in Range(nets)
  <2> TAKE i \in 1..m
  <2>1. nets[i] \in Range(nets)
    BY <1>4 DEF Range
  <2>2. PlaceOf(nets, nets[i]) \in 1..m /\ nets[PlaceOf(nets, nets[i])] = nets[i]
    BY <1>4 DEF PlaceOf
  <2>3. PlaceOf(nets, nets[i]) = i
    BY <1>4, <2>2
  <2> QED BY <1>5, <2>1, <2>3
<1>7. AreNamedOnce(nets, m, place)
  BY <1>4, <1>6 DEF AreNamedOnce
<1>8. PICK B : MovedTo(T, n, L, nets, place, m, B) /\ TurnedTo(T, n, L, nets, B)
  <2>1. Len(nets) = m
    BY <1>1
  <2> QED BY ONLY <2>1, <1>3, <1>7, TurnsAgree
<1>9. PICK H : H = Range(nets) \cap T
  OBVIOUS
<1>10. Here(T, nets, m) = H
  BY <1>4, <1>9 DEF Here, Range
<1>11. ASSUME NEW t \in T PROVE MovedLane(L, nets, t) = B[t]
  <2>1. CASE t \in H
    <3>1. MovedLane(L, nets, t) = n - Cardinality(H)
             + Cardinality({u \in H : PlaceOf(nets, u) < PlaceOf(nets, t)})
      BY <1>1, <1>9, <2>1 DEF MovedLane
    <3>2. \A u \in H : place[u] = PlaceOf(nets, u)
      BY <1>5, <1>9
    <3>3. PlacedBefore(T, nets, place, m, t) = {u \in H : PlaceOf(nets, u) < PlaceOf(nets, t)}
      BY <1>10, <2>1, <3>2 DEF PlacedBefore
    <3>4. B[t] = n - Cardinality(H) + Cardinality(PlacedBefore(T, nets, place, m, t))
      BY <1>8, <1>10, <2>1 DEF MovedTo
    <3> QED BY <3>1, <3>3, <3>4
  <2>2. CASE t \notin H
    <3>1. MovedLane(L, nets, t) = L[t] - Cardinality({u \in H : L[u] < L[t]})
      BY <1>9, <2>2 DEF MovedLane
    <3>2. LeftBefore(T, nets, L, m, t) = {u \in H : L[u] < L[t]}
      BY <1>10 DEF LeftBefore
    <3>3. B[t] = L[t] - Cardinality(LeftBefore(T, nets, L, m, t))
      BY <1>8, <1>10, <2>2 DEF MovedTo
    <3> QED BY <3>1, <3>2, <3>3
  <2> QED BY <2>1, <2>2
<1>12. IsLanes(T, n, B)
  BY <1>8 DEF MovedTo
<1>13. B = MovedLanes(nets)[k]
  <2>1. MovedLanes(nets)[k] = [t \in T |-> MovedLane(L, nets, t)]
    BY DEF MovedLanes
  <2>2. B = [t \in T |-> B[t]]
    BY <1>12 DEF IsLanes
  <2> QED BY <1>11, <2>1, <2>2
<1>14. B \in [T -> Int]
  <2>1. B = [t \in T |-> B[t]] /\ n \in Nat /\ \A t \in T : B[t] \in 0..(n - 1)
    BY <1>12 DEF IsLanes
  <2>2. \A t \in T : B[t] \in Int
    BY <2>1
  <2> QED BY <2>1, <2>2
<1> QED BY <1>1, <1>8, <1>13, <1>14

\* A repair that has nets to move changes the lanes of a gap.
LEMMA RepairMoves ==
  ASSUME problem \in Problems, problem.job = "repair", outcome = None, MoveForRepair
  PROVE  MovedInTurn'
<1>1. PICK nets : nets = RepairNets
  OBVIOUS
<1>2. PICK moved : moved = MovedLanes(nets)
  OBVIOUS
<1>3. /\ outcome' = [nets |-> nets,
                     lanes |-> IF \A k \in DOMAIN problem.gaps : moved[k] = problem.gaps[k].lanes
                               THEN None ELSE moved]
      /\ problem' = problem
  BY <1>1, <1>2 DEF MoveForRepair
<1>4. ASSUME NEW k \in DOMAIN problem.gaps
      PROVE  /\ moved[k] \in [DOMAIN problem.gaps[k].lanes -> Int]
             /\ TurnedTo(DOMAIN problem.gaps[k].lanes, Size(problem.gaps[k]),
                         problem.gaps[k].lanes, nets, moved[k])
  <2>1. PICK L, T : L = problem.gaps[k].lanes /\ T = DOMAIN L
    OBVIOUS
  <2>2. /\ MovedLanes(nets)[k] \in [T -> Int]
        /\ TurnedTo(T, Cardinality(T), L, nets, MovedLanes(nets)[k])
    BY <1>1, <2>1, GapIsMoved
  <2> QED BY <1>2, <2>1, <2>2 DEF Size
<1>5. moved # None
  <2>1. moved = [k \in DOMAIN problem.gaps |-> moved[k]]
    BY <1>2 DEF MovedLanes
  <2>2. moved \in LanesOf(problem)
    BY <1>4, <2>1 DEF LanesOf
  <2>3. None \notin LanesOf(problem)
    <3>1. IsProblem(problem)
      BY ProblemsAssumption
    <3> QED BY <3>1 DEF IsProblem
  <2> QED BY <2>2, <2>3
<1>6. /\ outcome'.nets = nets
      /\ outcome'.lanes = IF \A k \in DOMAIN problem.gaps : moved[k] = problem.gaps[k].lanes
                          THEN None ELSE moved
  BY <1>3
<1>7. ASSUME nets # <<>> PROVE outcome'.lanes # None
  <2>1. IsList(nets) /\ \A i \in 1..Len(nets) : Movable(nets[i])
    BY <1>1, RepairNetsMove
  <2>2. Len(nets) >= 1
    <3>1. CASE Len(nets) = 0
      <4>1. nets = [i \in 1..0 |-> nets[i]] /\ 1..0 = {}
        BY <2>1, <3>1 DEF IsList
      <4>2. nets = <<>>
        BY <4>1
      <4> QED BY <1>7, <4>2
    <3> QED BY <2>1, <3>1 DEF IsList
  <2>3. PICK last : last = nets[Len(nets)]
    OBVIOUS
  <2>4. Movable(last)
    BY <2>1, <2>2, <2>3 DEF IsList
  <2>5. PICK k \in DOMAIN problem.gaps :
           /\ last \in DOMAIN problem.gaps[k].lanes
           /\ problem.gaps[k].lanes[last] + 1 < Size(problem.gaps[k])
    BY <2>4 DEF Movable
  <2>6. moved[k][last] = Size(problem.gaps[k]) - 1
    <3>1. TurnedTo(DOMAIN problem.gaps[k].lanes, Size(problem.gaps[k]),
                   problem.gaps[k].lanes, nets, moved[k])
      BY <1>4
    <3> QED BY <2>2, <2>3, <2>5, <3>1 DEF TurnedTo
  <2>7. problem.gaps[k].lanes[last] \in Nat /\ Size(problem.gaps[k]) \in Nat
    <3>1. IsProblem(problem)
      BY ProblemsAssumption
    <3>2. IsGap(Nat, problem.gaps[k])
      BY <3>1 DEF IsProblem
    <3> QED BY <2>5, <3>2, FS_CardinalityType DEF IsGap, Size
  <2>8. moved[k][last] # problem.gaps[k].lanes[last]
    BY ONLY <2>5, <2>6, <2>7
  <2> QED BY <1>5, <1>6, <2>8
<1>8. ASSUME outcome'.lanes # None, NEW k \in DOMAIN problem.gaps
      PROVE  OrderOf(outcome'.lanes[k]) = InTurn(OrderOf(problem.gaps[k].lanes), outcome'.nets)
  <2>1. outcome'.lanes = moved
    BY <1>6, <1>8
  <2> QED BY <1>4, <1>6, <2>1 DEF TurnedTo
<1>9. problem' = problem /\ problem'.job = "repair"
  BY <1>3
<1> QED BY <1>6, <1>7, <1>8, <1>9 DEF MovedInTurn

\* Every step keeps what is said of a repair.
LEMMA RepairSteps ==
  ASSUME problem \in Problems, MovedInTurn, [LaneNext]_laneVars
  PROVE  MovedInTurn'
<1>1. problem' = problem
  BY ProblemStays
<1>2. CASE problem.job # "repair"
  BY <1>1, <1>2 DEF MovedInTurn
<1>3. CASE outcome' = outcome
  BY <1>1, <1>3 DEF MovedInTurn
<1>4. CASE problem.job = "repair" /\ outcome' # outcome
  <2>1. CASE UNCHANGED laneVars
    BY <1>4, <2>1 DEF laneVars
  <2>2. CASE MoveForRepair
    <3>1. outcome = None
      BY <2>2 DEF MoveForRepair
    <3> QED BY <1>4, <2>2, <3>1, RepairMoves
  <2>3. CASE Admit \/ EnterGap \/ Descend \/ KeepLocal \/ SeedSmallGap \/ OrderSmallGap
    BY <1>4, <2>3 DEF Admit, EnterGap, Descend, KeepLocal, SeedSmallGap, OrderSmallGap, Step, Ordered
  <2>4. CASE StartInsertion \/ InsertNet \/ OrderLargeGap \/ PassGlobal \/ PassHalf
    BY <1>4, <2>4 DEF StartInsertion, InsertNet, OrderLargeGap, PassGlobal, PassHalf, Step, Ordered
  <2>5. CASE RepeatRound \/ PassPreserved \/ RefineFurther \/ RefineLargeGap
    BY <1>4, <2>5 DEF RepeatRound, PassPreserved, RefineFurther, RefineLargeGap, Step, Ordered
  <2>6. CASE OfferOrders
    BY <1>4, <2>6 DEF OfferOrders
  <2>7. CASE EnterPitchGap \/ ColourTrack \/ SlotGap \/ LeaveGap \/ OfferTracks
    BY <1>4, <2>7 DEF EnterPitchGap, ColourTrack, SlotGap, LeaveGap, OfferTracks, Working
  <2>8. CASE LanesDone
    BY <1>4, <2>8 DEF LanesDone, laneVars
  <2> QED BY <2>1, <2>2, <2>3, <2>4, <2>5, <2>6, <2>7, <2>8 DEF LaneNext
<1> QED BY <1>2, <1>3, <1>4

(* Tracks that meet are given different slots, the tracks of one wire stand *)
(* in the order of its lanes, and the lanes after a repair are those of     *)
(* moving its nets to the outer edge one after another, for every problem   *)
(* and every limit (pitched_gap_track_assignment, move_nets_to_outer_lanes).*)
THEOREM LanesServeNets == LaneSpec => []LanesServeTheirNets
<1> DEFINE Inv == problem \in Problems /\ PitchInv /\ MovedInTurn
<1>1. LaneInit => Inv
  <2> SUFFICES ASSUME LaneInit PROVE Inv
    OBVIOUS
  <2>1. /\ problem \in Problems /\ gap = 1 /\ work = None /\ ordered = <<>> /\ outcome = None
    BY DEF LaneInit
  <2>2. Len(problem.gaps) \in Nat
    <3>1. IsProblem(problem)
      BY <2>1, ProblemsAssumption
    <3> QED BY <3>1 DEF IsProblem
  <2>3. IsList(ordered) /\ Len(ordered) = 0
    <3>1. Len(ordered) = 0 /\ ordered = [i \in 1..0 |-> ordered[i]] /\ 1..0 = {}
      BY <2>1
    <3> QED BY <3>1 DEF IsList
  <2>4. PitchInv
    BY <2>1, <2>2, <2>3 DEF PitchInv
  <2>5. MovedInTurn
    BY <2>1 DEF MovedInTurn
  <2> QED BY <2>1, <2>4, <2>5
<1>2. Inv /\ [LaneNext]_laneVars => Inv'
  <2> SUFFICES ASSUME Inv, [LaneNext]_laneVars PROVE Inv'
    OBVIOUS
  <2>1. problem' \in Problems
    BY ProblemStays
  <2>2. PitchInv'
    BY PitchSteps
  <2>3. MovedInTurn'
    BY RepairSteps
  <2> QED BY <2>1, <2>2, <2>3
<1>3. Inv => LanesServeTheirNets
  BY PitchShows DEF LanesServeTheirNets
<1> QED BY <1>1, <1>2, <1>3, PTL DEF LaneSpec

-----------------------------------------------------------------------------
(* The cost of an order.                                                   *)

\* Two neighbours of a list change, the others stay.
TwoChange(n, f, g, i, d) ==
  /\ n \in Nat /\ d \in Int /\ i \in 1..n /\ i + 1 \in 1..n
  /\ \A k \in 1..n : f[k] \in Int /\ g[k] \in Int
  /\ \A k \in 1..n : k = i \/ k = i + 1 \/ g[k] = f[k]
  /\ g[i] + g[i + 1] = (f[i] + f[i + 1]) + d
TotalChanges(n, f, g, d) == Total([k \in 1..n |-> g[k]]) = Total([k \in 1..n |-> f[k]]) + d

LEMMA TwoPlaces ==
  ASSUME NEW n, NEW f, NEW g, NEW i, NEW d, TwoChange(n, f, g, i, d)
  PROVE  TotalChanges(n, f, g, d)
<1>0. /\ n \in Nat /\ d \in Int /\ i \in 1..n /\ i + 1 \in 1..n
      /\ \A k \in 1..n : f[k] \in Int /\ g[k] \in Int
      /\ \A k \in 1..n : k = i \/ k = i + 1 \/ g[k] = f[k]
      /\ g[i] + g[i + 1] = (f[i] + f[i + 1]) + d
  BY DEF TwoChange
<1>1. PICK h : Sums(n, f, h)
  BY <1>0, SumsExist
<1>2. PICK e : e = [k \in 0..n |-> IF k < i THEN h[k] ELSE IF k = i THEN h[i - 1] + g[i] ELSE h[k] + d]
  BY <1>0
<1>3. h \in [0..n -> Int] /\ h[0] = 0 /\ \A k \in 1..n : h[k] = h[k - 1] + f[k]
  BY <1>0, <1>1 DEF Sums
<1>4. e \in [0..n -> Int] /\ e[0] = 0
  <2>1. i - 1 \in 0..n /\ g[i] \in Int /\ 0 < i /\ 0 \in 0..n
    BY <1>0
  <2>2. h[i - 1] + g[i] \in Int /\ \A k \in 0..n : h[k] \in Int /\ h[k] + d \in Int
    <3>1. \A k \in 0..n : h[k] \in Int
      BY <1>0, <1>3
    <3> QED BY <1>0, <2>1, <3>1
  <2>3. \A k \in 0..n : e[k] \in Int
    BY <1>0, <1>2, <2>2
  <2>4. e \in [0..n -> Int]
    BY <1>0, <1>2, <2>3
  <2> QED BY <1>0, <1>2, <1>3, <2>1, <2>4
<1>5. ASSUME NEW k \in 1..n PROVE e[k] = e[k - 1] + g[k]
  <2>1. /\ k - 1 \in 0..n /\ k \in 0..n /\ i - 1 \in 0..n /\ i \in 0..n /\ i - 1 < i
        /\ i + 1 \in 0..n /\ (i + 1) - 1 = i
    BY <1>0
  <2>2. /\ h[k] = h[k - 1] + f[k] /\ h[k] \in Int /\ h[k - 1] \in Int /\ f[k] \in Int /\ g[k] \in Int
        /\ h[i - 1] \in Int /\ g[i] \in Int /\ f[i] \in Int /\ g[i + 1] \in Int /\ f[i + 1] \in Int
        /\ h[i] = h[i - 1] + f[i] /\ h[i + 1] = h[i] + f[i + 1] /\ h[i] \in Int /\ h[i + 1] \in Int
    BY <1>0, <1>3, <2>1
  <2>3. CASE k < i
    <3>1. k - 1 < i /\ g[k] = f[k]
      BY <1>0, <2>3
    <3> QED BY <1>0, <1>2, <2>1, <2>2, <2>3, <3>1
  <2>4. CASE k = i
    <3>1. e[k - 1] = h[i - 1] /\ e[k] = h[i - 1] + g[i]
      BY <1>0, <1>2, <2>1, <2>4
    <3> QED BY <1>0, <2>4, <3>1
  <2>5. CASE k = i + 1
    <3>1. e[k - 1] = h[i - 1] + g[i] /\ e[k] = h[i + 1] + d
      BY <1>0, <1>2, <2>1, <2>5
    <3> QED BY ONLY <1>0, <2>2, <2>5, <3>1
  <2>6. CASE k > i + 1
    <3>1. ~ (k - 1 < i) /\ k - 1 # i /\ ~ (k < i) /\ k # i /\ k # i + 1
      BY <1>0, <2>6
    <3>2. g[k] = f[k] /\ e[k] = h[k] + d /\ e[k - 1] = h[k - 1] + d
      BY <1>0, <1>2, <2>1, <3>1
    <3> QED BY ONLY <1>0, <2>2, <3>2
  <2>7. k < i \/ k = i \/ k = i + 1 \/ k > i + 1
    BY <1>0
  <2> QED BY <1>0, <2>3, <2>4, <2>5, <2>6, <2>7
<1>6. Sums(n, g, e)
  BY <1>0, <1>4, <1>5 DEF Sums
<1>7. n \in 0..n /\ e[n] = h[n] + d
  <2>1. n \in 0..n /\ ~ (n < i) /\ n # i
    BY <1>0
  <2> QED BY <1>0, <1>2, <2>1
<1>8. Total([k \in 1..n |-> f[k]]) = h[n]
  BY ONLY <1>0, <1>1, <1>7, PrefixTotals
<1>9. Total([k \in 1..n |-> g[k]]) = e[n]
  BY ONLY <1>0, <1>6, <1>7, PrefixTotals
<1> QED BY <1>7, <1>8, <1>9 DEF TotalChanges

\* The first of a list counts by itself.
LEMMA FirstCounts ==
  ASSUME NEW n \in Nat, n >= 1, NEW f, \A k \in 1..n : f[k] \in Int
  PROVE  Total([k \in 1..n |-> f[k]]) = f[1] + Total([k \in 1..(n - 1) |-> f[k + 1]])
<1>1. PICK h : Sums(n, f, h)
  BY SumsExist
<1>2. h \in [0..n -> Int] /\ h[0] = 0 /\ \A k \in 1..n : h[k] = h[k - 1] + f[k]
  BY <1>1 DEF Sums
<1>3. n \in 0..n /\ 1 \in 1..n /\ 1 - 1 = 0 /\ 1 \in 0..n
  OBVIOUS
<1>4. Total([k \in 1..n |-> f[k]]) = h[n]
  BY ONLY n \in Nat, <1>1, <1>3, PrefixTotals
<1>5. h[1] = f[1] /\ f[1] \in Int /\ h[n] \in Int
  BY <1>2, <1>3
<1>6. CASE n = 1
  <2>1. 1..(n - 1) = 1..0
    BY <1>6
  <2>2. Total([k \in 1..0 |-> f[k]]) = h[0]
    BY ONLY n \in Nat, 0 \in 0..n, <1>1, PrefixTotals
  <2>3. [k \in 1..0 |-> f[k]] = [k \in 1..0 |-> f[k + 1]]
    OBVIOUS
  <2> QED BY <1>2, <1>4, <1>5, <1>6, <2>1, <2>2, <2>3
<1>7. CASE n > 1
  <2>1. 2 \in 1..n /\ n \in 2..n /\ (n - 2) + 1 = n - 1 /\ 2 - 1 = 1
    BY <1>7
  <2>2. Total([k \in 1..((n - 2) + 1) |-> f[2 + k - 1]]) = h[n] - h[2 - 1]
    BY ONLY n \in Nat, <1>1, <2>1, PartTotal
  <2>3. [k \in 1..(n - 1) |-> f[2 + k - 1]] = [k \in 1..(n - 1) |-> f[k + 1]]
    <3>1. \A k \in 1..(n - 1) : 2 + k - 1 = k + 1
      OBVIOUS
    <3> QED BY <3>1
  <2>4. Total([k \in 1..(n - 1) |-> f[k + 1]]) = h[n] - h[1]
    BY <2>1, <2>2, <2>3
  <2> QED BY <1>4, <1>5, <2>4
<1> QED BY <1>6, <1>7

\* What is listed once and again costs more where every entry does.
LEMMA TotalsGrow ==
  ASSUME NEW n \in Nat, NEW f, NEW g, \A k \in 1..n : f[k] \in Int /\ g[k] \in Int /\ f[k] <= g[k]
  PROVE  Total([k \in 1..n |-> f[k]]) <= Total([k \in 1..n |-> g[k]])
<1>1. PICK h : Sums(n, f, h)
  BY SumsExist
<1>2. PICK e : Sums(n, g, e)
  BY SumsExist
<1>3. n \in 0..n
  OBVIOUS
<1>4. Total([k \in 1..n |-> f[k]]) = h[n] /\ Total([k \in 1..n |-> g[k]]) = e[n]
  <2>1. Total([k \in 1..n |-> f[k]]) = h[n]
    BY ONLY n \in Nat, <1>1, <1>3, PrefixTotals
  <2>2. Total([k \in 1..n |-> g[k]]) = e[n]
    BY ONLY n \in Nat, <1>2, <1>3, PrefixTotals
  <2> QED BY <2>1, <2>2
<1>5. PICK Good : Good = {k \in Nat : k <= n => h[k] <= e[k]}
  OBVIOUS
<1>6. 0 \in Good
  BY <1>1, <1>2, <1>5 DEF Sums
<1>7. ASSUME NEW k \in Nat, k \in Good PROVE k + 1 \in Good
  <2>1. CASE k + 1 <= n
    <3>1. k + 1 \in 1..n /\ (k + 1) - 1 = k /\ k <= n /\ k \in 0..n
      BY <2>1
    <3>2. h[k + 1] = h[k] + f[k + 1] /\ e[k + 1] = e[k] + g[k + 1] /\ h[k] \in Int /\ e[k] \in Int
      BY <1>1, <1>2, <3>1 DEF Sums
    <3>3. h[k] <= e[k] /\ f[k + 1] <= g[k + 1] /\ f[k + 1] \in Int /\ g[k + 1] \in Int
      BY <1>5, <1>7, <3>1
    <3>4. h[k + 1] <= e[k + 1]
      BY ONLY <3>2, <3>3
    <3> QED BY <1>5, <3>4
  <2>2. CASE ~ (k + 1 <= n)
    BY <1>5, <2>2
  <2> QED BY <2>1, <2>2
<1>8. \A k \in Nat : k \in Good
  BY <1>6, <1>7, CountingUp
<1> QED BY <1>4, <1>5, <1>8

RowCost(c, o, n, i) == Total([j \in 1..(n - i) |-> c[<<o[i], o[i + j]>>]])

\* What costs are numbers, between nets that may stand side by side.
AreCosts(T, c) == \A a, b \in T : c[<<a, b>>] \in Int
Enlists(T, n, o) == n \in Nat /\ Len(o) = n /\ o = [i \in 1..n |-> o[i]] /\ \A i \in 1..n : o[i] \in T

LEMMA RowIsNumber ==
  ASSUME NEW T, NEW c, AreCosts(T, c), NEW n, NEW o, Enlists(T, n, o), NEW i \in 1..n
  PROVE  RowCost(c, o, n, i) \in Int
<1>1. PICK s : s = [j \in 1..(n - i) |-> c[<<o[i], o[i + j]>>]]
  OBVIOUS
<1>2. n \in Nat /\ n - i \in Nat /\ Len(s) = n - i
  BY <1>1 DEF Enlists
<1>3. ASSUME NEW j \in 1..(n - i) PROVE s[j] \in Int
  <2>1. i + j \in 1..n
    BY <1>2
  <2>2. o[i] \in T /\ o[i + j] \in T
    BY <2>1 DEF Enlists
  <2> QED BY <1>1, <2>2 DEF AreCosts
<1>4. Total(s) \in Int
  BY ONLY <1>2, <1>3, TotalIsNumber
<1> QED BY <1>1, <1>4 DEF RowCost

LEMMA OrderCostIsNumber ==
  ASSUME NEW T, NEW c, AreCosts(T, c), NEW n, NEW o, Enlists(T, n, o)
  PROVE  /\ OrderCost(c, o) = Total([i \in 1..n |-> RowCost(c, o, n, i)])
         /\ OrderCost(c, o) \in Int
<1>1. n \in Nat /\ Len(o) = n /\ DOMAIN o = 1..n
  BY DEF Enlists
<1>2. OrderCost(c, o) = Total([i \in 1..n |-> RowCost(c, o, n, i)])
  BY <1>1 DEF OrderCost, RowCost
<1>3. PICK s : s = [i \in 1..n |-> RowCost(c, o, n, i)]
  OBVIOUS
<1>4. Len(s) = n /\ \A i \in 1..n : s[i] \in Int
  BY <1>1, <1>3, RowIsNumber
<1>5. Total(s) \in Int
  BY ONLY <1>1, <1>4, TotalIsNumber
<1> QED BY <1>2, <1>3, <1>5

Exchanged(n, o, p, i) ==
  /\ i \in 1..n /\ i + 1 \in 1..n
  /\ p[i] = o[i + 1] /\ p[i + 1] = o[i] /\ \A k \in 1..n : k = i \/ k = i + 1 \/ p[k] = o[k]

\* Where neither of the two stands first, what the row costs does not change.
LEMMA RowBefore ==
  ASSUME NEW T, NEW c, AreCosts(T, c), NEW n, NEW o, NEW p, Enlists(T, n, o), Enlists(T, n, p),
         NEW i, Exchanged(n, o, p, i), NEW k \in 1..n, k < i
  PROVE  RowCost(c, p, n, k) = RowCost(c, o, n, k)
<1>1. PICK m, f, g : /\ m = n - k
                     /\ f = [j \in 1..m |-> c[<<o[k], o[k + j]>>]] /\ g = [j \in 1..m |-> c[<<p[k], p[k + j]>>]]
  OBVIOUS
<1>2. /\ n \in Nat /\ m \in Nat /\ i \in 1..n /\ i + 1 \in 1..n /\ i - k \in 1..m /\ (i - k) + 1 \in 1..m
      /\ k + (i - k) = i /\ k + ((i - k) + 1) = i + 1
      /\ \A j \in 1..m : k + j \in 1..n
  <2>1. n \in Nat /\ i \in 1..n /\ i + 1 \in 1..n
    BY DEF Exchanged, Enlists
  <2> QED BY <1>1, <2>1
<1>3. p[k] = o[k]
  <2>1. k # i /\ k # i + 1
    BY <1>2
  <2> QED BY <2>1 DEF Exchanged
<1>4. \A j \in 1..m : f[j] \in Int /\ g[j] \in Int
  <2>1. \A j \in 1..n : o[j] \in T /\ p[j] \in T
    BY DEF Enlists
  <2> QED BY <1>1, <1>2, <2>1 DEF AreCosts
<1>5. ASSUME NEW j \in 1..m PROVE j = i - k \/ j = (i - k) + 1 \/ g[j] = f[j]
  <2>1. CASE k + j = i \/ k + j = i + 1
    BY <1>2, <2>1
  <2>2. CASE k + j # i /\ k + j # i + 1
    <3>1. p[k + j] = o[k + j]
      BY <1>2, <2>2 DEF Exchanged
    <3> QED BY <1>1, <1>3, <3>1
  <2> QED BY <2>1, <2>2
<1>6. g[i - k] + g[(i - k) + 1] = (f[i - k] + f[(i - k) + 1]) + 0
  <2>1. p[i] = o[i + 1] /\ p[i + 1] = o[i]
    BY DEF Exchanged
  <2>2. g[i - k] = f[(i - k) + 1] /\ g[(i - k) + 1] = f[i - k]
    BY <1>1, <1>2, <1>3, <2>1
  <2>3. f[i - k] \in Int /\ f[(i - k) + 1] \in Int
    BY <1>2, <1>4
  <2> QED BY ONLY <2>2, <2>3
<1>7. Total([j \in 1..m |-> g[j]]) = Total([j \in 1..m |-> f[j]]) + 0
  <2>1. i - k \in 1..m /\ m \in Nat /\ (i - k) + 1 \in 1..m /\ 0 \in Int
    BY <1>2
  <2>2. TwoChange(m, f, g, i - k, 0)
    BY ONLY <1>4, <1>5, <1>6, <2>1 DEF TwoChange
  <2>3. TotalChanges(m, f, g, 0)
    BY ONLY <2>2, TwoPlaces
  <2> QED BY <2>3 DEF TotalChanges
<1>8. RowCost(c, o, n, k) = Total([j \in 1..m |-> f[j]]) /\ RowCost(c, p, n, k) = Total([j \in 1..m |-> g[j]])
  BY <1>1 DEF RowCost
<1>9. RowCost(c, o, n, k) \in Int
  BY RowIsNumber
<1> QED BY <1>7, <1>8, <1>9

LEMMA RowAfter ==
  ASSUME NEW n \in Nat, NEW c, NEW o, NEW p,
         NEW i, Exchanged(n, o, p, i), NEW k \in 1..n, k > i + 1
  PROVE  RowCost(c, p, n, k) = RowCost(c, o, n, k)
<1>1. i \in 1..n
  BY DEF Exchanged
<1>2. ASSUME NEW j \in 1..n, j >= k PROVE p[j] = o[j]
  <2>1. j # i /\ j # i + 1
    BY <1>1, <1>2
  <2> QED BY <2>1 DEF Exchanged
<1>3. p[k] = o[k] /\ \A j \in 1..(n - k) : p[k + j] = o[k + j]
  BY <1>2
<1> QED BY <1>3 DEF RowCost

\* The rows of the two themselves.
LEMMA RowsOfTwo ==
  ASSUME NEW T, NEW c, AreCosts(T, c), NEW n, NEW o, NEW p, Enlists(T, n, o), Enlists(T, n, p),
         NEW i, Exchanged(n, o, p, i)
  PROVE  /\ RowCost(c, p, n, i + 1) = RowCost(c, o, n, i) - c[<<o[i], o[i + 1]>>]
         /\ RowCost(c, p, n, i) = c[<<o[i + 1], o[i]>>] + RowCost(c, o, n, i + 1)
<1>1. PICK a, b, m : a = o[i] /\ b = o[i + 1] /\ m = n - i
  OBVIOUS
<1>2. n \in Nat /\ m \in Nat /\ m >= 1 /\ i \in 1..n /\ i + 1 \in 1..n /\ m - 1 = n - (i + 1)
  <2>1. n \in Nat /\ i \in 1..n /\ i + 1 \in 1..n
    BY DEF Exchanged, Enlists
  <2> QED BY <1>1, <2>1
<1>3. p[i] = b /\ p[i + 1] = a
  BY <1>1 DEF Exchanged
<1>4. PICK f, g : f = [j \in 1..m |-> c[<<a, o[i + j]>>]] /\ g = [j \in 1..m |-> c[<<b, p[i + j]>>]]
  OBVIOUS
<1>5. \A j \in 1..m : f[j] \in Int /\ g[j] \in Int
  <2>1. \A j \in 1..n : o[j] \in T /\ p[j] \in T
    BY DEF Enlists
  <2>2. a \in T /\ b \in T /\ \A j \in 1..m : i + j \in 1..n
    BY <1>1, <1>2, <2>1
  <2> QED BY <1>4, <2>1, <2>2 DEF AreCosts
<1>6. \A j \in 1..(m - 1) : i + (j + 1) = (i + 1) + j /\ j + 1 \in 1..m /\ p[(i + 1) + j] = o[(i + 1) + j]
  <2> TAKE j \in 1..(m - 1)
  <2>1. i + (j + 1) = (i + 1) + j /\ j + 1 \in 1..m /\ (i + 1) + j \in 1..n /\ (i + 1) + j # i /\ (i + 1) + j # i + 1
    BY <1>1, <1>2
  <2> QED BY <2>1 DEF Exchanged
<1>7. Total([j \in 1..m |-> f[j]]) = f[1] + Total([j \in 1..(m - 1) |-> f[j + 1]])
  BY ONLY <1>2, <1>5, FirstCounts
<1>8. Total([j \in 1..m |-> g[j]]) = g[1] + Total([j \in 1..(m - 1) |-> g[j + 1]])
  BY ONLY <1>2, <1>5, FirstCounts
<1>9. RowCost(c, o, n, i) = Total([j \in 1..m |-> f[j]]) /\ RowCost(c, p, n, i) = Total([j \in 1..m |-> g[j]])
  <2>1. [j \in 1..m |-> f[j]] = [j \in 1..(n - i) |-> c[<<o[i], o[i + j]>>]]
    BY <1>1, <1>4
  <2>2. [j \in 1..m |-> g[j]] = [j \in 1..(n - i) |-> c[<<p[i], p[i + j]>>]]
    BY <1>1, <1>3, <1>4
  <2> QED BY <2>1, <2>2 DEF RowCost
<1>10. RowCost(c, p, n, i + 1) = Total([j \in 1..(m - 1) |-> f[j + 1]])
  <2>1. [j \in 1..(m - 1) |-> f[j + 1]] = [j \in 1..(n - (i + 1)) |-> c[<<p[i + 1], p[(i + 1) + j]>>]]
    BY <1>2, <1>3, <1>4, <1>6
  <2> QED BY <2>1 DEF RowCost
<1>11. RowCost(c, o, n, i + 1) = Total([j \in 1..(m - 1) |-> g[j + 1]])
  <2>1. [j \in 1..(m - 1) |-> g[j + 1]] = [j \in 1..(n - (i + 1)) |-> c[<<o[i + 1], o[(i + 1) + j]>>]]
    BY <1>1, <1>2, <1>4, <1>6
  <2> QED BY <2>1 DEF RowCost
<1>12. f[1] = c[<<a, b>>] /\ g[1] = c[<<b, a>>] /\ f[1] \in Int /\ g[1] \in Int
  <2>1. 1 \in 1..m
    BY <1>2
  <2> QED BY <1>1, <1>3, <1>4, <1>5, <2>1
<1>13. RowCost(c, p, n, i + 1) \in Int
  BY <1>2, RowIsNumber
<1> QED BY <1>1, <1>7, <1>8, <1>9, <1>10, <1>11, <1>12, <1>13

CostOfExchange(c, o, p, i) ==
  /\ OrderCost(c, p) = (OrderCost(c, o) - c[<<o[i], o[i + 1]>>]) + c[<<o[i + 1], o[i]>>]
  /\ c[<<o[i], o[i + 1]>>] \in Int /\ c[<<o[i + 1], o[i]>>] \in Int
  /\ OrderCost(c, o) \in Int /\ OrderCost(c, p) \in Int

LEMMA ExchangeCosts ==
  ASSUME NEW T, NEW c, AreCosts(T, c), NEW n, NEW o, NEW p, Enlists(T, n, o), Enlists(T, n, p),
         NEW i, Exchanged(n, o, p, i)
  PROVE  CostOfExchange(c, o, p, i)
<1>1. PICK f, g : f = [k \in 1..n |-> RowCost(c, o, n, k)] /\ g = [k \in 1..n |-> RowCost(c, p, n, k)]
  OBVIOUS
<1>2. n \in Nat /\ i \in 1..n /\ i + 1 \in 1..n
  BY DEF Exchanged, Enlists
<1>3. \A k \in 1..n : f[k] \in Int /\ g[k] \in Int
  BY <1>1, RowIsNumber
<1>4. PICK x, y : x = c[<<o[i], o[i + 1]>>] /\ y = c[<<o[i + 1], o[i]>>]
  OBVIOUS
<1>5. x \in Int /\ y \in Int
  <2>1. o[i] \in T /\ o[i + 1] \in T
    BY <1>2 DEF Enlists
  <2> QED BY <1>4, <2>1 DEF AreCosts
<1>6. ASSUME NEW k \in 1..n PROVE k = i \/ k = i + 1 \/ g[k] = f[k]
  <2>1. k < i \/ k = i \/ k = i + 1 \/ k > i + 1
    BY <1>2
  <2>2. CASE k < i
    BY <1>1, <2>2, RowBefore
  <2>3. CASE k > i + 1
    BY <1>1, <1>2, <2>3, RowAfter
  <2> QED BY <2>1, <2>2, <2>3
<1>7. g[i] + g[i + 1] = (f[i] + f[i + 1]) + (y - x)
  <2>1. g[i + 1] = f[i] - x /\ g[i] = y + f[i + 1]
    <3>1. /\ RowCost(c, p, n, i + 1) = RowCost(c, o, n, i) - x
          /\ RowCost(c, p, n, i) = y + RowCost(c, o, n, i + 1)
      BY <1>4, RowsOfTwo
    <3>2. /\ f[i] = RowCost(c, o, n, i) /\ f[i + 1] = RowCost(c, o, n, i + 1)
          /\ g[i] = RowCost(c, p, n, i) /\ g[i + 1] = RowCost(c, p, n, i + 1)
      BY ONLY <1>1, <1>2
    <3> QED BY ONLY <3>1, <3>2
  <2>2. f[i] \in Int /\ f[i + 1] \in Int
    BY <1>2, <1>3
  <2> QED BY ONLY <1>5, <2>1, <2>2
<1>8. Total([k \in 1..n |-> g[k]]) = Total([k \in 1..n |-> f[k]]) + (y - x)
  <2>1. y - x \in Int
    BY <1>5
  <2>2. TwoChange(n, f, g, i, y - x)
    BY ONLY <1>2, <1>3, <1>6, <1>7, <2>1 DEF TwoChange
  <2>3. TotalChanges(n, f, g, y - x)
    BY ONLY <2>2, TwoPlaces
  <2> QED BY <2>3 DEF TotalChanges
<1>9. OrderCost(c, o) = Total([k \in 1..n |-> f[k]]) /\ OrderCost(c, o) \in Int
  BY <1>1, OrderCostIsNumber
<1>10. OrderCost(c, p) = Total([k \in 1..n |-> g[k]]) /\ OrderCost(c, p) \in Int
  BY <1>1, OrderCostIsNumber
<1> QED BY ONLY <1>4, <1>5, <1>8, <1>9, <1>10 DEF CostOfExchange

-----------------------------------------------------------------------------
(* Orders of the nets of a gap.                                            *)

\* Every net stands somewhere, and at one place.
Arranges(T, n, o) ==
  /\ Enlists(T, n, o)
  /\ \A i, j \in 1..n : o[i] = o[j] => i = j
  /\ \A x \in T : \E i \in 1..n : o[i] = x

LEMMA SwappedNeighbours ==
  ASSUME NEW T, NEW n, NEW o, Enlists(T, n, o), NEW i \in 1..n, i + 1 \in 1..n, NEW p, p = Swapped(o, i)
  PROVE  Enlists(T, n, p) /\ Exchanged(n, o, p, i) /\ p \in [1..n -> T]
<1>1. n \in Nat /\ o \in [1..n -> T]
  BY DEF Enlists
<1>2. p = [o EXCEPT ![i] = o[i + 1], ![i + 1] = o[i]] /\ i # i + 1
  BY DEF Swapped
<1>3. p[i] = o[i + 1] /\ p[i + 1] = o[i] /\ \A k \in 1..n : k = i \/ k = i + 1 \/ p[k] = o[k]
  BY <1>1, <1>2
<1>4. p \in [1..n -> T]
  BY <1>1, <1>2
<1>5. Enlists(T, n, p)
  BY ONLY <1>1, <1>4 DEF Enlists
<1> QED BY <1>3, <1>4, <1>5 DEF Exchanged

LEMMA ExchangedArrange ==
  ASSUME NEW T, NEW n, NEW o, NEW p, Arranges(T, n, o), Enlists(T, n, p), NEW i, Exchanged(n, o, p, i)
  PROVE  Arranges(T, n, p)
<1>1. PICK s : s = [k \in 1..n |-> IF k = i THEN i + 1 ELSE IF k = i + 1 THEN i ELSE k]
  OBVIOUS
<1>2. i \in 1..n /\ i + 1 \in 1..n /\ n \in Nat
  BY DEF Exchanged, Arranges, Enlists
<1>3. \A k \in 1..n : s[k] \in 1..n /\ s[s[k]] = k
  BY <1>1, <1>2
<1>4. \A k \in 1..n : p[k] = o[s[k]]
  BY <1>1 DEF Exchanged
<1>5. ASSUME NEW j \in 1..n, NEW k \in 1..n, p[j] = p[k] PROVE j = k
  <2>1. s[j] = s[k]
    BY <1>3, <1>4, <1>5 DEF Arranges
  <2> QED BY <1>3, <2>1
<1>6. ASSUME NEW x \in T PROVE \E k \in 1..n : p[k] = x
  <2>1. PICK k \in 1..n : o[k] = x
    BY DEF Arranges
  <2> QED BY <1>3, <1>4, <2>1
<1> QED BY <1>5, <1>6 DEF Arranges

\* A pass of the descent keeps the nets and never costs more.
NotWorse(T, n, c, o, p) == Arranges(T, n, p) /\ OrderCost(c, p) <= OrderCost(c, o)

LEMMA DescentHelps ==
  ASSUME NEW T, NEW n, NEW c, AreCosts(T, c), NEW o, Arranges(T, n, o)
  PROVE  NotWorse(T, n, c, o, DescentPass(c, o))
<1>1. PICK m, V, apply :
        /\ m = Most(1, n) - 1 /\ V = [1..n -> T]
        /\ apply = [q \in (1..m) \X V |->
                      IF c[<<q[2][q[1] + 1], q[2][q[1]]>>] < c[<<q[2][q[1]], q[2][q[1] + 1]>>]
                      THEN Swapped(q[2], q[1]) ELSE q[2]]
  OBVIOUS
<1>2. /\ n \in Nat /\ m \in Nat /\ Len(o) = n /\ o \in V /\ Most(1, Len(o)) = m + 1
      /\ \A i \in 1..m : i \in 1..n /\ i + 1 \in 1..n
  <2>1. n \in Nat /\ Len(o) = n /\ o \in V
    BY <1>1 DEF Arranges, Enlists
  <2> QED BY <1>1, <2>1 DEF Most
<1>3. ASSUME NEW i \in 1..m, NEW v \in V
      PROVE  /\ apply[<<i, v>>] = IF c[<<v[i + 1], v[i]>>] < c[<<v[i], v[i + 1]>>] THEN Swapped(v, i) ELSE v
             /\ apply[<<i, v>>] \in V
  <2>1. apply[<<i, v>>] = IF c[<<v[i + 1], v[i]>>] < c[<<v[i], v[i + 1]>>] THEN Swapped(v, i) ELSE v
    BY <1>1
  <2>2. Enlists(T, n, v)
    BY ONLY <1>1, <1>2, v \in V DEF Enlists
  <2>3. Swapped(v, i) \in V
    BY <1>1, <1>2, <2>2, SwappedNeighbours
  <2> QED BY <2>1, <2>3
<1>4. PICK h \in [0..m -> V] : h[0] = o /\ \A i \in 1..m : h[i] = apply[<<i, h[i - 1]>>]
  <2>1. \A i \in 1..m : \A v \in V : apply[<<i, v>>] \in V
    BY <1>3
  <2>2. StagesFrom(m, V, o, apply) # {}
    BY ONLY <1>2, <2>1, StagesExist
  <2> QED BY <2>2 DEF StagesFrom
<1>5. PICK f : f = [i \in 1..(m + 1) |-> h[i - 1]]
  OBVIOUS
<1>6. f = [i \in 1..(m + 1) |->
             IF i = 1 THEN o
             ELSE IF c[<<f[i - 1][i], f[i - 1][i - 1]>>] < c[<<f[i - 1][i - 1], f[i - 1][i]>>]
                  THEN Swapped(f[i - 1], i - 1) ELSE f[i - 1]]
  <2>1. ASSUME NEW i \in 1..(m + 1), i # 1
        PROVE  f[i] = IF c[<<f[i - 1][i], f[i - 1][i - 1]>>] < c[<<f[i - 1][i - 1], f[i - 1][i]>>]
                      THEN Swapped(f[i - 1], i - 1) ELSE f[i - 1]
    <3>1. i - 1 \in 1..m /\ (i - 1) - 1 \in 0..m /\ i - 1 \in 1..(m + 1) /\ (i - 1) + 1 = i
      BY <1>2, <2>1
    <3>2. f[i] = h[i - 1] /\ f[i - 1] = h[(i - 1) - 1] /\ h[(i - 1) - 1] \in V
      BY <1>4, <1>5, <3>1
    <3>3. h[i - 1] = apply[<<i - 1, f[i - 1]>>]
      BY <1>4, <3>1, <3>2
    <3> QED BY <1>3, <3>1, <3>2, <3>3
  <2>2. f[1] = o
    BY <1>2, <1>4, <1>5
  <2> QED BY <1>5, <2>1, <2>2
<1>7. PICK after :
        /\ after = [i \in 1..(m + 1) |->
                      IF i = 1 THEN o
                      ELSE IF c[<<after[i - 1][i], after[i - 1][i - 1]>>] < c[<<after[i - 1][i - 1], after[i - 1][i]>>]
                           THEN Swapped(after[i - 1], i - 1) ELSE after[i - 1]]
        /\ DescentPass(c, o) = after[m + 1]
  <2>1. PICK after :
          after = CHOOSE g : g = [i \in 1..(m + 1) |->
                                    IF i = 1 THEN o
                                    ELSE IF c[<<g[i - 1][i], g[i - 1][i - 1]>>] < c[<<g[i - 1][i - 1], g[i - 1][i]>>]
                                         THEN Swapped(g[i - 1], i - 1) ELSE g[i - 1]]
    OBVIOUS
  <2>2. after = [i \in 1..(m + 1) |->
                   IF i = 1 THEN o
                   ELSE IF c[<<after[i - 1][i], after[i - 1][i - 1]>>] < c[<<after[i - 1][i - 1], after[i - 1][i]>>]
                        THEN Swapped(after[i - 1], i - 1) ELSE after[i - 1]]
    BY <1>6, <2>1
  <2>3. DescentPass(c, o) = after[m + 1]
    BY <1>2, <2>1 DEF DescentPass
  <2> QED BY <2>2, <2>3
<1>8. PICK Good : Good = {k \in Nat : k <= m => NotWorse(T, n, c, o, after[k + 1])}
  OBVIOUS
<1>9. OrderCost(c, o) \in Int
  BY OrderCostIsNumber DEF Arranges
<1>10. 0 \in Good
  <2>1. after[0 + 1] = o
    BY <1>2, <1>7
  <2> QED BY <1>8, <1>9, <2>1 DEF NotWorse
<1>11. ASSUME NEW k \in Nat, k \in Good PROVE k + 1 \in Good
  <2>1. CASE k + 1 <= m
    <3>1. PICK i, a, b : i = k + 1 /\ a = after[i] /\ b = after[i + 1]
      OBVIOUS
    <3>2. i \in 1..m /\ i + 1 \in 1..(m + 1) /\ i + 1 # 1 /\ (i + 1) - 1 = i /\ k <= m
      BY <1>2, <2>1, <3>1
    <3>3. NotWorse(T, n, c, o, a)
      BY <1>8, <1>11, <3>1, <3>2
    <3>4. b = IF c[<<a[i + 1], a[i]>>] < c[<<a[i], a[i + 1]>>] THEN Swapped(a, i) ELSE a
      BY <1>7, <3>1, <3>2
    <3>5. NotWorse(T, n, c, o, b)
      <4>1. CASE ~ (c[<<a[i + 1], a[i]>>] < c[<<a[i], a[i + 1]>>])
        BY <3>3, <3>4, <4>1
      <4>2. CASE c[<<a[i + 1], a[i]>>] < c[<<a[i], a[i + 1]>>]
        <5>1. b = Swapped(a, i) /\ i \in 1..n /\ i + 1 \in 1..n /\ Arranges(T, n, a) /\ Enlists(T, n, a)
          BY <1>2, <3>2, <3>3, <3>4, <4>2 DEF NotWorse, Arranges
        <5>2. Enlists(T, n, b) /\ Exchanged(n, a, b, i)
          BY ONLY <5>1, SwappedNeighbours
        <5>3. /\ OrderCost(c, b) = (OrderCost(c, a) - c[<<a[i], a[i + 1]>>]) + c[<<a[i + 1], a[i]>>]
              /\ c[<<a[i], a[i + 1]>>] \in Int /\ c[<<a[i + 1], a[i]>>] \in Int
              /\ OrderCost(c, a) \in Int /\ OrderCost(c, b) \in Int
          <6>1. CostOfExchange(c, a, b, i)
            BY ONLY AreCosts(T, c), <5>1, <5>2, ExchangeCosts
          <6> QED BY <6>1 DEF CostOfExchange
        <5>4. OrderCost(c, a) <= OrderCost(c, o)
          BY <3>3 DEF NotWorse
        <5>5. OrderCost(c, b) <= OrderCost(c, o)
          BY ONLY <1>9, <4>2, <5>3, <5>4
        <5>6. Arranges(T, n, b)
          BY ONLY <5>1, <5>2, ExchangedArrange
        <5> QED BY <5>5, <5>6 DEF NotWorse
      <4> QED BY <4>1, <4>2
    <3> QED BY <1>8, <3>1, <3>5
  <2>2. CASE ~ (k + 1 <= m)
    BY <1>8, <2>2
  <2> QED BY <2>1, <2>2
<1>12. \A k \in Nat : k \in Good
  BY <1>10, <1>11, CountingUp
<1>13. NotWorse(T, n, c, o, after[m + 1])
  BY <1>2, <1>8, <1>12
<1> QED BY <1>7, <1>13

-----------------------------------------------------------------------------
(* A net put in anew.                                                      *)

\* What is known of the costs of the places a net may take.
ArePlaceCosts(c, net, others, m, at) ==
  /\ DOMAIN at = 0..m /\ \A i \in 0..m : at[i] \in Int
  /\ \A i \in 1..m : at[i] = (at[i - 1] - c[<<net, others[i]>>]) + c[<<others[i], net>>]

LEMMA PlaceCosts ==
  ASSUME NEW T, NEW c, AreCosts(T, c), NEW m, NEW others, Enlists(T, m, others), NEW net \in T
  PROVE  ArePlaceCosts(c, net, others, m, InsertionCost(c, net, others))
<1>1. PICK base, s, d : /\ s = [k \in 1..m |-> c[<<net, others[k]>>]] /\ base = Total(s)
                        /\ d = [k \in 1..m |-> c[<<others[k], net>>] - c[<<net, others[k]>>]]
  OBVIOUS
<1>2. m \in Nat /\ Len(others) = m /\ DOMAIN others = 1..m
  BY DEF Enlists
<1>3. \A k \in 1..m : /\ c[<<net, others[k]>>] \in Int /\ c[<<others[k], net>>] \in Int
                      /\ s[k] \in Int /\ d[k] \in Int
  <2> TAKE k \in 1..m
  <2>1. c[<<net, others[k]>>] \in Int /\ c[<<others[k], net>>] \in Int
    BY DEF AreCosts, Enlists
  <2> QED BY <1>1, <2>1
<1>4. base \in Int
  <2>1. Len(s) = m
    BY <1>1, <1>2
  <2>2. Total(s) \in Int
    BY ONLY <1>2, <1>3, <2>1, TotalIsNumber
  <2> QED BY <1>1, <2>2
<1>5. PICK h : Sums(m, d, h)
  BY <1>2, <1>3, SumsExist
<1>6. h \in [0..m -> Int] /\ h[0] = 0 /\ \A i \in 1..m : h[i] = h[i - 1] + d[i]
  BY <1>5 DEF Sums
<1>7. PICK f : f = [i \in 0..m |-> base + h[i]]
  OBVIOUS
<1>8. \A i \in 0..m : f[i] \in Int
  <2>1. \A i \in 0..m : h[i] \in Int
    BY <1>6
  <2> QED BY <1>4, <1>7, <2>1
<1>9. f[0] = base
  <2>1. 0 \in 0..m
    BY <1>2
  <2> QED BY <1>4, <1>6, <1>7, <2>1
<1>10. \A i \in 1..m : f[i] = (f[i - 1] - c[<<net, others[i]>>]) + c[<<others[i], net>>]
  <2> TAKE i \in 1..m
  <2>1. i \in 0..m /\ i - 1 \in 0..m
    BY <1>2
  <2>2. h[i] = h[i - 1] + d[i] /\ d[i] = c[<<others[i], net>>] - c[<<net, others[i]>>]
    BY <1>1, <1>6
  <2>3. f[i] = base + h[i] /\ f[i - 1] = base + h[i - 1] /\ h[i - 1] \in Int
    BY <1>6, <1>7, <2>1
  <2>4. c[<<net, others[i]>>] \in Int /\ c[<<others[i], net>>] \in Int
    BY <1>3
  <2> QED BY ONLY <1>4, <2>2, <2>3, <2>4
<1>11. f = [i \in 0..m |-> IF i = 0 THEN base
                           ELSE f[i - 1] - c[<<net, others[i]>>] + c[<<others[i], net>>]]
  <2>1. \A i \in 0..m : i = 0 \/ i \in 1..m
    BY <1>2
  <2> QED BY <1>7, <1>9, <1>10, <2>1
<1>12. PICK at : /\ at = [i \in 0..m |-> IF i = 0 THEN base
                                         ELSE at[i - 1] - c[<<net, others[i]>>] + c[<<others[i], net>>]]
                 /\ InsertionCost(c, net, others) = at
  <2>1. PICK at : at = CHOOSE g : g = [i \in 0..m |-> IF i = 0 THEN base
                                          ELSE g[i - 1] - c[<<net, others[i]>>] + c[<<others[i], net>>]]
    OBVIOUS
  <2>2. at = [i \in 0..m |-> IF i = 0 THEN base
                             ELSE at[i - 1] - c[<<net, others[i]>>] + c[<<others[i], net>>]]
    BY <1>11, <2>1
  <2>3. InsertionCost(c, net, others) = at
    <3>1. base = Total([k \in DOMAIN others |-> c[<<net, others[k]>>]])
      BY <1>1, <1>2
    <3> QED BY <1>2, <2>1, <3>1 DEF InsertionCost
  <2> QED BY <2>2, <2>3
<1>13. Alike(m, at, f)
  <2>1. at[0] = f[0]
    BY <1>2, <1>9, <1>12
  <2>2. ASSUME NEW i \in 1..m, at[i - 1] = f[i - 1] PROVE at[i] = f[i]
    <3>1. i \in 0..m /\ i # 0
      BY <1>2
    <3>2. at[i] = f[i - 1] - c[<<net, others[i]>>] + c[<<others[i], net>>]
      BY <1>12, <2>2, <3>1
    <3> QED BY <1>10, <3>2
  <2>3. MadeAlike(m, at, f)
    BY ONLY <2>1, <2>2 DEF MadeAlike
  <2> QED BY ONLY <1>2, <2>3, StagesAgree
<1>14. \A i \in 0..m : at[i] = f[i]
  BY ONLY <1>13 DEF Alike
<1>15. \A i \in 1..m : at[i] = (at[i - 1] - c[<<net, others[i]>>]) + c[<<others[i], net>>]
  <2> TAKE i \in 1..m
  <2>1. i \in 0..m /\ i - 1 \in 0..m
    BY <1>2
  <2> QED BY <1>10, <1>14, <2>1
<1> QED BY <1>8, <1>12, <1>14, <1>15 DEF ArePlaceCosts

Places(T, m, others, net, i, p) ==
  /\ Enlists(T, m + 1, p)
  /\ \A k \in 1..(m + 1) : p[k] = IF k <= i THEN others[k] ELSE IF k = i + 1 THEN net ELSE others[k - 1]

LEMMA PutIn ==
  ASSUME NEW T, NEW m, NEW others, Enlists(T, m, others), NEW net \in T, NEW i \in 0..m
  PROVE  Places(T, m, others, net, i, PutAt(others, net, i))
<1>1. m \in Nat /\ Len(others) = m /\ i \in Nat /\ i <= m /\ \A k \in 1..m : others[k] \in T
  BY DEF Enlists
<1>2. PICK a, b, ab, x, p : /\ a = SubSeq(others, 1, i) /\ b = SubSeq(others, i + 1, m) /\ x = <<net>>
                            /\ ab = a \o x /\ p = ab \o b
  OBVIOUS
<1>3. a \in Seq(T) /\ Len(a) = i /\ \A k \in 1..i : a[k] = others[k]
  <2>1. 1 \in Int /\ i \in Int /\ \A k \in 1..i : others[k] \in T
    BY <1>1
  <2>2. /\ a \in Seq(T) /\ Len(a) = IF 1 <= i THEN i - 1 + 1 ELSE 0
        /\ \A k \in 1..(i - 1 + 1) : a[k] = others[1 + k - 1]
    <3>1. a = SubSeq(others, 1, i)
      BY <1>2
    <3> QED BY ONLY <2>1, <3>1, SubSeqProperties
  <2> QED BY <1>1, <2>2
<1>4. b \in Seq(T) /\ Len(b) = m - i /\ \A k \in 1..(m - i) : b[k] = others[i + k]
  <2>1. i + 1 \in Int /\ m \in Int /\ \A k \in (i + 1)..m : others[k] \in T
    BY <1>1
  <2>2. /\ b \in Seq(T) /\ Len(b) = IF i + 1 <= m THEN m - (i + 1) + 1 ELSE 0
        /\ \A k \in 1..(m - (i + 1) + 1) : b[k] = others[(i + 1) + k - 1]
    <3>1. b = SubSeq(others, i + 1, m)
      BY <1>2
    <3> QED BY ONLY <2>1, <3>1, SubSeqProperties
  <2>3. \A k \in 1..(m - i) : k \in 1..(m - (i + 1) + 1) /\ (i + 1) + k - 1 = i + k
    BY <1>1
  <2> QED BY <1>1, <2>2, <2>3
<1>5. x \in Seq(T) /\ Len(x) = 1 /\ x[1] = net
  BY <1>2
<1>6. /\ ab \in Seq(T) /\ Len(ab) = i + 1
      /\ \A k \in 1..(i + 1) : ab[k] = IF k <= i THEN others[k] ELSE net
  <2>1. /\ ab \in Seq(T) /\ Len(ab) = Len(a) + Len(x)
        /\ \A k \in 1..(Len(a) + Len(x)) : ab[k] = IF k <= Len(a) THEN a[k] ELSE x[k - Len(a)]
    <3>1. ab = a \o x
      BY <1>2
    <3> QED BY ONLY <1>3, <1>5, <3>1, ConcatProperties
  <2>2. ASSUME NEW k \in 1..(i + 1) PROVE ab[k] = IF k <= i THEN others[k] ELSE net
    <3>1. ab[k] = IF k <= i THEN a[k] ELSE x[k - i]
      BY <1>3, <1>5, <2>1
    <3>2. k <= i => k \in 1..i
      OBVIOUS
    <3>3. ~ (k <= i) => k - i = 1
      BY <1>1
    <3> QED BY <1>3, <1>5, <3>1, <3>2, <3>3
  <2> QED BY <1>3, <1>5, <2>1, <2>2
<1>7. /\ p \in Seq(T) /\ Len(p) = m + 1
      /\ \A k \in 1..(m + 1) : p[k] = IF k <= i + 1 THEN ab[k] ELSE b[k - (i + 1)]
  <2>1. /\ p \in Seq(T) /\ Len(p) = Len(ab) + Len(b)
        /\ \A k \in 1..(Len(ab) + Len(b)) : p[k] = IF k <= Len(ab) THEN ab[k] ELSE b[k - Len(ab)]
    <3>1. p = ab \o b
      BY <1>2
    <3> QED BY ONLY <1>4, <1>6, <3>1, ConcatProperties
  <2>2. Len(ab) + Len(b) = m + 1
    BY <1>1, <1>4, <1>6
  <2> QED BY <1>6, <2>1, <2>2
<1>8. ASSUME NEW k \in 1..(m + 1)
      PROVE  p[k] = IF k <= i THEN others[k] ELSE IF k = i + 1 THEN net ELSE others[k - 1]
  <2>1. CASE k <= i + 1
    <3>1. k \in 1..(i + 1) /\ (~ (k <= i) => k = i + 1)
      BY <1>1, <2>1
    <3> QED BY <1>6, <1>7, <2>1, <3>1
  <2>2. CASE ~ (k <= i + 1)
    <3>1. ~ (k <= i) /\ k # i + 1 /\ k - (i + 1) \in 1..(m - i) /\ i + (k - (i + 1)) = k - 1
      BY <1>1, <2>2
    <3>2. p[k] = b[k - (i + 1)] /\ b[k - (i + 1)] = others[i + (k - (i + 1))]
      BY <1>4, <1>7, <2>2, <3>1
    <3> QED BY <3>1, <3>2
  <2> QED BY <2>1, <2>2
<1>9. m + 1 \in Nat /\ p = [k \in 1..(m + 1) |-> p[k]] /\ \A k \in 1..(m + 1) : p[k] \in T
  <2>1. m + 1 \in Nat
    BY <1>1
  <2> QED BY ONLY <1>7, <2>1
<1>10. Enlists(T, m + 1, p)
  BY ONLY <1>7, <1>9 DEF Enlists
<1>11. p = PutAt(others, net, i)
  BY <1>1, <1>2 DEF PutAt
<1>12. Places(T, m, others, net, i, p)
  BY ONLY <1>8, <1>10 DEF Places
<1> QED BY <1>11, <1>12

\* One place further to the right, the net has passed one other.
MovesPast(m, others, net, i, o, p) ==
  /\ Exchanged(m + 1, o, p, i) /\ Exchanged(m + 1, p, o, i)
  /\ o[i] = net /\ o[i + 1] = others[i]

LEMMA NextPlace ==
  ASSUME NEW T, NEW m \in Nat, NEW others, NEW net, NEW i \in 1..m,
         NEW o, Places(T, m, others, net, i - 1, o), NEW p, Places(T, m, others, net, i, p)
  PROVE  MovesPast(m, others, net, i, o, p)
<1>1. i \in 1..(m + 1) /\ i + 1 \in 1..(m + 1) /\ (i - 1) + 1 = i /\ (i + 1) - 1 = i
  OBVIOUS
<1>2. \A k \in 1..(m + 1) : /\ o[k] = IF k <= i - 1 THEN others[k] ELSE IF k = i THEN net ELSE others[k - 1]
                            /\ p[k] = IF k <= i THEN others[k] ELSE IF k = i + 1 THEN net ELSE others[k - 1]
  BY <1>1 DEF Places
<1>3. o[i] = net /\ p[i] = others[i]
  <2>1. ~ (i <= i - 1) /\ i <= i
    OBVIOUS
  <2> QED BY <1>1, <1>2, <2>1
<1>4. o[i + 1] = others[i] /\ p[i + 1] = net
  <2>1. ~ (i + 1 <= i - 1) /\ ~ (i + 1 <= i) /\ i + 1 # i
    OBVIOUS
  <2> QED BY <1>1, <1>2, <2>1
<1>5. ASSUME NEW k \in 1..(m + 1), k # i, k # i + 1 PROVE p[k] = o[k]
  <2>1. (k <= i /\ k <= i - 1) \/ (~ (k <= i) /\ ~ (k <= i - 1))
    BY <1>5
  <2> QED BY <1>2, <1>5, <2>1
<1> QED BY <1>1, <1>3, <1>4, <1>5 DEF Exchanged, MovesPast

(* Wherever a net is put, the nets stand in an order if they do with it at  *)
(* the far left, and the costs of two places differ as their orders do.     *)
PlacedAlike(T, m, c, at, o, i, p) ==
  /\ Arranges(T, m + 1, o) <=> Arranges(T, m + 1, p)
  /\ OrderCost(c, p) - at[i] = OrderCost(c, o) - at[0]
  /\ OrderCost(c, p) \in Int

LEMMA PlacesCompare ==
  ASSUME NEW T, NEW c, AreCosts(T, c), NEW m, NEW others, Enlists(T, m, others), NEW net \in T,
         NEW at, ArePlaceCosts(c, net, others, m, at)
  PROVE  \A i \in 0..m : PlacedAlike(T, m, c, at, PutAt(others, net, 0), i, PutAt(others, net, i))
<1>1. m \in Nat
  BY DEF Enlists
<1>2. PICK P : P = [i \in 0..m |-> PutAt(others, net, i)]
  OBVIOUS
<1>3. \A i \in 0..m : Places(T, m, others, net, i, P[i]) /\ Enlists(T, m + 1, P[i])
  BY <1>2, PutIn DEF Places
<1>4. PICK Good : Good = {i \in Nat : i <= m => PlacedAlike(T, m, c, at, P[0], i, P[i])}
  OBVIOUS
<1>5. /\ \A i \in 0..m : at[i] \in Int
      /\ \A i \in 1..m : at[i] = (at[i - 1] - c[<<net, others[i]>>]) + c[<<others[i], net>>]
  BY DEF ArePlaceCosts
<1>6. 0 \in Good
  <2>1. 0 \in 0..m
    BY <1>1
  <2>2. OrderCost(c, P[0]) \in Int
    BY <1>3, <2>1, OrderCostIsNumber
  <2>3. PlacedAlike(T, m, c, at, P[0], 0, P[0])
    BY <2>2 DEF PlacedAlike
  <2> QED BY <1>4, <2>3
<1>7. ASSUME NEW k \in Nat, k \in Good PROVE k + 1 \in Good
  <2>1. CASE k + 1 <= m
    <3>1. PICK i, o, p, q : i = k + 1 /\ o = P[k] /\ p = P[i] /\ q = P[0]
      OBVIOUS
    <3>2. i \in 1..m /\ i - 1 = k /\ k \in 0..m /\ i \in 0..m /\ k <= m
      BY <1>1, <2>1, <3>1
    <3>3. PlacedAlike(T, m, c, at, q, k, o)
      BY <1>4, <1>7, <3>1, <3>2
    <3>4. Places(T, m, others, net, i - 1, o) /\ Places(T, m, others, net, i, p)
      BY <1>3, <3>1, <3>2
    <3>5. Enlists(T, m + 1, o) /\ Enlists(T, m + 1, p)
      BY <1>3, <3>1, <3>2
    <3>6. Exchanged(m + 1, o, p, i) /\ Exchanged(m + 1, p, o, i) /\ o[i] = net /\ o[i + 1] = others[i]
      <4>1. MovesPast(m, others, net, i, o, p)
        BY ONLY <1>1, <3>2, <3>4, NextPlace
      <4> QED BY <4>1 DEF MovesPast
    <3>7. Arranges(T, m + 1, o) <=> Arranges(T, m + 1, p)
      <4>1. ASSUME Arranges(T, m + 1, o) PROVE Arranges(T, m + 1, p)
        BY ONLY <3>5, <3>6, <4>1, ExchangedArrange
      <4>2. ASSUME Arranges(T, m + 1, p) PROVE Arranges(T, m + 1, o)
        BY ONLY <3>5, <3>6, <4>2, ExchangedArrange
      <4> QED BY <4>1, <4>2
    <3>8. CostOfExchange(c, o, p, i)
      BY ONLY AreCosts(T, c), <3>5, <3>6, ExchangeCosts
    <3>9. PICK x, y : x = c[<<net, others[i]>>] /\ y = c[<<others[i], net>>]
      OBVIOUS
    <3>10. /\ OrderCost(c, p) = (OrderCost(c, o) - x) + y /\ x \in Int /\ y \in Int
           /\ OrderCost(c, o) \in Int /\ OrderCost(c, p) \in Int
      BY <3>6, <3>8, <3>9 DEF CostOfExchange
    <3>11. at[i] = (at[k] - x) + y /\ at[k] \in Int /\ at[i] \in Int
      BY <1>5, <3>2, <3>9
    <3>12. OrderCost(c, p) - at[i] = OrderCost(c, o) - at[k]
      BY ONLY <3>10, <3>11
    <3>13. PlacedAlike(T, m, c, at, q, i, p)
      BY ONLY <3>3, <3>7, <3>10, <3>12 DEF PlacedAlike
    <3> QED BY <1>4, <3>1, <3>13
  <2>2. CASE ~ (k + 1 <= m)
    BY <1>4, <2>2
  <2> QED BY <2>1, <2>2
<1>8. \A k \in Nat : k \in Good
  BY <1>6, <1>7, CountingUp
<1>9. ASSUME NEW i \in 0..m PROVE PlacedAlike(T, m, c, at, PutAt(others, net, 0), i, PutAt(others, net, i))
  <2>1. 0 \in 0..m /\ i \in Nat /\ i <= m
    BY <1>1
  <2> QED BY <1>2, <1>4, <1>8, <2>1
<1> QED BY <1>9

\* A net taken out of an order and put in somewhere else changes what the order costs.
NetMoves(T, n, c, o, net) ==
  LET now == PlaceOf(o, net)
      others == RemoveAt(o, now)
      at == InsertionCost(c, net, others) IN
  /\ now - 1 \in DOMAIN at
  /\ \A best \in DOMAIN at :
        /\ Arranges(T, n, PutAt(others, net, best)) /\ at[best] \in Int
        /\ at[now - 1] - at[best] = OrderCost(c, o) - OrderCost(c, PutAt(others, net, best))
        /\ OrderCost(c, PutAt(others, net, best)) \in Int

LEMMA MovedNet ==
  ASSUME NEW T, NEW c, AreCosts(T, c), NEW n, NEW o, Arranges(T, n, o), NEW net \in T
  PROVE  NetMoves(T, n, c, o, net)
<1>1. PICK now, others, at, m :
        /\ now = PlaceOf(o, net) /\ others = RemoveAt(o, now)
        /\ at = InsertionCost(c, net, others) /\ m = n - 1
  OBVIOUS
<1>2. n \in Nat /\ Len(o) = n /\ Enlists(T, n, o) /\ o = [k \in 1..n |-> o[k]] /\ DOMAIN o = 1..n
  BY DEF Arranges, Enlists
<1>3. now \in 1..n /\ o[now] = net /\ m \in Nat /\ m + 1 = n /\ now - 1 \in 0..m /\ 0 \in 0..m
  <2>1. \E i \in DOMAIN o : o[i] = net
    BY <1>2 DEF Arranges
  <2>2. now \in 1..n /\ o[now] = net
    BY <1>1, <1>2, <2>1 DEF PlaceOf
  <2> QED BY <1>1, <1>2, <2>2
<1>4. /\ IsList(others) /\ Len(others) = m
      /\ \A i \in 1..m : others[i] = IF i < now THEN o[i] ELSE o[i + 1]
  <2>1. IsList(o) /\ now \in 1..Len(o)
    BY <1>2, <1>3 DEF IsList
  <2>2. /\ IsList(others) /\ Len(others) = Len(o) - 1
        /\ \A i \in 1..Len(others) : others[i] = IF i < now THEN o[i] ELSE o[i + 1]
    <3>1. others = RemoveAt(o, now)
      BY <1>1
    <3> QED BY ONLY <2>1, <3>1, Removed
  <2> QED BY <1>1, <1>2, <2>2
<1>5. Enlists(T, m, others)
  <2>1. \A i \in 1..m : others[i] \in T
    <3> TAKE i \in 1..m
    <3>1. i \in 1..n /\ i + 1 \in 1..n
      BY <1>3
    <3> QED BY <1>2, <1>4, <3>1 DEF Enlists
  <2> QED BY <1>3, <1>4, <2>1 DEF Enlists, IsList
<1>6. ArePlaceCosts(c, net, others, m, at)
  BY <1>1, <1>5, PlaceCosts
<1>7. \A i \in 0..m : PlacedAlike(T, m, c, at, PutAt(others, net, 0), i, PutAt(others, net, i))
  BY ONLY AreCosts(T, c), <1>5, <1>6, net \in T, PlacesCompare
<1>8. PutAt(others, net, now - 1) = o
  <2>1. PICK p : p = PutAt(others, net, now - 1)
    OBVIOUS
  <2>2. Places(T, m, others, net, now - 1, p)
    BY ONLY <1>3, <1>5, <2>1, net \in T, PutIn
  <2>3. /\ p = [k \in 1..n |-> p[k]]
        /\ \A k \in 1..n : p[k] = IF k <= now - 1 THEN others[k] ELSE IF k = (now - 1) + 1 THEN net ELSE others[k - 1]
    BY <1>3, <2>2 DEF Places, Enlists
  <2>4. ASSUME NEW k \in 1..n PROVE p[k] = o[k]
    <3>1. CASE k < now
      <4>1. k \in 1..m /\ k <= now - 1
        BY <1>3, <3>1
      <4> QED BY <1>4, <2>3, <3>1, <4>1
    <3>2. CASE k = now
      <4>1. ~ (k <= now - 1) /\ k = (now - 1) + 1
        BY <1>3, <3>2
      <4> QED BY <1>3, <2>3, <3>2, <4>1
    <3>3. CASE k > now
      <4>1. ~ (k <= now - 1) /\ k # (now - 1) + 1 /\ k - 1 \in 1..m /\ ~ (k - 1 < now) /\ (k - 1) + 1 = k
        BY <1>3, <3>3
      <4>2. p[k] = others[k - 1] /\ others[k - 1] = o[(k - 1) + 1]
        BY <1>4, <2>3, <4>1
      <4> QED BY <4>1, <4>2
    <3>4. k < now \/ k = now \/ k > now
      BY <1>3
    <3> QED BY <3>1, <3>2, <3>3, <3>4
  <2> QED BY <1>2, <2>1, <2>3, <2>4
<1>9. DOMAIN at = 0..m /\ \A i \in 0..m : at[i] \in Int
  BY <1>6 DEF ArePlaceCosts
<1>10. PICK q : q = PutAt(others, net, 0)
  OBVIOUS
<1>11. /\ Arranges(T, n, q) /\ OrderCost(c, o) - at[now - 1] = OrderCost(c, q) - at[0]
       /\ OrderCost(c, o) \in Int /\ OrderCost(c, q) \in Int
  <2>1. PlacedAlike(T, m, c, at, q, now - 1, o)
    BY <1>3, <1>7, <1>8, <1>10
  <2>2. OrderCost(c, q) \in Int
    <3>1. PlacedAlike(T, m, c, at, q, 0, q)
      BY <1>3, <1>7, <1>10
    <3> QED BY <3>1 DEF PlacedAlike
  <2> QED BY <1>3, <2>1, <2>2 DEF PlacedAlike
<1>12. ASSUME NEW best \in 0..m
       PROVE  /\ Arranges(T, n, PutAt(others, net, best)) /\ at[best] \in Int
              /\ at[now - 1] - at[best] = OrderCost(c, o) - OrderCost(c, PutAt(others, net, best))
              /\ OrderCost(c, PutAt(others, net, best)) \in Int
  <2>1. PICK p : p = PutAt(others, net, best)
    OBVIOUS
  <2>2. PlacedAlike(T, m, c, at, q, best, p)
    BY <1>7, <1>10, <2>1
  <2>3. /\ Arranges(T, n, p) /\ OrderCost(c, p) \in Int
        /\ OrderCost(c, p) - at[best] = OrderCost(c, q) - at[0]
    BY <1>3, <1>11, <2>2 DEF PlacedAlike
  <2>4. at[best] \in Int /\ at[now - 1] \in Int /\ at[0] \in Int
    BY <1>3, <1>9
  <2>5. at[now - 1] - at[best] = OrderCost(c, o) - OrderCost(c, p)
    BY ONLY <1>11, <2>3, <2>4
  <2> QED BY <2>1, <2>3, <2>4, <2>5
<1>13. /\ now - 1 \in DOMAIN at
       /\ \A best \in DOMAIN at :
            /\ Arranges(T, n, PutAt(others, net, best)) /\ at[best] \in Int
            /\ at[now - 1] - at[best] = OrderCost(c, o) - OrderCost(c, PutAt(others, net, best))
            /\ OrderCost(c, PutAt(others, net, best)) \in Int
  BY <1>3, <1>9, <1>12
<1> QED BY <1>1, <1>13 DEF NetMoves

-----------------------------------------------------------------------------
(* The orders of a gap that are made from keys.                            *)

LEMMA KeyedArranges ==
  ASSUME NEW key, IsByKey(key, ByKey(key))
  PROVE  Arranges(DOMAIN key, Cardinality(DOMAIN key), ByKey(key))
BY DEF IsByKey, Arranges, Enlists

LEMMA SumIsNumber ==
  ASSUME NEW S, S \subseteq Nat, IsFiniteSet(S), NEW f, \A x \in S : f[x] \in Int
  PROVE  SumOver(f, S) \in Int
<1>1. PICK key, order : key = [x \in S |-> <<x>>] /\ order = ByKey(key)
  OBVIOUS
<1>2. \A x, y \in S : <<x, y>> \in LexPairs(key) <=> x < y
  <2> TAKE x, y \in S
  <2>1. <<x, y>> \in LexPairs(key) <=> LexLess(<<x>>, <<y>>)
    BY <1>1 DEF LexPairs
  <2>2. LexLess(<<x>>, <<y>>) <=> x < y
    <3>1. Len(<<x>>) = 1 /\ <<x>>[1] = x /\ <<y>>[1] = y /\ 1..1 = {1} /\ 1..(1 - 1) = {}
      OBVIOUS
    <3> QED BY <3>1 DEF LexLess
  <2> QED BY <2>1, <2>2
<1>3. StrictlyOrders(LexPairs(key), S)
  <2>1. \A x \in S : x \in Int
    OBVIOUS
  <2> QED BY <1>2, <2>1 DEF StrictlyOrders
<1>4. DOMAIN key = S
  BY <1>1
<1>5. IsByKey(key, order)
  BY <1>1, <1>3, <1>4, ListedByKey
<1>6. PICK s, n : s = [i \in DOMAIN order |-> f[order[i]]] /\ n = Cardinality(S)
  OBVIOUS
<1>7. n \in Nat /\ Len(s) = n /\ \A i \in 1..n : s[i] \in Int
  <2>1. n \in Nat /\ DOMAIN order = 1..n /\ \A i \in 1..n : order[i] \in S
    BY <1>4, <1>5, <1>6 DEF IsByKey
  <2>2. s = [i \in 1..n |-> f[order[i]]]
    BY <1>6, <2>1
  <2>3. n \in Nat /\ Len(s) = n
    BY ONLY <2>1, <2>2
  <2>4. ASSUME NEW i \in 1..n PROVE s[i] \in Int
    <3>1. order[i] \in S /\ s[i] = f[order[i]]
      BY ONLY <2>1, <2>2, i \in 1..n
    <3> QED BY <3>1
  <2> QED BY <2>3, <2>4
<1>8. Total(s) \in Int
  BY ONLY <1>7, TotalIsNumber
<1> QED BY <1>1, <1>6, <1>8 DEF SumOver

LEMMA LanesArrange ==
  ASSUME NEW T, IsFiniteSet(T), T \subseteq Nat, NEW lanes \in [T -> Nat]
  PROVE  Arranges(T, Cardinality(T), OrderOf(lanes))
<1>1. PICK key : key = [n \in T |-> <<lanes[n], n>>]
  OBVIOUS
<1>2. DOMAIN key = T
  BY <1>1
<1>3. StrictlyOrders(LexPairs(key), DOMAIN key)
  <2>1. \A x \in T : Len(key[x]) = 2 /\ key[x] = <<key[x][1], key[x][2]>>
                     /\ key[x][1] \in Int /\ key[x][2] \in Int
    BY <1>1
  <2>2. \A x, y \in T : key[x] = key[y] => x = y
    BY <1>1
  <2> QED BY <1>2, <2>1, <2>2, TwosOrder
<1>4. OrderOf(lanes) = ByKey(key)
  BY <1>1 DEF OrderOf
<1> QED BY <1>2, <1>3, <1>4, ListedByKey, KeyedArranges

LEMMA SeedArranges ==
  ASSUME NEW T, IsFiniteSet(T), T \subseteq Nat, NEW lanes \in [T -> Nat], NEW c, AreCosts(T, c)
  PROVE  Arranges(T, Cardinality(T), GlobalSeed(c, lanes))
<1>1. PICK key : key = [net \in T |-> <<Balance(c, net, T), lanes[net], net>>]
  OBVIOUS
<1>2. DOMAIN key = T /\ DOMAIN lanes = T
  BY <1>1
<1>3. ASSUME NEW net \in T PROVE Balance(c, net, T) \in Int
  <2>1. PICK f : f = [other \in T |-> c[<<net, other>>] - c[<<other, net>>]]
    OBVIOUS
  <2>2. \A x \in T \ {net} : f[x] \in Int
    BY <2>1 DEF AreCosts
  <2>3. T \ {net} \subseteq Nat /\ IsFiniteSet(T \ {net})
    BY FS_Difference
  <2>4. SumOver(f, T \ {net}) \in Int
    BY ONLY <2>2, <2>3, SumIsNumber
  <2> QED BY <2>1, <2>4 DEF Balance
<1>4. StrictlyOrders(LexPairs(key), DOMAIN key)
  <2>1. \A x \in T : /\ Len(key[x]) = 3
                     /\ key[x][1] \in Int /\ key[x][2] \in Int /\ key[x][3] \in Int
    BY <1>1, <1>3
  <2>2. \A x, y \in T : key[x][2] = key[y][2] /\ key[x][3] = key[y][3] => x = y
    BY <1>1
  <2> QED BY <1>2, <2>1, <2>2, ThreesOrder
<1>5. GlobalSeed(c, lanes) = ByKey(key)
  BY <1>1, <1>2 DEF GlobalSeed
<1> QED BY <1>2, <1>4, <1>5, ListedByKey, KeyedArranges

-----------------------------------------------------------------------------
(* What is known of a gap before it is ordered.                            *)

NetsIn(g) == DOMAIN g.lanes
IsMeasuredGap(g) == IsGap(Nat, g) /\ \A n \in NetsIn(g) : IsMeasured(g.access[n])

LEMMA CrossingsAreCounted ==
  ASSUME NEW vertical \in Seq(Int \X Int), NEW levels \in Seq(Int)
  PROVE  VerticalHorizontal(vertical, levels) \in Nat
<1>1. IsFiniteSet(DOMAIN vertical) /\ IsFiniteSet(DOMAIN levels)
  BY FS_Interval
<1>2. PICK all : all = (DOMAIN vertical) \X (DOMAIN levels)
  OBVIOUS
<1>3. IsFiniteSet(all)
  BY ONLY <1>1, <1>2, FS_Product
<1>4. PICK some : some = {ik \in (DOMAIN vertical) \X (DOMAIN levels) :
                            /\ vertical[ik[1]][1] < levels[ik[2]]
                            /\ levels[ik[2]] < vertical[ik[1]][2]}
  OBVIOUS
<1>5. some \subseteq all
  BY <1>2, <1>4
<1>6. IsFiniteSet(some)
  BY ONLY <1>3, <1>5, FS_Subset
<1>7. Cardinality(some) \in Nat
  BY ONLY <1>6, FS_CardinalityType
<1> QED BY <1>4, <1>7 DEF VerticalHorizontal

LEMMA PairsAreCosts ==
  ASSUME NEW g, IsMeasuredGap(g)
  PROVE  AreCosts(NetsIn(g), PairCosts(g))
<1>1. ASSUME NEW a \in NetsIn(g), NEW b \in NetsIn(g) PROVE PairCrossings(g.access[a], g.access[b]) \in Int
  <2>1. IsMeasured(g.access[a]) /\ IsMeasured(g.access[b])
    BY DEF IsMeasuredGap
  <2>2. /\ VerticalHorizontal(g.access[a].vertical, g.access[b].leftY) \in Nat
        /\ VerticalHorizontal(g.access[b].vertical, g.access[a].rightY) \in Nat
    BY <2>1, CrossingsAreCounted DEF IsMeasured
  <2> QED BY <2>2 DEF PairCrossings
<1>2. ASSUME NEW a \in NetsIn(g), NEW b \in NetsIn(g)
      PROVE  PairCosts(g)[<<a, b>>] = PairCrossings(g.access[a], g.access[b])
  BY DEF PairCosts, NetsIn
<1> QED BY <1>1, <1>2 DEF AreCosts

AreSome(T, hot) == Len(hot) \in Nat /\ \A i \in 1..Len(hot) : hot[i] \in T

LEMMA HottestAreNets ==
  ASSUME NEW g, IsMeasuredGap(g), NEW limit \in Nat
  PROVE  AreSome(NetsIn(g), Hottest(g, limit))
<1>1. PICK len : len = [n \in NetsIn(g) |-> Total([i \in DOMAIN g.access[n].vertical |->
                            g.access[n].vertical[i][2] - g.access[n].vertical[i][1]])]
  OBVIOUS
<1>2. PICK key : key = [n \in NetsIn(g) |-> <<0 - Len(g.access[n].vertical), 0 - len[n], n>>]
  OBVIOUS
<1>3. Hottest(g, limit) = SubSeq(ByKey(key), 1, Least(limit, Len(ByKey(key))))
  <2>1. key = [n \in DOMAIN g.lanes |->
                 <<0 - Len(g.access[n].vertical),
                   0 - Total([i \in DOMAIN g.access[n].vertical |->
                                g.access[n].vertical[i][2] - g.access[n].vertical[i][1]]), n>>]
    BY <1>1, <1>2 DEF NetsIn
  <2> QED BY <2>1 DEF Hottest
<1>4. DOMAIN key = NetsIn(g) /\ IsFiniteSet(DOMAIN key) /\ NetsIn(g) \subseteq Nat
  BY <1>2 DEF IsMeasuredGap, IsGap, NetsIn
<1>5. ASSUME NEW n \in NetsIn(g) PROVE Len(g.access[n].vertical) \in Int /\ len[n] \in Int
  <2>1. PICK v : v = g.access[n].vertical
    OBVIOUS
  <2>2. v \in Seq(Int \X Int)
    BY <2>1 DEF IsMeasuredGap, IsMeasured
  <2>3. PICK s, m : s = [i \in DOMAIN v |-> v[i][2] - v[i][1]] /\ m = Len(v)
    OBVIOUS
  <2>4. m \in Nat /\ Len(s) = m
    BY <2>2, <2>3
  <2>5. ASSUME NEW i \in 1..m PROVE s[i] \in Int
    <3>1. v[i] \in Int \X Int /\ i \in DOMAIN v
      BY <2>2, <2>3
    <3> QED BY <2>3, <3>1
  <2>6. Total(s) \in Int
    BY ONLY <2>4, <2>5, TotalIsNumber
  <2> QED BY <1>1, <2>1, <2>3, <2>4, <2>6
<1>6. StrictlyOrders(LexPairs(key), DOMAIN key)
  <2>1. \A x \in DOMAIN key : /\ Len(key[x]) = 3
                              /\ key[x][1] \in Int /\ key[x][2] \in Int /\ key[x][3] \in Int
    BY <1>2, <1>4, <1>5
  <2>2. \A x, y \in DOMAIN key : key[x][2] = key[y][2] /\ key[x][3] = key[y][3] => x = y
    BY <1>2, <1>4
  <2> QED BY <2>1, <2>2, ThreesOrder
<1>7. PICK o, n, m : o = ByKey(key) /\ n = Cardinality(DOMAIN key) /\ m = Least(limit, Len(o))
  OBVIOUS
<1>8. n \in Nat /\ Len(o) = n /\ \A i \in 1..n : o[i] \in NetsIn(g)
  <2>1. IsByKey(key, o)
    BY <1>4, <1>6, <1>7, ListedByKey
  <2> QED BY <1>4, <1>7, <2>1 DEF IsByKey
<1>9. m \in Nat /\ m <= n
  BY <1>7, <1>8 DEF Least
<1>10. PICK hot : hot = SubSeq(o, 1, m)
  OBVIOUS
<1>11. hot \in Seq(NetsIn(g))
  <2>1. 1 \in Int /\ m \in Int /\ \A i \in 1..m : o[i] \in NetsIn(g)
    BY <1>8, <1>9
  <2> QED BY ONLY <1>10, <2>1, SubSeqProperties
<1>12. AreSome(NetsIn(g), hot)
  BY ONLY <1>11 DEF AreSome
<1> QED BY <1>3, <1>7, <1>10, <1>12

-----------------------------------------------------------------------------
(* What is known of a gap in work, and of one that is ordered.             *)

WorkFields == {"phase", "cost", "order", "gain", "rounds", "changed", "hot", "at", "to",
               "local", "global", "half", "preserved"}

IsOrdering(g, o) == Arranges(NetsIn(g), Cardinality(NetsIn(g)), o)
CostOf(g, o) == OrderCost(PairCosts(g), o)
IsLocal(g, o) == IsOrdering(g, o) /\ CostOf(g, o) <= CostOf(g, OrderOf(g.lanes))

\* What is claimed for an order is what it saves, or no more than that.
Earns(g, local, o, gain) == IsOrdering(g, o) /\ gain \in Int /\ gain = CostOf(g, local) - CostOf(g, o)
EarnsEnough(g, local, o, gain) ==
  IsOrdering(g, o) /\ gain \in Int /\ gain <= CostOf(g, local) - CostOf(g, o)

Inserting == {"global", "half", "preserved", "rest", "refined"}

IsWork(g, w) ==
  /\ DOMAIN w = WorkFields /\ w.cost = PairCosts(g)
  /\ \/ w.phase = "local" /\ IsLocal(g, w.order)
     \/ w.phase = "seed" /\ IsLocal(g, w.local) /\ IsOrdering(g, w.order) /\ ~Large(g)
     \/ /\ w.phase \in Inserting /\ IsLocal(g, w.local) /\ Earns(g, w.local, w.order, w.gain)
        /\ AreSome(NetsIn(g), w.hot) /\ w.at \in Nat /\ w.to \in Nat /\ w.to <= Len(w.hot)
        /\ w.phase # "global" => Earns(g, w.local, w.global.order, w.global.gain)
        /\ w.phase \in {"preserved", "rest", "refined"} => Earns(g, w.local, w.half.order, w.half.gain)
        /\ w.phase \in {"rest", "refined"} =>
             Earns(g, w.local, w.preserved.order, w.preserved.gain)

IsEntry(g, e) ==
  /\ IsLocal(g, e.local.order)
  /\ \A kind \in Kinds :
       /\ EarnsEnough(g, e.local.order, e[kind].order, e[kind].gain)
       /\ kind = "global" \/ Large(g) => Earns(g, e.local.order, e[kind].order, e[kind].gain)

OffersEarn ==
  \A kind \in Kinds : outcome[kind] # None =>
    /\ \A k \in DOMAIN problem.gaps :
          /\ Range(outcome[kind][k]) = DOMAIN problem.gaps[k].lanes
          /\ Len(outcome[kind][k]) = Size(problem.gaps[k])
    /\ Total([k \in DOMAIN problem.gaps |-> Saved(k, outcome[kind][k])]) >= MinGlobalGapOrderGain
    /\ \A other \in Kinds \ {kind} : outcome[other] # outcome[kind]

LaneInv ==
  problem.job = "lanes" =>
    /\ gap \in Nat /\ gap >= 1 /\ gap <= Len(problem.gaps) + 1
    /\ IsList(ordered) /\ Len(ordered) = gap - 1
    /\ \A k \in 1..Len(ordered) : IsEntry(problem.gaps[k], ordered[k])
    /\ work # None => gap <= Len(problem.gaps) /\ IsWork(Gap, work)
    /\ outcome # None => OffersEarn

LEMMA GapMeasured ==
  ASSUME problem \in Problems, problem.job = "lanes"
  PROVE  /\ Len(problem.gaps) \in Nat /\ DOMAIN problem.gaps = 1..Len(problem.gaps)
         /\ \A k \in DOMAIN problem.gaps : IsMeasuredGap(problem.gaps[k])
         /\ gap \in Nat /\ gap >= 1 /\ gap <= Len(problem.gaps) => IsMeasuredGap(Gap)
<1>1. IsProblem(problem)
  BY ProblemsAssumption
<1>2. /\ DOMAIN problem.gaps = 1..Len(problem.gaps) /\ Len(problem.gaps) \in Nat
      /\ \A k \in DOMAIN problem.gaps : IsMeasuredGap(problem.gaps[k])
  BY <1>1 DEF IsProblem, IsMeasuredGap, NetsIn
<1>3. gap \in Nat /\ gap >= 1 /\ gap <= Len(problem.gaps) => gap \in DOMAIN problem.gaps
  BY <1>2
<1> QED BY <1>2, <1>3 DEF Gap

\* A measured gap has costs, and its lanes are an order.
LEMMA GapFacts ==
  ASSUME NEW g, IsMeasuredGap(g)
  PROVE  /\ AreCosts(NetsIn(g), PairCosts(g)) /\ IsFiniteSet(NetsIn(g)) /\ NetsIn(g) \subseteq Nat
         /\ g.lanes \in [NetsIn(g) -> Nat]
         /\ IsLocal(g, OrderOf(g.lanes))
         /\ \A o : IsOrdering(g, o) => CostOf(g, o) \in Int
<1>1. AreCosts(NetsIn(g), PairCosts(g))
  BY PairsAreCosts
<1>2. IsFiniteSet(NetsIn(g)) /\ NetsIn(g) \subseteq Nat /\ g.lanes \in [NetsIn(g) -> Nat]
  BY DEF IsMeasuredGap, IsGap, NetsIn
<1>3. IsOrdering(g, OrderOf(g.lanes))
  BY <1>2, LanesArrange DEF IsOrdering
<1>4. ASSUME NEW o, IsOrdering(g, o) PROVE CostOf(g, o) \in Int
  <2>1. Enlists(NetsIn(g), Cardinality(NetsIn(g)), o)
    BY <1>4 DEF IsOrdering, Arranges
  <2> QED BY <1>1, <2>1, OrderCostIsNumber DEF CostOf
<1> QED BY <1>1, <1>2, <1>3, <1>4 DEF IsLocal

\* The local order saves nothing, and a claim that is exact is enough.
LEMMA Claims ==
  ASSUME NEW g, IsMeasuredGap(g), NEW local, IsLocal(g, local)
  PROVE  /\ Earns(g, local, local, 0) /\ EarnsEnough(g, local, local, 0)
         /\ \A o, gain : Earns(g, local, o, gain) =>
              /\ EarnsEnough(g, local, o, gain)
              /\ gain >= 0 => EarnsEnough(g, local, o, 0)
<1>1. IsOrdering(g, local) /\ CostOf(g, local) \in Int
  BY GapFacts DEF IsLocal
<1>2. ASSUME NEW o, NEW gain, Earns(g, local, o, gain)
      PROVE  EarnsEnough(g, local, o, gain) /\ (gain >= 0 => EarnsEnough(g, local, o, 0))
  BY <1>2 DEF Earns, EarnsEnough
<1> QED BY <1>1, <1>2 DEF Earns, EarnsEnough

-----------------------------------------------------------------------------
(* The steps of ordering the gaps.                                         *)

LEMMA WorkGoesOn ==
  ASSUME problem \in Problems, LaneInv, Working("lanes"), IsWork(Gap, work'),
         UNCHANGED <<problem, admitted, gap, ordered, visits, outcome>>
  PROVE  LaneInv'
<1>1. /\ problem.job = "lanes" /\ outcome = None /\ outcome' = None /\ gap <= Len(problem.gaps)
      /\ problem' = problem /\ gap' = gap /\ ordered' = ordered
  BY DEF Working
<1>2. Gap' = Gap
  BY <1>1 DEF Gap
<1>3. /\ gap' \in Nat /\ gap' >= 1 /\ gap' <= Len(problem'.gaps) + 1
      /\ IsList(ordered') /\ Len(ordered') = gap' - 1
      /\ \A k \in 1..Len(ordered') : IsEntry(problem'.gaps[k], ordered'[k])
  BY <1>1 DEF LaneInv
<1> QED BY <1>1, <1>2, <1>3 DEF LaneInv

LEMMA GapIsOrdered ==
  ASSUME problem \in Problems, LaneInv, Working("lanes"),
         NEW local, NEW global, NEW preserved, NEW refined,
         Ordered(local, global, preserved, refined),
         IsEntry(Gap, [local |-> Found(local, 0), global |-> global,
                       preserved |-> preserved, refined |-> refined])
  PROVE  LaneInv'
<1>1. PICK e : e = [local |-> Found(local, 0), global |-> global,
                    preserved |-> preserved, refined |-> refined]
  OBVIOUS
<1>2. /\ problem.job = "lanes" /\ outcome = None /\ outcome' = None /\ gap <= Len(problem.gaps)
      /\ problem' = problem /\ gap' = gap + 1 /\ ordered' = Append(ordered, e) /\ work' = None
  BY <1>1 DEF Working, Ordered
<1>3. /\ gap \in Nat /\ gap >= 1
      /\ IsList(ordered) /\ Len(ordered) = gap - 1
      /\ \A k \in 1..Len(ordered) : IsEntry(problem.gaps[k], ordered[k])
      /\ Len(problem.gaps) \in Nat
  BY <1>2, GapMeasured DEF LaneInv
<1>4. /\ IsList(ordered') /\ Len(ordered') = gap
      /\ \A k \in 1..Len(ordered) : ordered'[k] = ordered[k]
      /\ ordered'[gap] = e
  <2>1. /\ IsList(ordered') /\ Len(ordered') = Len(ordered) + 1
        /\ \A k \in 1..Len(ordered) : ordered'[k] = ordered[k]
        /\ ordered'[Len(ordered) + 1] = e
    BY <1>2, <1>3, ListedOnce
  <2>2. Len(ordered) + 1 = gap
    BY <1>3
  <2> QED BY <2>1, <2>2
<1>5. ASSUME NEW k \in 1..Len(ordered') PROVE IsEntry(problem.gaps[k], ordered'[k])
  <2>1. CASE k = gap
    BY <1>1, <1>4, <2>1 DEF Gap
  <2>2. CASE k # gap
    <3>1. k \in 1..Len(ordered)
      BY <1>3, <1>4, <2>2
    <3> QED BY <1>3, <1>4, <3>1
  <2> QED BY <2>1, <2>2
<1>6. gap' \in Nat /\ gap' >= 1 /\ gap' <= Len(problem'.gaps) + 1 /\ Len(ordered') = gap' - 1
  BY <1>2, <1>3, <1>4
<1> QED BY <1>2, <1>4, <1>5, <1>6 DEF LaneInv

\* In a gap in work, what is measured of it and what is known of the work.
LEMMA InWork ==
  ASSUME problem \in Problems, LaneInv, Working("lanes")
  PROVE  /\ problem.job = "lanes" /\ gap \in Nat /\ IsMeasuredGap(Gap)
         /\ work # None => IsWork(Gap, work)
<1>1. problem.job = "lanes" /\ gap <= Len(problem.gaps) /\ gap \in Nat /\ gap >= 1
  BY DEF Working, LaneInv
<1> QED BY <1>1, GapMeasured DEF LaneInv

LEMMA EntersGap ==
  ASSUME problem \in Problems, LaneInv, EnterGap
  PROVE  LaneInv'
<1>1. /\ Working("lanes") /\ UNCHANGED <<problem, admitted, gap, ordered, visits, outcome>>
      /\ work' = [phase |-> "local", cost |-> PairCosts(Gap), order |-> OrderOf(Gap.lanes), gain |-> 0,
                  rounds |-> problem.rounds, changed |-> TRUE, hot |-> <<>>, at |-> 0, to |-> 0,
                  local |-> None, global |-> None, half |-> None, preserved |-> None]
  BY DEF EnterGap
<1>2. IsMeasuredGap(Gap)
  BY <1>1, InWork
<1>3. IsLocal(Gap, OrderOf(Gap.lanes))
  BY <1>2, GapFacts
<1>4. /\ DOMAIN work' = WorkFields /\ work'.phase = "local" /\ work'.cost = PairCosts(Gap)
      /\ work'.order = OrderOf(Gap.lanes)
  BY <1>1 DEF WorkFields
<1>5. IsWork(Gap, work')
  BY <1>3, <1>4 DEF IsWork
<1> QED BY <1>1, <1>5, WorkGoesOn

LEMMA PassesHelp ==
  ASSUME NEW g, IsMeasuredGap(g), NEW o, IsOrdering(g, o)
  PROVE  /\ IsOrdering(g, DescentPass(PairCosts(g), o))
         /\ IsLocal(g, o) => IsLocal(g, DescentPass(PairCosts(g), o))
<1>1. PICK p, T, c : p = DescentPass(PairCosts(g), o) /\ T = NetsIn(g) /\ c = PairCosts(g)
  OBVIOUS
<1>2. AreCosts(T, c) /\ Arranges(T, Cardinality(T), o)
  BY <1>1, GapFacts DEF IsOrdering
<1>3. NotWorse(T, Cardinality(T), c, o, DescentPass(c, o))
  BY ONLY <1>2, DescentHelps
<1>4. IsOrdering(g, p) /\ CostOf(g, p) <= CostOf(g, o)
  BY <1>1, <1>3 DEF NotWorse, IsOrdering, CostOf
<1>5. /\ CostOf(g, p) \in Int /\ CostOf(g, o) \in Int
      /\ IsOrdering(g, OrderOf(g.lanes)) /\ CostOf(g, OrderOf(g.lanes)) \in Int
  BY <1>4, GapFacts DEF IsLocal
<1> QED BY <1>1, <1>4, <1>5 DEF IsLocal

LEMMA Descends ==
  ASSUME problem \in Problems, LaneInv, Descend
  PROVE  LaneInv'
<1>1. /\ Working("lanes") /\ work # None /\ work.phase \in {"local", "seed"}
      /\ UNCHANGED <<problem, admitted, gap, ordered, visits, outcome>>
      /\ work' = [work EXCEPT !.order = DescentPass(work.cost, work.order), !.rounds = work.rounds - 1,
                              !.changed = DescentPass(work.cost, work.order) # work.order]
  BY DEF Descend, In, Step
<1>2. PICK g, w, v : g = Gap /\ w = work /\ v = work'
  OBVIOUS
<1>3. IsMeasuredGap(g) /\ IsWork(g, w) /\ w.phase \in {"local", "seed"}
  BY <1>1, <1>2, InWork
<1>4. PICK o : o = DescentPass(w.cost, w.order)
  OBVIOUS
<1>5. DOMAIN w = WorkFields
  BY <1>3 DEF IsWork
<1>6. DOMAIN v = WorkFields /\ v.phase = w.phase /\ v.cost = w.cost /\ v.order = o /\ v.local = w.local
  BY <1>1, <1>2, <1>4, <1>5 DEF WorkFields
<1>7. w.cost = PairCosts(g) /\ IsOrdering(g, w.order)
  BY <1>3 DEF IsWork, IsLocal, Inserting
<1>8. IsOrdering(g, o) /\ (IsLocal(g, w.order) => IsLocal(g, o))
  BY <1>3, <1>4, <1>7, PassesHelp
<1>9. IsWork(g, v)
  BY <1>3, <1>6, <1>8 DEF IsWork, Inserting
<1> QED BY <1>1, <1>2, <1>9, WorkGoesOn

LEMMA LocalKept ==
  ASSUME NEW g, IsMeasuredGap(g), NEW local, IsLocal(g, local), NEW e,
         e = [local |-> Found(local, 0), global |-> Found(local, 0),
              preserved |-> Found(local, 0), refined |-> Found(local, 0)]
  PROVE  IsEntry(g, e)
<1>1. e.local.order = local /\ \A kind \in Kinds : e[kind].order = local /\ e[kind].gain = 0
  BY DEF Kinds, Found
<1>2. Earns(g, local, local, 0) /\ EarnsEnough(g, local, local, 0)
  BY Claims
<1> QED BY <1>1, <1>2 DEF IsEntry

LEMMA KeepsLocal ==
  ASSUME problem \in Problems, LaneInv, KeepLocal
  PROVE  LaneInv'
<1>1. PICK o, f : o = work.order /\ f = Found(work.order, 0)
  OBVIOUS
<1>2. /\ Working("lanes") /\ work # None /\ work.phase = "local"
      /\ Ordered(o, f, f, f)
  BY <1>1 DEF KeepLocal, Descended, In
<1>3. IsMeasuredGap(Gap) /\ IsLocal(Gap, o)
  <2>1. IsMeasuredGap(Gap) /\ IsWork(Gap, work)
    BY <1>2, InWork
  <2> QED BY <1>1, <1>2, <2>1 DEF IsWork, Inserting
<1>4. IsEntry(Gap, [local |-> Found(o, 0), global |-> f, preserved |-> f, refined |-> f])
  BY <1>1, <1>3, LocalKept
<1> QED BY <1>2, <1>4, GapIsOrdered

LEMMA SeedsSmallGap ==
  ASSUME problem \in Problems, LaneInv, SeedSmallGap
  PROVE  LaneInv'
<1>1. /\ Working("lanes") /\ work # None /\ work.phase = "local"
      /\ Size(Gap) >= 2 /\ Size(Gap) <= MaxGlobalGapLanes
      /\ UNCHANGED <<problem, admitted, gap, ordered, visits, outcome>>
      /\ work' = [work EXCEPT !.phase = "seed", !.local = work.order,
                              !.order = GlobalSeed(work.cost, Gap.lanes),
                              !.rounds = problem.rounds, !.changed = TRUE]
  BY DEF SeedSmallGap, Descended, In, Step
<1>2. PICK g, w, v : g = Gap /\ w = work /\ v = work'
  OBVIOUS
<1>3. IsMeasuredGap(g) /\ IsWork(g, w) /\ w.phase = "local"
  BY <1>1, <1>2, InWork
<1>4. PICK o : o = GlobalSeed(w.cost, g.lanes)
  OBVIOUS
<1>5. DOMAIN w = WorkFields /\ w.cost = PairCosts(g) /\ IsLocal(g, w.order)
  BY <1>3 DEF IsWork, Inserting
<1>6. DOMAIN v = WorkFields /\ v.phase = "seed" /\ v.cost = w.cost /\ v.order = o /\ v.local = w.order
  BY <1>1, <1>2, <1>4, <1>5 DEF WorkFields
<1>7. IsOrdering(g, o)
  <2>1. /\ IsFiniteSet(NetsIn(g)) /\ NetsIn(g) \subseteq Nat /\ g.lanes \in [NetsIn(g) -> Nat]
        /\ AreCosts(NetsIn(g), w.cost)
    BY <1>3, <1>5, GapFacts
  <2>2. Arranges(NetsIn(g), Cardinality(NetsIn(g)), GlobalSeed(w.cost, g.lanes))
    BY ONLY <2>1, SeedArranges
  <2> QED BY <1>4, <2>2 DEF IsOrdering
<1>8. ~Large(g)
  <2>1. Size(g) <= MaxGlobalGapLanes
    BY <1>1, <1>2
  <2>2. Size(g) \in Nat /\ MaxGlobalGapLanes \in Nat
    <3>1. IsFiniteSet(NetsIn(g))
      BY <1>3, GapFacts
    <3> QED BY <3>1, FS_CardinalityType, LaneLimits DEF Size, NetsIn
  <2> QED BY <2>1, <2>2 DEF Large
<1>9. IsWork(g, v)
  BY <1>5, <1>6, <1>7, <1>8 DEF IsWork
<1> QED BY <1>1, <1>2, <1>9, WorkGoesOn

\* What is offered when it saves something, and the local order otherwise.
LEMMA OffersEither ==
  ASSUME NEW g, IsMeasuredGap(g), NEW local, IsLocal(g, local), local = work.local,
         NEW found, Earns(g, local, found.order, found.gain)
  PROVE  /\ Earns(g, local, OrLocal(found).order, OrLocal(found).gain)
         /\ OrLocal(found).gain >= 0
<1>1. Earns(g, local, local, 0) /\ found.gain \in Int
  BY Claims DEF Earns
<1>2. CASE found.gain > 0
  BY <1>1, <1>2 DEF OrLocal
<1>3. CASE ~ (found.gain > 0)
  <2>1. OrLocal(found).order = local /\ OrLocal(found).gain = 0
    BY <1>3 DEF OrLocal, Found
  <2> QED BY <1>1, <2>1
<1> QED BY <1>2, <1>3

LEMMA OrdersSmallGap ==
  ASSUME problem \in Problems, LaneInv, OrderSmallGap
  PROVE  LaneInv'
<1>1. PICK g, local, o, saved, global, other, e :
        /\ g = Gap /\ local = work.local /\ o = work.order
        /\ saved = OrderCost(work.cost, local) - OrderCost(work.cost, o)
        /\ global = OrLocal(Found(o, saved)) /\ other = Found(global.order, 0)
        /\ e = [local |-> Found(local, 0), global |-> global, preserved |-> other, refined |-> other]
  OBVIOUS
<1>2. /\ Working("lanes") /\ work # None /\ work.phase = "seed"
      /\ Ordered(local, global, other, other)
  BY <1>1 DEF OrderSmallGap, Descended, In
<1>3. IsMeasuredGap(g) /\ IsLocal(g, local) /\ IsOrdering(g, o) /\ ~Large(g) /\ work.cost = PairCosts(g)
  <2>1. IsMeasuredGap(g) /\ IsWork(g, work)
    BY <1>1, <1>2, InWork
  <2> QED BY <1>1, <1>2, <2>1 DEF IsWork, Inserting
<1>4. Earns(g, local, o, saved)
  <2>1. CostOf(g, local) \in Int /\ CostOf(g, o) \in Int
    BY <1>3, GapFacts DEF IsLocal
  <2> QED BY <1>1, <1>3, <2>1 DEF Earns, CostOf
<1>5. Earns(g, local, global.order, global.gain) /\ global.gain >= 0
  <2>1. PICK f : f = Found(o, saved)
    OBVIOUS
  <2>2. f.order = o /\ f.gain = saved
    BY <2>1 DEF Found
  <2> QED BY <1>1, <1>3, <1>4, <2>1, <2>2, OffersEither
<1>6. EarnsEnough(g, local, global.order, global.gain) /\ EarnsEnough(g, local, global.order, 0)
  BY <1>3, <1>5, Claims
<1>7. /\ e.local.order = local /\ e["global"] = global
      /\ e["preserved"].order = global.order /\ e["preserved"].gain = 0
      /\ e["refined"].order = global.order /\ e["refined"].gain = 0
  BY <1>1 DEF Found
<1>8. IsEntry(g, e)
  BY <1>3, <1>5, <1>6, <1>7 DEF IsEntry, Kinds
<1> QED BY <1>1, <1>2, <1>8, GapIsOrdered

-----------------------------------------------------------------------------
(* The steps of inserting nets.                                            *)

\* A pass of insertions that begins with an order of known worth.
PassOf(w, phase, from, to, o, gain) ==
  [w EXCEPT !.phase = phase, !.at = from, !.to = to, !.order = o, !.gain = gain, !.changed = FALSE]
StartsPass(w, v, phase, from, to, o, gain) ==
  /\ DOMAIN v = WorkFields /\ v.phase = phase /\ v.cost = w.cost /\ v.order = o /\ v.gain = gain
  /\ v.at = from /\ v.to = to
  /\ v.hot = w.hot /\ v.local = w.local /\ v.global = w.global
  /\ v.half = w.half /\ v.preserved = w.preserved

LEMMA PassBegins ==
  ASSUME NEW w, DOMAIN w = WorkFields, NEW phase, NEW from, NEW to, NEW o, NEW gain
  PROVE  StartsPass(w, PassOf(w, phase, from, to, o, gain), phase, from, to, o, gain)
<1>1. PICK v : v = PassOf(w, phase, from, to, o, gain)
  OBVIOUS
<1>2. v = [w EXCEPT !.phase = phase, !.at = from, !.to = to, !.order = o, !.gain = gain, !.changed = FALSE]
  BY <1>1 DEF PassOf
<1>3. StartsPass(w, v, phase, from, to, o, gain)
  BY ONLY <1>2, DOMAIN w = WorkFields DEF StartsPass, WorkFields
<1> QED BY <1>1, <1>3

LEMMA FewerThan ==
  ASSUME NEW limit \in Nat, NEW n \in Nat
  PROVE  Least(limit, n) \in Nat /\ Least(limit, n) <= n
BY DEF Least

LEMMA StartsInsertion ==
  ASSUME problem \in Problems, LaneInv, StartInsertion
  PROVE  LaneInv'
<1>1. PICK g, w, v, hot, u :
        /\ g = Gap /\ w = work /\ v = work'
        /\ hot = Hottest(Gap, IF admitted.refined THEN RefinedHotNets ELSE LargeHotNets)
        /\ u = [w EXCEPT !.phase = "global", !.at = 0, !.to = Least(LargeHotNets, Len(hot)),
                         !.order = Found(w.order, 0).order, !.gain = Found(w.order, 0).gain, !.changed = FALSE]
  OBVIOUS
<1>2. /\ Working("lanes") /\ work # None /\ w.phase = "local"
      /\ UNCHANGED <<problem, admitted, gap, ordered, visits, outcome>>
      /\ v = [u EXCEPT !.hot = hot, !.local = w.order]
  BY <1>1 DEF StartInsertion, Descended, In, Step, Insert
<1>3. IsMeasuredGap(g) /\ IsWork(g, w)
  BY <1>1, <1>2, InWork
<1>4. DOMAIN w = WorkFields /\ w.cost = PairCosts(g) /\ IsLocal(g, w.order)
  BY <1>2, <1>3 DEF IsWork, Inserting
<1>5. StartsPass(w, u, "global", 0, Least(LargeHotNets, Len(hot)), w.order, 0)
  <2>1. PICK f : f = Found(w.order, 0)
    OBVIOUS
  <2>2. f.order = w.order /\ f.gain = 0
    BY <2>1 DEF Found
  <2>3. u = PassOf(w, "global", 0, Least(LargeHotNets, Len(hot)), w.order, 0)
    BY <1>1, <2>1, <2>2 DEF PassOf
  <2>4. DOMAIN w = WorkFields
    BY <1>4
  <2> QED BY ONLY <2>3, <2>4, PassBegins
<1>6. /\ DOMAIN v = WorkFields /\ v.phase = "global" /\ v.cost = w.cost /\ v.order = w.order /\ v.gain = 0
      /\ v.at = 0 /\ v.to = Least(LargeHotNets, Len(hot)) /\ v.hot = hot /\ v.local = w.order
  BY <1>2, <1>5 DEF StartsPass, WorkFields
<1>7. AreSome(NetsIn(g), hot)
  <2>1. (IF admitted.refined THEN RefinedHotNets ELSE LargeHotNets) \in Nat
    BY LaneLimits
  <2> QED BY <1>1, <1>3, <2>1, HottestAreNets
<1>8. Least(LargeHotNets, Len(hot)) \in Nat /\ Least(LargeHotNets, Len(hot)) <= Len(hot)
  <2>1. Len(hot) \in Nat /\ LargeHotNets \in Nat
    BY <1>7, LaneLimits DEF AreSome
  <2> QED BY ONLY <2>1, FewerThan
<1>9. Earns(g, w.order, w.order, 0)
  BY <1>3, <1>4, Claims
<1>10. IsWork(g, v)
  BY <1>4, <1>6, <1>7, <1>8, <1>9 DEF IsWork, Inserting
<1> QED BY <1>1, <1>2, <1>10, WorkGoesOn

LEMMA AllInserted ==
  ASSUME problem \in Problems, LaneInv, NEW phase \in Inserting, AllIn(phase)
  PROVE  /\ Working("lanes") /\ IsMeasuredGap(Gap) /\ work # None /\ work.phase = phase
         /\ DOMAIN work = WorkFields /\ work.cost = PairCosts(Gap)
         /\ IsLocal(Gap, work.local) /\ Earns(Gap, work.local, work.order, work.gain)
         /\ AreSome(NetsIn(Gap), work.hot) /\ work.at \in Nat /\ work.to \in Nat /\ work.to <= Len(work.hot)
         /\ phase # "global" => Earns(Gap, work.local, work.global.order, work.global.gain)
         /\ phase \in {"preserved", "rest", "refined"} => Earns(Gap, work.local, work.half.order, work.half.gain)
         /\ phase \in {"rest", "refined"} => Earns(Gap, work.local, work.preserved.order, work.preserved.gain)
<1>1. Working("lanes") /\ work # None /\ work.phase = phase
  BY DEF AllIn, In
<1>2. IsMeasuredGap(Gap) /\ IsWork(Gap, work)
  BY <1>1, InWork
<1>3. phase # "local" /\ phase # "seed"
  BY DEF Inserting
<1> QED BY <1>1, <1>2, <1>3 DEF IsWork

\* One net is put where it costs least.
LEMMA InsertsNet ==
  ASSUME problem \in Problems, LaneInv, InsertNet
  PROVE  LaneInv'
<1>1. PICK g, w, v, net, now, others, at :
        /\ g = Gap /\ w = work /\ v = work'
        /\ net = work.hot[work.at + 1] /\ now = PlaceOf(work.order, net)
        /\ others = RemoveAt(work.order, now) /\ at = InsertionCost(work.cost, net, others)
  OBVIOUS
<1>2. /\ Working("lanes") /\ work # None /\ w.phase \in Inserting /\ w.at < w.to
      /\ UNCHANGED <<problem, admitted, gap, ordered, visits, outcome>>
      /\ \E best \in DOMAIN at :
            v = IF at[best] < at[now - 1]
                THEN [w EXCEPT !.order = PutAt(others, net, best),
                               !.gain = w.gain + at[now - 1] - at[best],
                               !.changed = TRUE, !.at = w.at + 1]
                ELSE [w EXCEPT !.at = w.at + 1]
  BY <1>1 DEF InsertNet, In, Step, Inserting
<1>3. IsMeasuredGap(g) /\ IsWork(g, w)
  BY <1>1, <1>2, InWork
<1>4. /\ DOMAIN w = WorkFields /\ w.cost = PairCosts(g)
      /\ IsLocal(g, w.local) /\ Earns(g, w.local, w.order, w.gain)
      /\ AreSome(NetsIn(g), w.hot) /\ w.at \in Nat /\ w.to \in Nat /\ w.to <= Len(w.hot)
      /\ w.phase # "global" => Earns(g, w.local, w.global.order, w.global.gain)
      /\ w.phase \in {"preserved", "rest", "refined"} => Earns(g, w.local, w.half.order, w.half.gain)
      /\ w.phase \in {"rest", "refined"} => Earns(g, w.local, w.preserved.order, w.preserved.gain)
  BY <1>2, <1>3 DEF IsWork, Inserting
<1>5. net \in NetsIn(g)
  <2>1. w.at + 1 \in 1..Len(w.hot)
    BY <1>2, <1>4 DEF AreSome
  <2> QED BY <1>1, <1>4, <2>1 DEF AreSome
<1>6. PICK T, n : T = NetsIn(g) /\ n = Cardinality(T)
  OBVIOUS
<1>7. NetMoves(T, n, w.cost, w.order, net)
  <2>1. AreCosts(T, w.cost) /\ Arranges(T, n, w.order) /\ net \in T
    BY <1>3, <1>4, <1>5, <1>6, GapFacts DEF Earns, IsOrdering
  <2> QED BY ONLY <2>1, MovedNet
<1>8. /\ now - 1 \in DOMAIN at
      /\ \A best \in DOMAIN at :
            /\ Arranges(T, n, PutAt(others, net, best)) /\ at[best] \in Int
            /\ at[now - 1] - at[best] = OrderCost(w.cost, w.order) - OrderCost(w.cost, PutAt(others, net, best))
            /\ OrderCost(w.cost, PutAt(others, net, best)) \in Int
  BY <1>1, <1>7 DEF NetMoves
<1>9. PICK best \in DOMAIN at :
            v = IF at[best] < at[now - 1]
                THEN [w EXCEPT !.order = PutAt(others, net, best),
                               !.gain = w.gain + at[now - 1] - at[best],
                               !.changed = TRUE, !.at = w.at + 1]
                ELSE [w EXCEPT !.at = w.at + 1]
  BY <1>2
<1>10. PICK p, gain : p = PutAt(others, net, best) /\ gain = w.gain + at[now - 1] - at[best]
  OBVIOUS
<1>11. Earns(g, w.local, p, gain)
  <2>1. IsOrdering(g, p)
    BY <1>6, <1>8, <1>10 DEF IsOrdering
  <2>2. PICK x, y, z, d, e : /\ x = CostOf(g, w.local) /\ y = CostOf(g, w.order) /\ z = CostOf(g, p)
                             /\ d = at[now - 1] /\ e = at[best]
    OBVIOUS
  <2>3. x \in Int /\ y \in Int /\ z \in Int /\ d \in Int /\ e \in Int
    BY <1>3, <1>4, <1>8, <2>1, <2>2, GapFacts DEF IsLocal, Earns
  <2>4. d - e = y - z
    BY <1>4, <1>8, <1>10, <2>2 DEF CostOf
  <2>5. w.gain \in Int /\ w.gain = x - y
    BY <1>4, <2>2 DEF Earns
  <2>6. gain = w.gain + (d - e)
    BY <1>10, <2>2
  <2>7. gain \in Int /\ gain = x - z
    BY ONLY <2>3, <2>4, <2>5, <2>6
  <2> QED BY <2>1, <2>2, <2>7 DEF Earns
<1>12. /\ DOMAIN v = WorkFields /\ v.phase = w.phase /\ v.cost = w.cost /\ v.hot = w.hot
       /\ v.at = w.at + 1 /\ v.to = w.to /\ v.local = w.local /\ v.global = w.global
       /\ v.half = w.half /\ v.preserved = w.preserved
       /\ (v.order = p /\ v.gain = gain) \/ (v.order = w.order /\ v.gain = w.gain)
  <2>1. CASE at[best] < at[now - 1]
    <3>1. v = [w EXCEPT !.order = p, !.gain = gain, !.changed = TRUE, !.at = w.at + 1]
      BY <1>9, <1>10, <2>1
    <3> QED BY ONLY <1>4, <3>1 DEF WorkFields
  <2>2. CASE ~ (at[best] < at[now - 1])
    <3>1. v = [w EXCEPT !.at = w.at + 1]
      BY <1>9, <2>2
    <3> QED BY ONLY <1>4, <3>1 DEF WorkFields
  <2> QED BY <2>1, <2>2
<1>13. Earns(g, v.local, v.order, v.gain)
  BY <1>4, <1>11, <1>12
<1>14. v.at \in Nat
  BY <1>4, <1>12
<1>15. IsWork(g, v)
  BY ONLY <1>2, <1>4, <1>12, <1>13, <1>14 DEF IsWork
<1> QED BY <1>1, <1>2, <1>15, WorkGoesOn

LEMMA OrdersLargeGap ==
  ASSUME problem \in Problems, LaneInv, OrderLargeGap
  PROVE  LaneInv'
<1>1. PICK g, local, global, other, e :
        /\ g = Gap /\ local = work.local
        /\ global = OrLocal(FoundNow) /\ other = Found(local, 0)
        /\ e = [local |-> Found(local, 0), global |-> global, preserved |-> other, refined |-> other]
  OBVIOUS
<1>2. AllIn("global") /\ Ordered(local, global, other, other)
  BY <1>1 DEF OrderLargeGap
<1>3. "global" \in Inserting
  BY DEF Inserting
<1>4. Working("lanes") /\ IsMeasuredGap(g) /\ IsLocal(g, local) /\ Earns(g, local, work.order, work.gain)
  BY <1>1, <1>2, <1>3, AllInserted
<1>5. Earns(g, local, global.order, global.gain)
  <2>1. PICK f : f = FoundNow
    OBVIOUS
  <2>2. f.order = work.order /\ f.gain = work.gain
    BY <2>1 DEF FoundNow, Found
  <2> QED BY <1>1, <1>4, <2>1, <2>2, OffersEither
<1>6. /\ EarnsEnough(g, local, global.order, global.gain)
      /\ Earns(g, local, local, 0) /\ EarnsEnough(g, local, local, 0)
  BY <1>4, <1>5, Claims
<1>7. /\ e.local.order = local /\ e["global"] = global
      /\ e["preserved"].order = local /\ e["preserved"].gain = 0
      /\ e["refined"].order = local /\ e["refined"].gain = 0
  BY <1>1 DEF Found
<1>8. IsEntry(g, e)
  BY <1>4, <1>5, <1>6, <1>7 DEF IsEntry, Kinds
<1> QED BY <1>1, <1>2, <1>4, <1>8, GapIsOrdered

\* The wanted number of nets is not more than there are.
LEMMA MoreIsEnough ==
  ASSUME Len(work.hot) \in Nat
  PROVE  More \in Nat /\ More <= Len(work.hot)
BY FewerThan, LaneLimits DEF More

LEMMA PassesGlobal ==
  ASSUME problem \in Problems, LaneInv, PassGlobal
  PROVE  LaneInv'
<1>1. PICK g, w, v, u, f :
        /\ g = Gap /\ w = work /\ v = work' /\ f = FoundNow
        /\ u = [w EXCEPT !.phase = "half", !.at = w.at, !.to = More,
                         !.order = f.order, !.gain = f.gain, !.changed = FALSE]
  OBVIOUS
<1>2. /\ AllIn("global") /\ UNCHANGED <<problem, admitted, gap, ordered, visits, outcome>>
      /\ v = [u EXCEPT !.global = f]
  BY <1>1 DEF PassGlobal, Step, Insert
<1>3. "global" \in Inserting
  BY DEF Inserting
<1>4. /\ Working("lanes") /\ IsMeasuredGap(g)
      /\ DOMAIN w = WorkFields /\ w.cost = PairCosts(g)
      /\ IsLocal(g, w.local) /\ Earns(g, w.local, w.order, w.gain)
      /\ AreSome(NetsIn(g), w.hot) /\ w.at \in Nat
  BY <1>1, <1>2, <1>3, AllInserted
<1>5. f.order = w.order /\ f.gain = w.gain
  BY <1>1 DEF FoundNow, Found
<1>6. StartsPass(w, u, "half", w.at, More, f.order, f.gain)
  <2>1. u = PassOf(w, "half", w.at, More, f.order, f.gain)
    BY <1>1 DEF PassOf
  <2>2. DOMAIN w = WorkFields
    BY <1>4
  <2> QED BY ONLY <2>1, <2>2, PassBegins
<1>7. /\ DOMAIN v = WorkFields /\ v.phase = "half" /\ v.cost = w.cost /\ v.order = w.order /\ v.gain = w.gain
      /\ v.at = w.at /\ v.to = More /\ v.hot = w.hot /\ v.local = w.local /\ v.global = f
  BY <1>2, <1>5, <1>6 DEF StartsPass, WorkFields
<1>8. More \in Nat /\ More <= Len(w.hot)
  BY <1>1, <1>4, MoreIsEnough DEF AreSome
<1>9. IsWork(g, v)
  BY <1>4, <1>5, <1>7, <1>8 DEF IsWork, Inserting
<1> QED BY <1>1, <1>2, <1>4, <1>9, WorkGoesOn

LEMMA PassesHalf ==
  ASSUME problem \in Problems, LaneInv, PassHalf
  PROVE  LaneInv'
<1>1. PICK g, w, v, u, f :
        /\ g = Gap /\ w = work /\ v = work' /\ f = FoundNow
        /\ u = [w EXCEPT !.phase = "preserved", !.at = 0, !.to = More,
                         !.order = f.order, !.gain = f.gain, !.changed = FALSE]
  OBVIOUS
<1>2. /\ AllIn("half") /\ UNCHANGED <<problem, admitted, gap, ordered, visits, outcome>>
      /\ v = [u EXCEPT !.half = f, !.rounds = PreservedRounds - 1]
  BY <1>1 DEF PassHalf, Step, Insert
<1>3. "half" \in Inserting /\ "half" # "global"
  BY DEF Inserting
<1>4. /\ Working("lanes") /\ IsMeasuredGap(g)
      /\ DOMAIN w = WorkFields /\ w.cost = PairCosts(g)
      /\ IsLocal(g, w.local) /\ Earns(g, w.local, w.order, w.gain)
      /\ AreSome(NetsIn(g), w.hot)
      /\ Earns(g, w.local, w.global.order, w.global.gain)
  BY <1>1, <1>2, <1>3, AllInserted
<1>5. f.order = w.order /\ f.gain = w.gain
  BY <1>1 DEF FoundNow, Found
<1>6. StartsPass(w, u, "preserved", 0, More, f.order, f.gain)
  <2>1. u = PassOf(w, "preserved", 0, More, f.order, f.gain)
    BY <1>1 DEF PassOf
  <2>2. DOMAIN w = WorkFields
    BY <1>4
  <2> QED BY ONLY <2>1, <2>2, PassBegins
<1>7. /\ DOMAIN v = WorkFields /\ v.phase = "preserved" /\ v.cost = w.cost /\ v.order = w.order /\ v.gain = w.gain
      /\ v.at = 0 /\ v.to = More /\ v.hot = w.hot /\ v.local = w.local /\ v.global = w.global /\ v.half = f
  BY <1>2, <1>5, <1>6 DEF StartsPass, WorkFields
<1>8. More \in Nat /\ More <= Len(w.hot)
  BY <1>1, <1>4, MoreIsEnough DEF AreSome
<1>9. IsWork(g, v)
  BY <1>4, <1>5, <1>7, <1>8 DEF IsWork, Inserting
<1> QED BY <1>1, <1>2, <1>4, <1>9, WorkGoesOn

LEMMA RepeatsRound ==
  ASSUME problem \in Problems, LaneInv, RepeatRound
  PROVE  LaneInv'
<1>1. PICK g, w, v, u, f :
        /\ g = Gap /\ w = work /\ v = work' /\ f = FoundNow
        /\ u = [w EXCEPT !.phase = w.phase, !.at = 0, !.to = w.to,
                         !.order = f.order, !.gain = f.gain, !.changed = FALSE]
  OBVIOUS
<1>2. /\ AllIn(w.phase) /\ w.phase \in {"preserved", "refined"}
      /\ UNCHANGED <<problem, admitted, gap, ordered, visits, outcome>>
      /\ v = [u EXCEPT !.rounds = u.rounds - 1]
  BY <1>1 DEF RepeatRound, Step, Insert, AllIn, In
<1>3. w.phase \in Inserting
  BY <1>2 DEF Inserting
<1>4. /\ Working("lanes") /\ IsMeasuredGap(g)
      /\ DOMAIN w = WorkFields /\ w.cost = PairCosts(g)
      /\ IsLocal(g, w.local) /\ Earns(g, w.local, w.order, w.gain)
      /\ AreSome(NetsIn(g), w.hot) /\ w.to \in Nat /\ w.to <= Len(w.hot)
      /\ w.phase # "global" => Earns(g, w.local, w.global.order, w.global.gain)
      /\ w.phase \in {"preserved", "rest", "refined"} => Earns(g, w.local, w.half.order, w.half.gain)
      /\ w.phase \in {"rest", "refined"} => Earns(g, w.local, w.preserved.order, w.preserved.gain)
  BY <1>1, <1>2, <1>3, AllInserted
<1>5. f.order = w.order /\ f.gain = w.gain
  BY <1>1 DEF FoundNow, Found
<1>6. StartsPass(w, u, w.phase, 0, w.to, f.order, f.gain)
  <2>1. u = PassOf(w, w.phase, 0, w.to, f.order, f.gain)
    BY <1>1 DEF PassOf
  <2>2. DOMAIN w = WorkFields
    BY <1>4
  <2> QED BY ONLY <2>1, <2>2, PassBegins
<1>7. /\ DOMAIN v = WorkFields /\ v.phase = w.phase /\ v.cost = w.cost /\ v.order = w.order /\ v.gain = w.gain
      /\ v.at = 0 /\ v.to = w.to /\ v.hot = w.hot /\ v.local = w.local
      /\ v.global = w.global /\ v.half = w.half /\ v.preserved = w.preserved
  BY <1>2, <1>5, <1>6 DEF StartsPass, WorkFields
<1>8. IsWork(g, v)
  BY ONLY <1>3, <1>4, <1>7 DEF IsWork
<1> QED BY <1>1, <1>2, <1>4, <1>8, WorkGoesOn

LEMMA PassesPreserved ==
  ASSUME problem \in Problems, LaneInv, PassPreserved
  PROVE  LaneInv'
<1>1. PICK g, w, v, u, f :
        /\ g = Gap /\ w = work /\ v = work' /\ f = FoundNow
        /\ u = [w EXCEPT !.phase = "rest", !.at = More, !.to = Len(w.hot),
                         !.order = w.half.order, !.gain = w.half.gain, !.changed = FALSE]
  OBVIOUS
<1>2. /\ AllIn("preserved") /\ UNCHANGED <<problem, admitted, gap, ordered, visits, outcome>>
      /\ v = [u EXCEPT !.preserved = f]
  BY <1>1 DEF PassPreserved, Step, Insert
<1>3. "preserved" \in Inserting /\ "preserved" # "global" /\ "preserved" \in {"preserved", "rest", "refined"}
  BY DEF Inserting
<1>4. /\ Working("lanes") /\ IsMeasuredGap(g)
      /\ DOMAIN w = WorkFields /\ w.cost = PairCosts(g)
      /\ IsLocal(g, w.local) /\ Earns(g, w.local, w.order, w.gain)
      /\ AreSome(NetsIn(g), w.hot)
      /\ Earns(g, w.local, w.global.order, w.global.gain)
      /\ Earns(g, w.local, w.half.order, w.half.gain)
  BY <1>1, <1>2, <1>3, AllInserted
<1>5. f.order = w.order /\ f.gain = w.gain
  BY <1>1 DEF FoundNow, Found
<1>6. StartsPass(w, u, "rest", More, Len(w.hot), w.half.order, w.half.gain)
  <2>1. u = PassOf(w, "rest", More, Len(w.hot), w.half.order, w.half.gain)
    BY <1>1 DEF PassOf
  <2>2. DOMAIN w = WorkFields
    BY <1>4
  <2> QED BY ONLY <2>1, <2>2, PassBegins
<1>7. /\ DOMAIN v = WorkFields /\ v.phase = "rest" /\ v.cost = w.cost
      /\ v.order = w.half.order /\ v.gain = w.half.gain
      /\ v.at = More /\ v.to = Len(w.hot) /\ v.hot = w.hot /\ v.local = w.local
      /\ v.global = w.global /\ v.half = w.half /\ v.preserved = f
  BY <1>2, <1>6 DEF StartsPass, WorkFields
<1>8. More \in Nat /\ Len(w.hot) \in Nat /\ Len(w.hot) <= Len(w.hot)
  BY <1>1, <1>4, MoreIsEnough DEF AreSome
<1>9. IsWork(g, v)
  BY <1>4, <1>5, <1>7, <1>8 DEF IsWork, Inserting
<1> QED BY <1>1, <1>2, <1>4, <1>9, WorkGoesOn

LEMMA RefinesFurther ==
  ASSUME problem \in Problems, LaneInv, RefineFurther
  PROVE  LaneInv'
<1>1. PICK g, w, v, u, f :
        /\ g = Gap /\ w = work /\ v = work' /\ f = FoundNow
        /\ u = [w EXCEPT !.phase = "refined", !.at = 0, !.to = Len(w.hot),
                         !.order = f.order, !.gain = f.gain, !.changed = FALSE]
  OBVIOUS
<1>2. /\ AllIn("rest") /\ UNCHANGED <<problem, admitted, gap, ordered, visits, outcome>>
      /\ v = [u EXCEPT !.rounds = RefinedRounds - 1]
  BY <1>1 DEF RefineFurther, Step, Insert
<1>3. /\ "rest" \in Inserting /\ "rest" # "global"
      /\ "rest" \in {"preserved", "rest", "refined"} /\ "rest" \in {"rest", "refined"}
  BY DEF Inserting
<1>4. /\ Working("lanes") /\ IsMeasuredGap(g)
      /\ DOMAIN w = WorkFields /\ w.cost = PairCosts(g)
      /\ IsLocal(g, w.local) /\ Earns(g, w.local, w.order, w.gain)
      /\ AreSome(NetsIn(g), w.hot)
      /\ Earns(g, w.local, w.global.order, w.global.gain)
      /\ Earns(g, w.local, w.half.order, w.half.gain)
      /\ Earns(g, w.local, w.preserved.order, w.preserved.gain)
  BY <1>1, <1>2, <1>3, AllInserted
<1>5. f.order = w.order /\ f.gain = w.gain
  BY <1>1 DEF FoundNow, Found
<1>6. StartsPass(w, u, "refined", 0, Len(w.hot), f.order, f.gain)
  <2>1. u = PassOf(w, "refined", 0, Len(w.hot), f.order, f.gain)
    BY <1>1 DEF PassOf
  <2>2. DOMAIN w = WorkFields
    BY <1>4
  <2> QED BY ONLY <2>1, <2>2, PassBegins
<1>7. /\ DOMAIN v = WorkFields /\ v.phase = "refined" /\ v.cost = w.cost /\ v.order = w.order /\ v.gain = w.gain
      /\ v.at = 0 /\ v.to = Len(w.hot) /\ v.hot = w.hot /\ v.local = w.local
      /\ v.global = w.global /\ v.half = w.half /\ v.preserved = w.preserved
  BY <1>2, <1>5, <1>6 DEF StartsPass, WorkFields
<1>8. Len(w.hot) \in Nat /\ Len(w.hot) <= Len(w.hot)
  BY <1>4 DEF AreSome
<1>9. IsWork(g, v)
  BY <1>4, <1>7, <1>8 DEF IsWork, Inserting
<1> QED BY <1>1, <1>2, <1>4, <1>9, WorkGoesOn

LEMMA RefinesLargeGap ==
  ASSUME problem \in Problems, LaneInv, RefineLargeGap
  PROVE  LaneInv'
<1>1. PICK g, w, local, global, preserved, refined, e :
        /\ g = Gap /\ w = work /\ local = work.local
        /\ global = OrLocal(work.global) /\ preserved = OrLocal(work.preserved) /\ refined = OrLocal(FoundNow)
        /\ e = [local |-> Found(local, 0), global |-> global, preserved |-> preserved, refined |-> refined]
  OBVIOUS
<1>2. AllIn(w.phase) /\ w.phase \in {"rest", "refined"} /\ Ordered(local, global, preserved, refined)
  BY <1>1 DEF RefineLargeGap, AllIn, In
<1>3. w.phase \in Inserting /\ w.phase # "global"
  BY <1>2 DEF Inserting
<1>4. /\ Working("lanes") /\ IsMeasuredGap(g) /\ IsLocal(g, local)
      /\ Earns(g, local, w.order, w.gain)
      /\ Earns(g, local, w.global.order, w.global.gain)
      /\ Earns(g, local, w.preserved.order, w.preserved.gain)
  BY <1>1, <1>2, <1>3, AllInserted
<1>5. Earns(g, local, global.order, global.gain) /\ Earns(g, local, preserved.order, preserved.gain)
  BY <1>1, <1>4, OffersEither
<1>6. Earns(g, local, refined.order, refined.gain)
  <2>1. PICK f : f = FoundNow
    OBVIOUS
  <2>2. f.order = w.order /\ f.gain = w.gain
    BY <1>1, <2>1 DEF FoundNow, Found
  <2> QED BY <1>1, <1>4, <2>1, <2>2, OffersEither
<1>7. /\ EarnsEnough(g, local, global.order, global.gain)
      /\ EarnsEnough(g, local, preserved.order, preserved.gain)
      /\ EarnsEnough(g, local, refined.order, refined.gain)
  BY <1>4, <1>5, <1>6, Claims
<1>8. e.local.order = local /\ e["global"] = global /\ e["preserved"] = preserved /\ e["refined"] = refined
  BY <1>1 DEF Found
<1>9. IsEntry(g, e)
  BY <1>4, <1>5, <1>6, <1>7, <1>8 DEF IsEntry, Kinds
<1> QED BY <1>1, <1>2, <1>4, <1>9, GapIsOrdered

-----------------------------------------------------------------------------
(* The orders that are offered.                                            *)

\* What the orders of one kind are worth over all gaps.
KindEarns(kind) ==
  /\ \A k \in DOMAIN problem.gaps :
        /\ Range(Orders(kind)[k]) = DOMAIN problem.gaps[k].lanes
        /\ Len(Orders(kind)[k]) = Size(problem.gaps[k])
  /\ Gain(kind) >= MinGlobalGapOrderGain =>
       Total([k \in DOMAIN problem.gaps |-> Saved(k, Orders(kind)[k])]) >= MinGlobalGapOrderGain

LEMMA OrdersOfKind ==
  ASSUME problem \in Problems, problem.job = "lanes", LaneInv, gap > Len(problem.gaps), NEW kind \in Kinds
  PROVE  KindEarns(kind)
<1>1. PICK n : n = Len(problem.gaps)
  OBVIOUS
<1>2. /\ n \in Nat /\ DOMAIN problem.gaps = 1..n /\ DOMAIN ordered = 1..n
      /\ \A k \in 1..n : IsEntry(problem.gaps[k], ordered[k]) /\ IsMeasuredGap(problem.gaps[k])
  <2>1. /\ gap \in Nat /\ gap <= n + 1 /\ Len(ordered) = gap - 1 /\ IsList(ordered)
        /\ \A k \in 1..Len(ordered) : IsEntry(problem.gaps[k], ordered[k])
    BY <1>1 DEF LaneInv
  <2>2. n \in Nat /\ DOMAIN problem.gaps = 1..n /\ \A k \in 1..n : IsMeasuredGap(problem.gaps[k])
    BY <1>1, GapMeasured
  <2>3. Len(ordered) = n
    BY <1>1, <2>1, <2>2
  <2>4. DOMAIN ordered = 1..n
    BY <2>1, <2>3 DEF IsList
  <2> QED BY <2>1, <2>2, <2>3, <2>4
<1>3. PICK o, f, s : /\ o = Orders(kind) /\ f = [k \in 1..n |-> ordered[k][kind].gain]
                     /\ s = [k \in 1..n |-> Saved(k, o[k])]
  OBVIOUS
<1>4. \A k \in 1..n : o[k] = ordered[k][kind].order
  BY <1>2, <1>3 DEF Orders
<1>5. \A k \in 1..n : EarnsEnough(problem.gaps[k], ordered[k].local.order, o[k], f[k])
                      /\ IsLocal(problem.gaps[k], ordered[k].local.order)
  BY <1>2, <1>3, <1>4 DEF IsEntry
<1>6. ASSUME NEW k \in 1..n PROVE f[k] \in Int /\ s[k] \in Int /\ f[k] <= s[k]
  <2>1. PICK g, local : g = problem.gaps[k] /\ local = ordered[k].local.order
    OBVIOUS
  <2>2. /\ IsOrdering(g, o[k]) /\ IsOrdering(g, local) /\ IsMeasuredGap(g)
        /\ f[k] \in Int /\ f[k] <= CostOf(g, local) - CostOf(g, o[k])
    BY <1>2, <1>5, <2>1 DEF EarnsEnough, IsLocal
  <2>3. CostOf(g, local) \in Int /\ CostOf(g, o[k]) \in Int
    BY <2>2, GapFacts
  <2>4. s[k] = CostOf(g, local) - CostOf(g, o[k])
    BY <1>3, <2>1 DEF Saved, CostIn, CostOf
  <2> QED BY <2>2, <2>3, <2>4
<1>7. Gain(kind) <= Total([k \in DOMAIN problem.gaps |-> Saved(k, o[k])])
  <2>1. Total([k \in 1..n |-> f[k]]) <= Total([k \in 1..n |-> s[k]])
    BY ONLY <1>2, <1>6, TotalsGrow
  <2>2. [k \in 1..n |-> f[k]] = [k \in DOMAIN ordered |-> ordered[k][kind].gain]
    BY <1>2, <1>3
  <2>3. [k \in 1..n |-> s[k]] = [k \in DOMAIN problem.gaps |-> Saved(k, o[k])]
    BY <1>2, <1>3
  <2> QED BY <2>1, <2>2, <2>3 DEF Gain
<1>8. Gain(kind) \in Int /\ Total([k \in DOMAIN problem.gaps |-> Saved(k, o[k])]) \in Int
  <2>1. Len(f) = n /\ Len(s) = n
    BY <1>2, <1>3
  <2>2. Total(f) \in Int
    BY ONLY <1>2, <1>6, <2>1, TotalIsNumber
  <2>3. Total(s) \in Int
    BY ONLY <1>2, <1>6, <2>1, TotalIsNumber
  <2>4. f = [k \in DOMAIN ordered |-> ordered[k][kind].gain]
    BY <1>2, <1>3
  <2>5. s = [k \in DOMAIN problem.gaps |-> Saved(k, o[k])]
    BY <1>2, <1>3
  <2> QED BY <2>2, <2>3, <2>4, <2>5 DEF Gain
<1>9. Gain(kind) >= MinGlobalGapOrderGain =>
        Total([k \in DOMAIN problem.gaps |-> Saved(k, o[k])]) >= MinGlobalGapOrderGain
  <2>1. MinGlobalGapOrderGain \in Int
    BY LaneLimits
  <2> QED BY ONLY <1>7, <1>8, <2>1
<1>10. ASSUME NEW k \in DOMAIN problem.gaps
       PROVE  Range(o[k]) = DOMAIN problem.gaps[k].lanes /\ Len(o[k]) = Size(problem.gaps[k])
  <2>1. IsOrdering(problem.gaps[k], o[k])
    BY <1>2, <1>5 DEF EarnsEnough
  <2>2. PICK T, m : T = DOMAIN problem.gaps[k].lanes /\ m = Cardinality(T)
    OBVIOUS
  <2>3. Arranges(T, m, o[k])
    BY <2>1, <2>2 DEF IsOrdering, NetsIn
  <2>4. Len(o[k]) = m /\ DOMAIN o[k] = 1..m
    BY <2>3 DEF Arranges, Enlists
  <2>5. Range(o[k]) = T
    BY <2>3, <2>4 DEF Arranges, Enlists, Range
  <2> QED BY <2>2, <2>4, <2>5 DEF Size
<1> QED BY <1>3, <1>9, <1>10 DEF KindEarns

LEMMA OffersOrders ==
  ASSUME problem \in Problems, LaneInv, OfferOrders
  PROVE  LaneInv'
<1>1. /\ problem.job = "lanes" /\ outcome = None /\ gap > Len(problem.gaps)
      /\ UNCHANGED <<problem, admitted, gap, work, ordered, visits>>
  BY DEF OfferOrders
<1>2. PICK global, preserved, refined :
        /\ outcome' = [local |-> Orders("local"), global |-> global, preserved |-> preserved, refined |-> refined]
        /\ global # None => global = Orders("global") /\ Gain("global") >= MinGlobalGapOrderGain
        /\ preserved # None => /\ preserved = Orders("preserved") /\ Gain("preserved") >= MinGlobalGapOrderGain
                               /\ preserved # global
        /\ refined # None => /\ refined = Orders("refined") /\ Gain("refined") >= MinGlobalGapOrderGain
                             /\ refined # global /\ refined # preserved
  BY DEF OfferOrders
<1>3. PICK off : off = outcome'
  OBVIOUS
<1>4. off["global"] = global /\ off["preserved"] = preserved /\ off["refined"] = refined
  BY <1>2, <1>3
<1>5. ASSUME NEW kind \in Kinds, off[kind] # None
      PROVE  /\ \A k \in DOMAIN problem.gaps :
                   /\ Range(off[kind][k]) = DOMAIN problem.gaps[k].lanes
                   /\ Len(off[kind][k]) = Size(problem.gaps[k])
             /\ Total([k \in DOMAIN problem.gaps |-> Saved(k, off[kind][k])]) >= MinGlobalGapOrderGain
             /\ \A other \in Kinds \ {kind} : off[other] # off[kind]
  <2>1. off[kind] = Orders(kind) /\ Gain(kind) >= MinGlobalGapOrderGain
    BY <1>2, <1>4, <1>5 DEF Kinds
  <2>2. KindEarns(kind)
    BY <1>1, OrdersOfKind
  <2>3. \A other \in Kinds \ {kind} : off[other] # off[kind]
    BY <1>2, <1>4, <1>5 DEF Kinds
  <2> QED BY <2>1, <2>2, <2>3 DEF KindEarns
<1>6. OffersEarn'
  <2>1. problem' = problem /\ ordered' = ordered /\ outcome' = off
    BY <1>1, <1>3
  <2> QED BY <1>5, <2>1 DEF OffersEarn, Saved, CostIn
<1>7. Gap' = Gap
  BY <1>1 DEF Gap
<1> QED BY <1>1, <1>6, <1>7 DEF LaneInv

LEMMA OrdersStay ==
  ASSUME LaneInv, UNCHANGED <<problem, gap, work, ordered, outcome>>
  PROVE  LaneInv'
<1>1. problem' = problem /\ gap' = gap /\ work' = work /\ ordered' = ordered /\ outcome' = outcome
  OBVIOUS
<1>2. Gap' = Gap
  BY <1>1 DEF Gap
<1>3. OffersEarn => OffersEarn'
  BY <1>1 DEF OffersEarn, Saved, CostIn
<1> QED BY <1>1, <1>2, <1>3 DEF LaneInv

LEMMA LaneSteps ==
  ASSUME problem \in Problems, LaneInv, [LaneNext]_laneVars
  PROVE  LaneInv'
<1>1. problem' = problem
  BY ProblemStays
<1>2. CASE problem.job # "lanes"
  BY <1>1, <1>2 DEF LaneInv
<1>3. CASE problem.job = "lanes"
  <2>1. ~Working("pitch") /\ "lanes" # "repair" /\ "lanes" # "pitch"
    BY <1>3 DEF Working
  <2>2. CASE UNCHANGED laneVars
    BY <2>2, OrdersStay DEF laneVars
  <2>3. CASE Admit
    BY <2>3, OrdersStay DEF Admit
  <2>4. CASE EnterGap \/ Descend \/ KeepLocal \/ SeedSmallGap \/ OrderSmallGap
    BY <2>4, EntersGap, Descends, KeepsLocal, SeedsSmallGap, OrdersSmallGap
  <2>5. CASE StartInsertion \/ InsertNet \/ OrderLargeGap \/ PassGlobal \/ PassHalf
    BY <2>5, StartsInsertion, InsertsNet, OrdersLargeGap, PassesGlobal, PassesHalf
  <2>6. CASE RepeatRound \/ PassPreserved \/ RefineFurther \/ RefineLargeGap \/ OfferOrders
    BY <2>6, RepeatsRound, PassesPreserved, RefinesFurther, RefinesLargeGap, OffersOrders
  <2>7. CASE EnterPitchGap \/ ColourTrack \/ SlotGap \/ LeaveGap \/ OfferTracks \/ MoveForRepair
    BY <1>3, <2>1, <2>7 DEF EnterPitchGap, ColourTrack, SlotGap, LeaveGap, OfferTracks, MoveForRepair
  <2>8. CASE LanesDone
    BY <2>2, <2>8 DEF LanesDone
  <2> QED BY <2>2, <2>3, <2>4, <2>5, <2>6, <2>7, <2>8 DEF LaneNext
<1> QED BY <1>2, <1>3

LEMMA OrdersShow ==
  ASSUME LaneInv
  PROVE  OrdersEarnTheirDrawing
<1>1. CASE problem.job = "lanes"
  <2>1. /\ IsList(ordered) /\ \A k \in 1..Len(ordered) : IsEntry(problem.gaps[k], ordered[k])
        /\ outcome # None => OffersEarn
    BY <1>1 DEF LaneInv
  <2>2. DOMAIN ordered = 1..Len(ordered)
    BY <2>1 DEF IsList
  <2>3. ASSUME NEW k \in DOMAIN ordered
        PROVE  CostIn(k, ordered[k].local.order) <= CostIn(k, OrderOf(problem.gaps[k].lanes))
    BY <2>1, <2>2 DEF IsEntry, IsLocal, CostIn, CostOf
  <2>4. ASSUME NEW k \in DOMAIN ordered, NEW kind \in Kinds, kind = "global" \/ Large(problem.gaps[k])
        PROVE  ordered[k][kind].gain = Saved(k, ordered[k][kind].order)
    <3>1. Earns(problem.gaps[k], ordered[k].local.order, ordered[k][kind].order, ordered[k][kind].gain)
      BY <2>1, <2>2, <2>4 DEF IsEntry
    <3> QED BY <3>1 DEF Earns, Saved, CostIn, CostOf
  <2> QED BY <2>1, <2>3, <2>4 DEF OrdersEarnTheirDrawing, OffersEarn
<1> QED BY <1>1 DEF OrdersEarnTheirDrawing

(* The descent never makes a gap worse, the gain that is claimed for an     *)
(* order is what it saves over the local one, and an order is only drawn    *)
(* when it keeps every net in a lane of its own, saves enough and is not    *)
(* drawn already, for every problem, every limit and any number of rounds   *)
(* (crossing_aware_gap_lanes).                                              *)
THEOREM OrdersAreWorthIt == LaneSpec => []OrdersEarnTheirDrawing
<1> DEFINE Inv == problem \in Problems /\ LaneInv
<1>1. LaneInit => Inv
  <2> SUFFICES ASSUME LaneInit PROVE Inv
    OBVIOUS
  <2>1. problem \in Problems /\ gap = 1 /\ work = None /\ ordered = <<>> /\ outcome = None
    BY DEF LaneInit
  <2>2. Len(problem.gaps) \in Nat
    <3>1. IsProblem(problem)
      BY <2>1, ProblemsAssumption
    <3> QED BY <3>1 DEF IsProblem
  <2>3. IsList(ordered) /\ Len(ordered) = 0
    <3>1. Len(ordered) = 0 /\ ordered = [i \in 1..0 |-> ordered[i]] /\ 1..0 = {}
      BY <2>1
    <3> QED BY <3>1 DEF IsList
  <2>4. LaneInv
    BY <2>1, <2>2, <2>3 DEF LaneInv
  <2> QED BY <2>1, <2>4
<1>2. Inv /\ [LaneNext]_laneVars => Inv'
  BY LaneSteps, ProblemStays
<1>3. Inv => OrdersEarnTheirDrawing
  BY OrdersShow
<1> QED BY <1>1, <1>2, <1>3, PTL DEF LaneSpec

=============================================================================
