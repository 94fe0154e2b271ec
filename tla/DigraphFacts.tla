---------------------------- MODULE DigraphFacts ----------------------------
(* What is used of finite sets and of reachability: the finite part does   *)
(* without an induction over predicates, the reachability part without     *)
(* paths.                                                                  *)
EXTENDS Digraph, Integers, FiniteSets, FiniteSetsExt, FiniteSetTheorems,
        Functions, NaturalsInduction, WellFoundedInduction, TLAPS

-----------------------------------------------------------------------------
(* Finite sets.                                                            *)

\* Among sets of nodes there is one that contains no other of them.
LEMMA SmallestSubset ==
  ASSUME NEW S, IsFiniteSet(S), NEW F \in SUBSET SUBSET S, F # {}
  PROVE  \E U \in F : \A V \in F : V \subseteq U => V = U
<1>1. F \subseteq FiniteSubsetsOf(S)
  BY FS_Subset DEF FiniteSubsetsOf
<1>2. \E U \in F : \A V \in F : ~(<<V, U>> \in StrictSubsetOrdering(S))
  BY <1>1, WFMin, FS_StrictSubsetOrderingWellFounded
<1> QED BY <1>2 DEF StrictSubsetOrdering

\* Induction over the subsets of a finite set, for a set of good subsets.
LEMMA FiniteInduction ==
  ASSUME NEW S, IsFiniteSet(S), NEW Good, {} \in Good,
         \A T \in SUBSET S : \A x \in T : T \ {x} \in Good => T \in Good
  PROVE  S \in Good
<1> SUFFICES ASSUME S \notin Good PROVE FALSE
  OBVIOUS
<1>1. PICK F \in SUBSET SUBSET S : F = (SUBSET S) \ Good /\ F # {}
  OBVIOUS
<1>a. F # {} /\ \A U \in F : U \in SUBSET S /\ U \notin Good
  BY <1>1
<1>2. PICK U \in F : \A V \in F : V \subseteq U => V = U
  BY <1>a, SmallestSubset
<1>b. U # {}
  BY <1>a, <1>2
<1>3. PICK x \in U : TRUE
  BY <1>b
<1>4. U \ {x} \in Good
  BY <1>1, <1>2, <1>3
<1> QED BY <1>1, <1>2, <1>3, <1>4

\* A finite set of integers has a greatest element.
LEMMA GreatestOfFinite ==
  ASSUME NEW S \in SUBSET Int, IsFiniteSet(S), S # {}
  PROVE  \E x \in S : \A y \in S : x >= y
<1> DEFINE HasGreatest(U) == U # {} => \E x \in U : \A y \in U : x >= y
<1>1. ASSUME NEW T \in SUBSET S, NEW x \in T, HasGreatest(T \ {x})
      PROVE  HasGreatest(T)
  <2>1. CASE T \ {x} = {}
    <3>1. \A y \in T : y = x /\ x \in Int
      BY <2>1
    <3> QED BY <3>1
  <2>2. CASE T \ {x} # {}
    <3>1. PICK m \in T \ {x} : \A y \in T \ {x} : m >= y
      BY <1>1, <2>2
    <3>2. T \subseteq Int /\ x \in Int /\ m \in Int
      BY <3>1
    <3>3. CASE m >= x
      BY <3>1, <3>2, <3>3
    <3>4. CASE x > m
      BY <3>1, <3>2, <3>4
    <3> QED BY <3>2, <3>3, <3>4
  <2> QED BY <2>1, <2>2
<1>2. PICK Good : Good = {U \in SUBSET S : HasGreatest(U)}
  OBVIOUS
<1>3. {} \in Good
  BY <1>2
<1>4. \A T \in SUBSET S : \A x \in T : T \ {x} \in Good => T \in Good
  BY <1>1, <1>2
<1>5. S \in Good
  BY ONLY IsFiniteSet(S), <1>3, <1>4, FiniteInduction
<1> QED BY <1>2, <1>5

\* Max is the greatest value a function takes on a finite set.
LEMMA GreatestValue ==
  ASSUME NEW S, IsFiniteSet(S), S # {}, NEW f \in [S -> Int],
         NEW M, M = {f[x] : x \in S}
  PROVE  /\ IsFiniteSet(M)
         /\ Max(M) \in M
         /\ \A y \in M : Max(M) >= y
<1>1. IsFiniteSet(M)
  <2>1. f \in Surjection(S, M)
    BY DEF Surjection
  <2> QED BY <2>1, FS_Surjection
<1>2. M \in SUBSET Int /\ M # {}
  OBVIOUS
<1>3. \E x \in M : \A y \in M : x >= y
  BY <1>1, <1>2, GreatestOfFinite
<1> QED BY <1>1, <1>3 DEF Max

LEMMA ImageIsFinite ==
  ASSUME NEW S, IsFiniteSet(S), NEW f, NEW T, T = {f[x] : x \in S}
  PROVE  /\ IsFiniteSet(T)
         /\ (\A x, y \in S : f[x] = f[y] => x = y) => Cardinality(T) = Cardinality(S)
<1>1. PICK h : h = [x \in S |-> f[x]]
  OBVIOUS
<1>2. h \in Surjection(S, T)
  BY <1>1 DEF Surjection
<1>3. /\ IsFiniteSet(T)
      /\ Cardinality(T) = Cardinality(S) <=> h \in Injection(S, T)
  BY ONLY <1>2, IsFiniteSet(S), FS_Surjection
<1>4. ASSUME \A x, y \in S : f[x] = f[y] => x = y
      PROVE  h \in Injection(S, T)
  BY <1>1, <1>4 DEF Injection, IsInjective
<1> QED BY <1>3, <1>4

LEMMA Extremes ==
  ASSUME NEW S \in SUBSET Int, IsFiniteSet(S), S # {}
  PROVE  /\ Max(S) \in S /\ \A y \in S : Max(S) >= y
         /\ Min(S) \in S /\ \A y \in S : Min(S) <= y
<1>1. \E x \in S : \A y \in S : x >= y
  BY GreatestOfFinite
<1>2. \E x \in S : \A y \in S : x <= y
  <2>1. PICK f : f = [x \in S |-> -x]
    OBVIOUS
  <2>2. PICK T : T = {f[x] : x \in S}
    OBVIOUS
  <2>3. IsFiniteSet(T)
    BY ONLY IsFiniteSet(S), <2>2, ImageIsFinite
  <2>4. T \in SUBSET Int /\ T # {}
    <3>1. \A x \in S : f[x] \in Int /\ f[x] \in T
      BY <2>1, <2>2
    <3>2. \A t \in T : t \in Int
      BY <2>2, <3>1
    <3> QED BY <3>1, <3>2
  <2>5. PICK t \in T : \A y \in T : t >= y
    BY ONLY <2>3, <2>4, GreatestOfFinite
  <2>6. PICK x \in S : t = f[x]
    BY <2>2, <2>5
  <2>7. \A y \in S : -x >= -y
    BY <2>1, <2>2, <2>5, <2>6
  <2>8. \A y \in S : x <= y
    BY <2>7
  <2> QED BY <2>8
<1>3. Max(S) \in S /\ \A y \in S : Max(S) >= y
  BY <1>1 DEF Max
<1>4. Min(S) \in S /\ \A y \in S : Min(S) <= y
  BY <1>2 DEF Min
<1> QED BY <1>3, <1>4

LEMMA ExtremesOfFew ==
  ASSUME NEW x \in Int, NEW y \in Int
  PROVE  /\ Max({x, y}) \in Int /\ Max({x, y}) >= x /\ Max({x, y}) >= y /\ Max({x, y}) \in {x, y}
         /\ Min({x, y}) \in Int /\ Min({x, y}) <= x /\ Min({x, y}) <= y /\ Min({x, y}) \in {x, y}
<1>1. IsFiniteSet({x, y})
  <2>1. IsFiniteSet({x}) /\ IsFiniteSet({y})
    BY FS_Singleton
  <2>2. IsFiniteSet({x} \cup {y})
    BY ONLY <2>1, FS_Union
  <2>3. {x} \cup {y} = {x, y}
    OBVIOUS
  <2> QED BY <2>2, <2>3
<1>2. {x, y} \in SUBSET Int /\ {x, y} # {}
  OBVIOUS
<1>3. /\ Max({x, y}) \in {x, y} /\ \A z \in {x, y} : Max({x, y}) >= z
      /\ Min({x, y}) \in {x, y} /\ \A z \in {x, y} : Min({x, y}) <= z
  BY ONLY <1>1, <1>2, Extremes
<1> QED BY <1>2, <1>3

\* Induction over the subsets of a finite set, from all that are smaller.
LEMMA InductionFromSmaller ==
  ASSUME NEW S, IsFiniteSet(S), NEW Good,
         \A T \in SUBSET S : (\A U \in SUBSET T : U # T => U \in Good) => T \in Good
  PROVE  S \in Good
<1> SUFFICES ASSUME S \notin Good PROVE FALSE
  OBVIOUS
<1>1. PICK F : F = {U \in SUBSET S : U \notin Good}
  OBVIOUS
<1>2. /\ F \in SUBSET SUBSET S /\ F # {}
      /\ \A U \in SUBSET S : U \in F <=> U \notin Good
  BY <1>1
<1>3. PICK U \in F : \A V \in F : V \subseteq U => V = U
  BY <1>2, SmallestSubset
<1>4. U \in SUBSET S /\ U \notin Good /\ \A V \in SUBSET U : V # U => V \in Good
  BY <1>2, <1>3
<1> QED BY <1>4

\* Induction over the natural numbers, for a set of good ones.
LEMMA CountingUp ==
  ASSUME NEW Good, 0 \in Good, \A n \in Nat : n \in Good => n + 1 \in Good
  PROVE  \A n \in Nat : n \in Good
<1> SUFFICES ASSUME NEW n \in Nat, n \notin Good PROVE FALSE
  OBVIOUS
<1>1. PICK F \in SUBSET Nat : F = Nat \ Good /\ F # {}
  OBVIOUS
<1>2. \E m \in F : \A k \in F : ~ (<<k, m>> \in OpToRel(<, Nat))
  BY <1>1, WFMin, NatLessThanWellFounded
<1>3. PICK m \in F : \A k \in F : ~ (k < m)
  BY <1>1, <1>2 DEF OpToRel
<1>4. m # 0 /\ m \in Nat /\ m - 1 \in Nat /\ m - 1 \notin F
  BY <1>1, <1>3
<1> QED BY <1>1, <1>4

-----------------------------------------------------------------------------
(* Lists and folds.                                                        *)

\* The ways to list a set, every element once.
Listings(S) == {order \in [1..Cardinality(S) -> S] : IsInjective(order)}

LastIn(S, before) == {x \in S : \A y \in S : y = x \/ <<y, x>> \in before}

\* A finite set has a last element in every strict order.
LEMMA LastInOrder ==
  ASSUME NEW S, IsFiniteSet(S), S # {}, NEW before,
         \A x, y, z \in S : <<x, y>> \in before /\ <<y, z>> \in before => <<x, z>> \in before,
         \A x \in S : <<x, x>> \notin before,
         \A x, y \in S : x = y \/ <<x, y>> \in before \/ <<y, x>> \in before
  PROVE  LastIn(S, before) # {}
<1> DEFINE Above(x) == {y \in S : <<x, y>> \in before}
<1>1. PICK F : F = {Above(x) : x \in S}
  OBVIOUS
<1>2. F \in SUBSET SUBSET S /\ F # {}
  <2>1. \A U \in F : U \in SUBSET S
    BY ONLY <1>1
  <2>2. PICK x \in S : TRUE
    OBVIOUS
  <2>3. Above(x) \in F
    BY ONLY <1>1, <2>2
  <2> QED BY ONLY <2>1, <2>3
<1>3. PICK U \in F : \A V \in F : V \subseteq U => V = U
  BY <1>2, SmallestSubset
<1>4. PICK x \in S : U = Above(x)
  BY <1>1, <1>3
<1>5. ASSUME NEW y \in S PROVE y = x \/ <<y, x>> \in before
  <2> SUFFICES ASSUME <<x, y>> \in before PROVE FALSE
    OBVIOUS
  <2>1. Above(y) \subseteq Above(x)
    OBVIOUS
  <2>a. y \in S
    OBVIOUS
  <2>b. Above(y) \in F
    BY ONLY <1>1, <2>a
  <2>2. Above(y) = Above(x)
    <3> HIDE DEF Above
    <3> QED BY <1>3, <1>4, <2>1, <2>b
  <2>3. y \in Above(x) /\ y \notin Above(y)
    OBVIOUS
  <2> QED BY <2>2, <2>3
<1> QED BY <1>5 DEF LastIn

\* A finite set can be listed in any strict order.
LEMMA OrderExists ==
  ASSUME NEW S, IsFiniteSet(S), NEW before,
         \A x, y, z \in S : <<x, y>> \in before /\ <<y, z>> \in before => <<x, z>> \in before,
         \A x \in S : <<x, x>> \notin before,
         \A x, y \in S : x = y \/ <<x, y>> \in before \/ <<y, x>> \in before
  PROVE  \E order \in Listings(S) :
           \A i, j \in DOMAIN order : i < j => <<order[i], order[j]>> \in before
<1> DEFINE Listed(T) == \E order \in Listings(T) :
             \A i, j \in DOMAIN order : i < j => <<order[i], order[j]>> \in before
<1> SUFFICES ASSUME ~ Listed(S) PROVE FALSE
  OBVIOUS
<1>1. PICK F \in SUBSET SUBSET S : F = {T \in SUBSET S : ~ Listed(T)}
  OBVIOUS
<1>2. S \in F
  BY <1>1
<1>3. PICK U \in F : \A V \in F : V \subseteq U => V = U
  BY <1>2, SmallestSubset
<1>4. U \subseteq S /\ IsFiniteSet(U) /\ ~ Listed(U)
  BY <1>1, <1>3, FS_Subset
<1>5. CASE U = {}
  <2>1. Cardinality(U) = 0
    BY <1>5, FS_EmptySet
  <2>2. <<>> \in Listings(U)
    BY <2>1 DEF Listings, IsInjective
  <2>3. DOMAIN <<>> = {}
    OBVIOUS
  <2> QED BY <1>4, <2>2, <2>3
<1>6. CASE U # {}
  <2>1. PICK x \in U : \A y \in U : y = x \/ <<y, x>> \in before
    <3> HIDE DEF Listed
    <3>1. LastIn(U, before) # {}
      BY <1>4, <1>6, LastInOrder
    <3> QED BY <3>1 DEF LastIn
  <2>2. PICK T : T = U \ {x}
    OBVIOUS
  <2>3. T \subseteq U /\ T # U /\ T \subseteq S
    BY <1>4, <2>1, <2>2
  <2>4. Listed(T)
    BY <1>1, <1>3, <2>3
  <2>5. PICK order \in Listings(T) :
          \A i, j \in DOMAIN order : i < j => <<order[i], order[j]>> \in before
    BY <2>4
  <2>6. PICK n : n = Cardinality(T)
    OBVIOUS
  <2>7. n \in Nat /\ Cardinality(U) = n + 1 /\ IsFiniteSet(T)
    <3>1. IsFiniteSet(T) /\ Cardinality(T) = Cardinality(U) - 1
      BY <1>4, <2>1, <2>2, FS_RemoveElement
    <3>2. Cardinality(U) \in Nat /\ Cardinality(T) \in Nat
      BY <1>4, <3>1, FS_CardinalityType
    <3> QED BY <2>6, <3>1, <3>2
  <2>8. order \in [1 .. n -> T] /\ \A i, j \in 1 .. n : order[i] = order[j] => i = j
    BY <2>6 DEF Listings, IsInjective
  <2>9. PICK longer : longer = [i \in 1 .. n + 1 |-> IF i = n + 1 THEN x ELSE order[i]]
    OBVIOUS
  <2>10. ASSUME NEW i \in 1 .. n + 1
         PROVE  /\ longer[i] \in U
                /\ i = n + 1 => longer[i] = x
                /\ i # n + 1 => i \in 1 .. n /\ longer[i] = order[i] /\ order[i] \in T
    BY <2>2, <2>3, <2>7, <2>8, <2>9
  <2>11. longer \in Listings(U)
    <3>1. longer \in [1 .. n + 1 -> U]
      BY <2>9, <2>10
    <3>2. \A i, j \in 1 .. n + 1 : longer[i] = longer[j] => i = j
      BY <2>2, <2>8, <2>10
    <3> QED BY <2>7, <3>1, <3>2 DEF Listings, IsInjective
  <2>12. DOMAIN longer = 1 .. n + 1 /\ DOMAIN order = 1 .. n
    BY <2>8, <2>9
  <2>13. ASSUME NEW i \in 1 .. n + 1, NEW j \in 1 .. n + 1, i < j
         PROVE  <<longer[i], longer[j]>> \in before
    <3>1. i \in 1 .. n /\ longer[i] = order[i] /\ order[i] \in T
      BY <2>7, <2>10, <2>13
    <3>2. CASE j = n + 1
      BY <2>1, <2>2, <2>3, <2>10, <3>1, <3>2
    <3>3. CASE j # n + 1
      BY <2>5, <2>10, <2>12, <2>13, <3>1, <3>3
    <3> QED BY <3>2, <3>3
  <2> QED BY <1>4, <2>11, <2>12, <2>13
<1> QED BY <1>5, <1>6

(* What is computed from the subsets of a set by taking away one element   *)
(* at a time: there is such a computation.                                 *)
Recursions(S, V, base, choose, apply) ==
  {f \in [SUBSET S -> V] :
     /\ f[{}] = base
     /\ \A s \in SUBSET S : s # {} => f[s] = apply[<<choose[s], f[s \ {choose[s]}]>>]}

LEMMA RecursionExists ==
  ASSUME NEW S, IsFiniteSet(S), NEW V, NEW base \in V,
         NEW choose, \A s \in SUBSET S : s # {} => choose[s] \in s,
         NEW apply, \A x \in S : \A v \in V : apply[<<x, v>>] \in V
  PROVE  Recursions(S, V, base, choose, apply) # {}
<1> DEFINE Good(n) == \E f \in [SUBSET S -> V] :
                        /\ f[{}] = base
                        /\ \A s \in SUBSET S : s # {} /\ Cardinality(s) <= n
                             => f[s] = apply[<<choose[s], f[s \ {choose[s]}]>>]
<1>1. Good(0)
  <2>1. PICK f : f = [s \in SUBSET S |-> base]
    OBVIOUS
  <2>2. \A s \in SUBSET S : s # {} => ~ (Cardinality(s) <= 0)
    <3>1. \A s \in SUBSET S : IsFiniteSet(s)
      BY FS_Subset
    <3>2. \A s \in SUBSET S : Cardinality(s) \in Nat /\ (Cardinality(s) = 0 <=> s = {})
      BY <3>1, FS_CardinalityType, FS_EmptySet
    <3> QED BY <3>2
  <2> QED BY <2>1, <2>2
<1>2. ASSUME NEW n \in Nat, Good(n) PROVE Good(n + 1)
  <2>1. PICK f \in [SUBSET S -> V] :
          /\ f[{}] = base
          /\ \A s \in SUBSET S : s # {} /\ Cardinality(s) <= n
               => f[s] = apply[<<choose[s], f[s \ {choose[s]}]>>]
    BY <1>2
  <2>2. PICK g : g = [s \in SUBSET S |-> IF Cardinality(s) = n + 1 /\ s # {}
                                         THEN apply[<<choose[s], f[s \ {choose[s]}]>>] ELSE f[s]]
    OBVIOUS
  <2>3. g \in [SUBSET S -> V]
    <3>1. \A s \in SUBSET S : s # {} => s \ {choose[s]} \in SUBSET S /\ choose[s] \in S
      OBVIOUS
    <3> QED BY <2>1, <2>2, <3>1
  <2>4. \A s \in SUBSET S : s # {} => /\ Cardinality(s) \in Nat
                                     /\ Cardinality(s \ {choose[s]}) = Cardinality(s) - 1
    BY FS_Subset, FS_RemoveElement, FS_CardinalityType
  <2>5. g[{}] = base
    BY <2>1, <2>2
  <2>6. ASSUME NEW s \in SUBSET S, s # {}, Cardinality(s) <= n + 1
        PROVE  g[s] = apply[<<choose[s], g[s \ {choose[s]}]>>]
    <3>1. s \ {choose[s]} \in SUBSET S /\ Cardinality(s \ {choose[s]}) # n + 1
      BY <2>4, <2>6
    <3>2. g[s \ {choose[s]}] = f[s \ {choose[s]}]
      BY <2>2, <3>1
    <3>3. CASE Cardinality(s) = n + 1
      BY <2>2, <2>6, <3>2, <3>3
    <3>4. CASE Cardinality(s) <= n
      BY <2>1, <2>2, <2>4, <2>6, <3>2, <3>4
    <3>5. Cardinality(s) \in Nat
      BY <2>4, <2>6
    <3>6. Cardinality(s) = n + 1 \/ Cardinality(s) <= n
      BY <2>6, <3>5
    <3> QED BY <3>3, <3>4, <3>6
  <2> QED BY <2>3, <2>5, <2>6
<1> HIDE DEF Good
<1>3. \A n \in Nat : Good(n)
  <2>1. PICK G \in SUBSET Nat : \A n \in Nat : n \in G <=> Good(n)
    <3>1. {n \in Nat : Good(n)} \in SUBSET Nat
      OBVIOUS
    <3> QED BY <3>1
  <2>2. \A n \in Nat : n \in G
    BY <1>1, <1>2, <2>1, CountingUp
  <2> QED BY <2>1, <2>2
<1>4. Cardinality(S) \in Nat
  BY FS_CardinalityType
<1>5. Good(Cardinality(S))
  BY <1>3, <1>4
<1>6. \A s \in SUBSET S : Cardinality(s) <= Cardinality(S)
  BY FS_Subset
<1>7. PICK f \in [SUBSET S -> V] :
        /\ f[{}] = base
        /\ \A s \in SUBSET S : s # {} => f[s] = apply[<<choose[s], f[s \ {choose[s]}]>>]
  BY <1>5, <1>6 DEF Good
<1> QED BY <1>7 DEF Recursions

\* The greatest of some natural numbers is one of them, and n of the first n.
LEMMA GreatestIndex ==
  ASSUME NEW n \in Nat
  PROVE  /\ \A s \in SUBSET (1..n) : s # {} => Max(s) \in s
         /\ \A i \in 1..n : Max(1..i) = i /\ (1..i) \ {i} = 1..(i - 1) /\ 1..i # {}
<1>1. ASSUME NEW s \in SUBSET (1..n), s # {} PROVE Max(s) \in s
  <2>1. IsFiniteSet(1..n)
    BY FS_Interval, 1 \in Int
  <2>2. IsFiniteSet(s)
    BY <2>1, FS_Subset
  <2>3. s \in SUBSET Int
    OBVIOUS
  <2>4. \E x \in s : \A y \in s : x >= y
    BY ONLY <1>1, <2>2, <2>3, GreatestOfFinite
  <2> QED BY <2>4 DEF Max
<1>2. ASSUME NEW i \in 1..n PROVE Max(1..i) = i /\ (1..i) \ {i} = 1..(i - 1) /\ 1..i # {}
  <2>1. i \in 1..i /\ \A y \in 1..i : i >= y
    OBVIOUS
  <2>2. \A x \in 1..i : (\A y \in 1..i : x >= y) => x = i
    BY <2>1
  <2>3. Max(1..i) = i
    BY <2>1, <2>2 DEF Max
  <2>4. (1..i) \ {i} = 1..(i - 1)
    OBVIOUS
  <2> QED BY <2>1, <2>3, <2>4
<1> QED BY <1>1, <1>2

\* What FoldLeft computes on sets of indices, for what a step makes of an index and a value.
Folds(n, V, base, apply) ==
  {f \in [SUBSET (1..n) -> V] :
     /\ f[{}] = base
     /\ \A s \in SUBSET (1..n) : s # {} => f[s] = apply[<<Max(s), f[s \ {Max(s)}]>>]}

LEMMA FoldExists ==
  ASSUME NEW n \in Nat, NEW V, NEW base \in V,
         NEW apply, \A i \in 1..n : \A v \in V : apply[<<i, v>>] \in V
  PROVE  Folds(n, V, base, apply) # {}
<1>1. PICK choose : choose = [s \in SUBSET (1..n) |-> Max(s)]
  OBVIOUS
<1>2. \A s \in SUBSET (1..n) : s # {} => choose[s] \in s
  BY <1>1, GreatestIndex
<1>3. IsFiniteSet(1..n)
  BY FS_Interval, 1 \in Int
<1>4. Recursions(1..n, V, base, choose, apply) # {}
  BY ONLY <1>2, <1>3, base \in V, \A i \in 1..n : \A v \in V : apply[<<i, v>>] \in V, RecursionExists
<1>5. PICK f \in [SUBSET (1..n) -> V] :
        /\ f[{}] = base
        /\ \A s \in SUBSET (1..n) : s # {} => f[s] = apply[<<choose[s], f[s \ {choose[s]}]>>]
  BY <1>4 DEF Recursions
<1>6. \A s \in SUBSET (1..n) : s # {} => f[s] = apply[<<Max(s), f[s \ {Max(s)}]>>]
  BY <1>1, <1>5
<1> QED BY <1>5, <1>6 DEF Folds

(* What takes away the greatest index first goes through a list from its   *)
(* beginning.                                                              *)
StagesOf(n, V, base, apply, end) ==
  {h \in [0..n -> V] :
     /\ h[0] = base /\ h[n] = end
     /\ \A i \in 1..n : h[i] = apply[<<i, h[i - 1]>>]}

LEMMA RecursionInSteps ==
  ASSUME NEW n \in Nat, NEW V, NEW base \in V,
         NEW apply, \A i \in 1..n : \A v \in V : apply[<<i, v>>] \in V,
         NEW g, g[{}] = base,
         \A s \in SUBSET (1..n) : s # {} /\ g[s \ {Max(s)}] \in V
                                  => g[s] = apply[<<Max(s), g[s \ {Max(s)}]>>]
  PROVE  StagesOf(n, V, base, apply, g[1..n]) # {}
<1>7. ASSUME NEW S \in SUBSET (1..n) PROVE g[S] \in V
  <2>1. PICK Good : Good = {s \in SUBSET S : g[s] \in V}
    OBVIOUS
  <2>2. IsFiniteSet(S)
    <3>1. IsFiniteSet(1..n)
      BY FS_Interval, 1 \in Int
    <3> QED BY ONLY <3>1, S \in SUBSET (1..n), FS_Subset
  <2>3. ASSUME NEW T \in SUBSET S, \A U \in SUBSET T : U # T => U \in Good
        PROVE  T \in Good
    <3>1. CASE T = {}
      BY <2>1, <3>1
    <3>2. CASE T # {}
      <4>1. Max(T) \in T
        BY <3>2, GreatestIndex
      <4>2. g[T \ {Max(T)}] \in V
        <5>1. T \ {Max(T)} \in SUBSET T /\ T \ {Max(T)} # T
          BY <4>1
        <5> QED BY <2>1, <2>3, <5>1
      <4>3. g[T] = apply[<<Max(T), g[T \ {Max(T)}]>>] /\ Max(T) \in 1..n
        BY <3>2, <4>1, <4>2
      <4> QED BY <2>1, <4>2, <4>3
    <3> QED BY <3>1, <3>2
  <2>4. S \in Good
    BY ONLY <2>2, <2>3, InductionFromSmaller
  <2> QED BY <2>1, <2>4
<1>1. PICK h : h = [i \in 0..n |-> g[1..i]]
  OBVIOUS
<1>2. h[0] = base /\ h[n] = g[1..n]
  <2>1. 1..0 = {}
    OBVIOUS
  <2>2. 0 \in 0..n /\ n \in 0..n
    OBVIOUS
  <2> QED BY <1>1, <2>1, <2>2
<1>3. ASSUME NEW i \in 1..n PROVE h[i] = apply[<<i, h[i - 1]>>]
  <2>1. 1..i \in SUBSET (1..n) /\ i \in 0..n /\ i - 1 \in 0..n
    OBVIOUS
  <2>2. Max(1..i) = i /\ (1..i) \ {i} = 1..(i - 1) /\ 1..i # {}
    BY GreatestIndex
  <2>3. g[1..i] = apply[<<i, g[1..(i - 1)]>>]
    <3>1. g[1..(i - 1)] \in V
      <4>1. 1..(i - 1) \in SUBSET (1..n)
        OBVIOUS
      <4> QED BY <1>7, <4>1
    <3> QED BY <2>1, <2>2, <3>1
  <2> QED BY <1>1, <2>1, <2>3
<1>4. ASSUME NEW k \in 0..n PROVE h[k] \in V
  <2>1. 1..k \in SUBSET (1..n)
    OBVIOUS
  <2> QED BY <1>1, <1>7, <2>1
<1>5. h \in [0..n -> V]
  BY <1>1, <1>4
<1> QED BY <1>2, <1>3, <1>5 DEF StagesOf

-----------------------------------------------------------------------------
(* Reachability.                                                           *)

LEMMA ReachesSelf == \A nodes, edges, u : Reaches(nodes, edges, u, u)
  BY DEF Reaches

LEMMA ReachesTransitive ==
  ASSUME NEW nodes, NEW edges, NEW u, NEW v, NEW w,
         Reaches(nodes, edges, u, v), Reaches(nodes, edges, v, w)
  PROVE  Reaches(nodes, edges, u, w)
BY DEF Reaches

LEMMA ReachesAlongEdge ==
  ASSUME NEW nodes, NEW edges, NEW u, NEW e \in edges, Reaches(nodes, edges, u, e[1])
  PROVE  Reaches(nodes, edges, u, e[2])
BY DEF Reaches, Closed

LEMMA ReachesMonotone ==
  ASSUME NEW nodes, NEW few, NEW many, few \subseteq many, NEW u, NEW v,
         Reaches(nodes, few, u, v)
  PROVE  Reaches(nodes, many, u, v)
BY DEF Reaches, Closed

\* Only what is in a closed set is reached from it.
LEMMA ReachesWithin ==
  ASSUME NEW nodes, NEW edges, NEW u, NEW v, Reaches(nodes, edges, u, v),
         NEW set \in SUBSET nodes, u \in set, Closed(edges, set)
  PROVE  v \in set
BY DEF Reaches

\* The edge a way to another node arrives by.
LEMMA ReachesByLastEdge ==
  ASSUME NEW nodes, NEW edges \in SUBSET (nodes \X nodes), NEW u \in nodes, NEW v,
         Reaches(nodes, edges, u, v), u # v
  PROVE  \E e \in edges : Reaches(nodes, edges, u, e[1]) /\ e[2] = v
<1> SUFFICES ASSUME \A e \in edges : Reaches(nodes, edges, u, e[1]) => e[2] # v
             PROVE  FALSE
  OBVIOUS
<1>1. PICK set \in SUBSET nodes : set = {x \in nodes : Reaches(nodes, edges, u, x) /\ x # v}
  OBVIOUS
<1>2. u \in set
  BY <1>1, ReachesSelf
<1>3. Closed(edges, set)
  <2> SUFFICES ASSUME NEW e \in edges, e[1] \in set PROVE e[2] \in set
    BY DEF Closed
  <2>1. e[2] \in nodes
    OBVIOUS
  <2>2. Reaches(nodes, edges, u, e[1])
    BY <1>1
  <2>3. Reaches(nodes, edges, u, e[2])
    BY <2>2, ReachesAlongEdge
  <2> QED BY <1>1, <2>1, <2>2, <2>3
<1> QED BY <1>1, <1>2, <1>3, ReachesWithin

LEMMA ConnectedFacts ==
  ASSUME NEW nodes, NEW edges
  PROVE  /\ \A u : Connected(nodes, edges, u, u)
         /\ \A u, v : Connected(nodes, edges, u, v) => Connected(nodes, edges, v, u)
         /\ \A u, v, w : /\ Connected(nodes, edges, u, v)
                        /\ Connected(nodes, edges, v, w)
                        => Connected(nodes, edges, u, w)
BY ReachesSelf, ReachesTransitive DEF Connected
=============================================================================
