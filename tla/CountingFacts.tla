---------------------------- MODULE CountingFacts ----------------------------
(***************************************************************************)
(* Facts about numbers and finite sets that the proofs of several modules   *)
(* need.  Induction is stated with sets, orders with sets of pairs and      *)
(* recursion with functions, so that they can be cited with any of them.    *)
(***************************************************************************)
EXTENDS Listing, FiniteSetTheorems, FunctionTheorems, TLAPS

----------------------------------------------------------------------------
(* Induction and recursion.                                                *)

\* Every set of numbers has a least one.
LEMMA NatMinimum ==
    ASSUME NEW T \in SUBSET Nat, T # {}
    PROVE  \E m \in T : \A n \in T : m <= n
<1> DEFINE W == {1..n : n \in T}
<1>1. W \subseteq FiniteSubsetsOf(Nat) /\ W # {}
  <2>1. ASSUME NEW n \in T PROVE 1..n \in FiniteSubsetsOf(Nat)
    <3>1. IsFiniteSet(1..n) /\ 1..n \in SUBSET Nat
      BY FS_Interval
    <3> QED
      BY <3>1 DEF FiniteSubsetsOf
  <2> QED
    BY <2>1
<1>2. PICK w \in W : \A x \in W : ~ (<<x, w>> \in StrictSubsetOrdering(Nat))
  BY <1>1, FS_StrictSubsetOrderingWellFounded, WFMin, Zenon
<1>3. PICK m \in T : w = 1..m
  OBVIOUS
<1>4. ASSUME NEW n \in T, n < m
      PROVE  FALSE
  <2>1. 1..n \in SUBSET Nat /\ 1..m \in SUBSET Nat /\ 1..n \subseteq 1..m
    BY <1>4
  <2>2. m \in 1..m /\ m \notin 1..n
    BY <1>4
  <2>3. <<1..n, w>> \in StrictSubsetOrdering(Nat)
    BY <1>3, <2>1, <2>2 DEF StrictSubsetOrdering
  <2> QED
    BY <1>2, <2>3
<1> QED
  BY <1>4

\* Induction up to a bound.
LEMMA NatIteration ==
    ASSUME NEW T, NEW n \in Nat, 0 \in T,
           \A k \in 0..(n - 1) : k \in T => k + 1 \in T
    PROVE  \A k \in 0..n : k \in T
<1> DEFINE U == {k \in 0..n : k \notin T}
<1> SUFFICES ASSUME U # {} PROVE FALSE
  OBVIOUS
<1>0. U \in SUBSET Nat
  OBVIOUS
<1>1. PICK m \in U : \A k \in U : m <= k
  <2> HIDE DEF U
  <2> QED
    BY <1>0, NatMinimum
<1>2. m \in 1..n /\ m - 1 \in 0..(n - 1)
  BY <1>1
<1>3. m - 1 \in T
  BY <1>1, <1>2
<1> QED
  BY <1>1, <1>2, <1>3

\* f is defined on 0..n by its value at 0 and by that of the number before.
Recursion(X, base, n, step, f) ==
    /\ f \in [0..n -> X] /\ f[0] = base
    /\ \A k \in 1..n : f[k] = step[<<k, f[k - 1]>>]

\* A recursive definition over an initial segment of the numbers has a solution,
\* whatever the step is.
LEMMA RecursionExists ==
    ASSUME NEW X, NEW base \in X, NEW n \in Nat, NEW step \in [(1..n) \X X -> X]
    PROVE  \E f : Recursion(X, base, n, step, f)
<1> DEFINE Solves(m, f) ==
              f[0] = base /\ \A k \in 1..m : f[k] = step[<<k, f[k - 1]>>]
           T == {m \in 0..n : \E f \in [0..m -> X] : Solves(m, f)}
<1>1. 0 \in T
  <2> DEFINE f == [k \in 0..0 |-> base]
  <2>1. f \in [0..0 -> X] /\ f[0] = base /\ 1..0 = {}
    OBVIOUS
  <2> HIDE DEF f
  <2> QED
    BY <2>1
<1>2. ASSUME NEW m \in 0..(n - 1), m \in T
      PROVE  m + 1 \in T
  <2>1. PICK f \in [0..m -> X] : Solves(m, f)
    BY <1>2
  <2> DEFINE g == [k \in 0..(m + 1) |-> IF k = m + 1 THEN step[<<m + 1, f[m]>>] ELSE f[k]]
  <2>2. f[m] \in X /\ step[<<m + 1, f[m]>>] \in X
    OBVIOUS
  <2>3. g \in [0..(m + 1) -> X]
    BY <2>2
  <2>4. ASSUME NEW k \in 1..(m + 1) PROVE g[k] = step[<<k, g[k - 1]>>]
    <3>1. CASE k = m + 1
      <4>1. k - 1 = m /\ m # m + 1 /\ m \in 0..(m + 1) /\ m + 1 \in 0..(m + 1)
        BY <3>1
      <4>2. g[k] = step[<<m + 1, f[m]>>] /\ g[m] = f[m]
        BY <3>1, <4>1
      <4> HIDE DEF g
      <4> QED
        BY <3>1, <4>1, <4>2
    <3>2. CASE k \in 1..m
      BY <2>1, <3>2
    <3> QED
      BY <3>1, <3>2
  <2>5. Solves(m + 1, g)
    <3>1. g[0] = base
      BY <2>1
    <3> HIDE DEF g
    <3> QED
      BY <2>4, <3>1
  <2>6. m + 1 \in 0..n
    OBVIOUS
  <2> HIDE DEF g
  <2> QED
    BY <2>3, <2>5, <2>6
<1> HIDE DEF T
<1>3. n \in T
  BY <1>1, <1>2, NatIteration
<1> QED
  BY <1>3 DEF T, Recursion
----------------------------------------------------------------------------
(* Orders and ranks.                                                       *)

\* R orders the elements of D, strictly and totally.
Orders(R, D) ==
    /\ \A i \in D : <<i, i>> \notin R
    /\ \A i, j \in D : i # j => <<i, j>> \in R \/ <<j, i>> \in R
    /\ \A i, j, k \in D : <<i, j>> \in R /\ <<j, k>> \in R => <<i, k>> \in R

\* A one-to-one function into a finite set of the same size takes every value.
LEMMA OneToOneIsOnto ==
    ASSUME NEW S, NEW T, IsFiniteSet(S), IsFiniteSet(T),
           Cardinality(S) = Cardinality(T),
           NEW f \in [S -> T], \A a, b \in S : f[a] = f[b] => a = b
    PROVE  \A t \in T : \E a \in S : f[a] = t
<1>1. f \in Injection(S, T)
  BY Fun_IsInj
<1>2. f \in Surjection(S, T)
  BY <1>1, FS_Injection
<1> QED
  BY <1>2, Fun_SurjectionProperties

LEMMA OneToOneOnItself ==
    ASSUME NEW S, IsFiniteSet(S), NEW f \in [S -> S], \A a, b \in S : f[a] = f[b] => a = b
    PROVE  f \in Surjection(S, S)
<1>1. ASSUME NEW T, T = S
      PROVE  f \in Surjection(S, T)
  <2>1. /\ IsFiniteSet(T) /\ Cardinality(S) = Cardinality(T)
        /\ f \in [S -> T]
    BY <1>1
  <2>2. f \in Injection(S, T)
    BY <2>1, Fun_IsInj
  <2> QED
    BY <2>1, <2>2, FS_Injection
<1> QED
  BY <1>1

LEMMA OntoItselfIsOneToOne ==
    ASSUME NEW S, IsFiniteSet(S), NEW f \in [S -> S], \A b \in S : \E a \in S : f[a] = b
    PROVE  f \in Injection(S, S)
<1>1. ASSUME NEW T, T = S
      PROVE  f \in Injection(S, T)
  <2>1. /\ IsFiniteSet(T) /\ Cardinality(S) = Cardinality(T)
        /\ f \in [S -> T] /\ \A b \in T : \E a \in S : f[a] = b
    BY <1>1
  <2>2. f \in Surjection(S, T)
    BY <2>1, Fun_IsSurj
  <2> QED
    BY <2>1, <2>2, FS_Surjection
<1> QED
  BY <1>1

\* What is before comes at a smaller place.
LEMMA PlacesKeepOrder ==
    ASSUME NEW D, IsFiniteSet(D), NEW R, Orders(R, D), NEW i \in D, NEW j \in D
    PROVE  /\ PlaceIn(R, D, i) \in 1..Cardinality(D)
           /\ PlaceIn(R, D, i) < PlaceIn(R, D, j) <=> <<i, j>> \in R
<1> DEFINE B(k) == {l \in D : <<l, k>> \in R}
<1>1. ASSUME NEW k \in D
      PROVE  /\ IsFiniteSet(B(k)) /\ Cardinality(B(k)) \in Nat
             /\ Cardinality(B(k)) < Cardinality(D) /\ Cardinality(D) \in Nat
  <2>1. B(k) \in SUBSET D /\ B(k) # D
    BY DEF Orders
  <2> HIDE DEF B
  <2> QED
    BY <2>1, FS_Subset, FS_CardinalityType
<1>2. ASSUME NEW k \in D, NEW l \in D, <<k, l>> \in R
      PROVE  Cardinality(B(k)) < Cardinality(B(l))
  <2>1. B(k) \in SUBSET B(l)
    BY <1>2 DEF Orders
  <2>2. k \in B(l) /\ k \notin B(k)
    BY <1>2 DEF Orders
  <2> HIDE DEF B
  <2> QED
    BY <1>1, <2>1, <2>2, FS_Subset
<1>3. /\ PlaceIn(R, D, i) = Cardinality(B(i)) + 1
      /\ PlaceIn(R, D, j) = Cardinality(B(j)) + 1
  BY DEF PlaceIn
<1>4. i = j \/ <<i, j>> \in R \/ <<j, i>> \in R
  BY DEF Orders
<1>5. ~(<<i, j>> \in R /\ (i = j \/ <<j, i>> \in R))
  BY DEF Orders
<1> HIDE DEF B
<1> QED
  BY <1>1, <1>2, <1>3, <1>4, <1>5

Filled(R, D) == \A n \in 1..Cardinality(D) : \E i \in D : PlaceIn(R, D, i) = n

\* Every place has its element, and no other.
LEMMA PlacesAreFilled ==
    ASSUME NEW D, IsFiniteSet(D), NEW R, Orders(R, D)
    PROVE  /\ \A i, j \in D : PlaceIn(R, D, i) = PlaceIn(R, D, j) => i = j
           /\ Filled(R, D)
<1> DEFINE place == [i \in D |-> PlaceIn(R, D, i)]
<1>1. Cardinality(D) \in Nat
  BY FS_CardinalityType
<1>2. IsFiniteSet(1..Cardinality(D)) /\ Cardinality(1..Cardinality(D)) = Cardinality(D)
  BY <1>1, FS_Interval
<1>3. place \in [D -> 1..Cardinality(D)]
  BY PlacesKeepOrder
<1>4. ASSUME NEW i \in D, NEW j \in D, PlaceIn(R, D, i) = PlaceIn(R, D, j)
      PROVE  i = j
  <2>1. PlaceIn(R, D, i) \in 1..Cardinality(D)
    BY PlacesKeepOrder
  <2>2. <<i, j>> \notin R /\ <<j, i>> \notin R
    <3>1. ~(PlaceIn(R, D, i) < PlaceIn(R, D, j)) /\ ~(PlaceIn(R, D, j) < PlaceIn(R, D, i))
      BY <1>1, <1>4, <2>1
    <3> QED
      BY <3>1, PlacesKeepOrder
  <2> QED
    BY <2>2 DEF Orders
<1>5. \A i \in D : place[i] = PlaceIn(R, D, i)
  OBVIOUS
<1> HIDE DEF place
<1>6. \A a, b \in D : place[a] = place[b] => a = b
  BY <1>4, <1>5
<1>7. \A n \in 1..Cardinality(D) : \E i \in D : place[i] = n
  <2> DEFINE T == 1..Cardinality(D)
  <2>1. IsFiniteSet(T) /\ Cardinality(D) = Cardinality(T) /\ place \in [D -> T]
    BY <1>2, <1>3
  <2> HIDE DEF T
  <2>2. \A n \in T : \E i \in D : place[i] = n
    BY <2>1, <1>6, OneToOneIsOnto
  <2> QED
    BY <2>2 DEF T
<1> QED
  BY <1>4, <1>5, <1>7 DEF Filled

\* Listed lists: each element once, and those before first.
LEMMA ListedFacts ==
    ASSUME NEW D, IsFiniteSet(D), NEW R, Orders(R, D)
    PROVE  /\ Listed(R, D) \in [1..Cardinality(D) -> D]
           /\ \A i \in D : /\ PlaceIn(R, D, i) \in 1..Cardinality(D)
                           /\ Listed(R, D)[PlaceIn(R, D, i)] = i
           /\ \A j, k \in 1..Cardinality(D) :
                 /\ Listed(R, D)[j] = Listed(R, D)[k] => j = k
                 /\ j < k <=> <<Listed(R, D)[j], Listed(R, D)[k]>> \in R
<1> DEFINE n == Cardinality(D)
           p == [k \in 1..n |-> CHOOSE i \in D : PlaceIn(R, D, i) = k]
<1>1. n \in Nat
  BY FS_CardinalityType
<1>2. \A i \in D : PlaceIn(R, D, i) \in 1..n
  BY PlacesKeepOrder
<1>3. \A i, j \in D : PlaceIn(R, D, i) < PlaceIn(R, D, j) <=> <<i, j>> \in R
  BY PlacesKeepOrder
<1>4. \A i, j \in D : PlaceIn(R, D, i) = PlaceIn(R, D, j) => i = j
  BY PlacesAreFilled
<1>5. \A k \in 1..n : \E i \in D : PlaceIn(R, D, i) = k
  <2>1. Filled(R, D)
    BY PlacesAreFilled
  <2> QED
    BY <2>1 DEF Filled
<1>6. Listed(R, D) = p
  BY DEF Listed
<1>7. \A k \in 1..n : p[k] \in D /\ PlaceIn(R, D, p[k]) = k
  BY <1>5
<1>8. p \in [1..n -> D]
  BY <1>7
<1> HIDE DEF p, n
<1>9. \A i \in D : p[PlaceIn(R, D, i)] = i
  BY <1>2, <1>4, <1>7
<1>10. \A j, k \in 1..n : p[j] = p[k] => j = k
  BY <1>7
<1>11. \A j, k \in 1..n : j < k <=> <<p[j], p[k]>> \in R
  BY <1>3, <1>7
<1> QED
  BY <1>2, <1>6, <1>8, <1>9, <1>10, <1>11 DEF n

\* A function that only goes up leaves every number where it is.
LEMMA IncreasingIsIdentity ==
    ASSUME NEW n \in Nat, NEW f \in [1..n -> 1..n],
           \A j, k \in 1..n : j < k => f[j] < f[k]
    PROVE  \A k \in 1..n : f[k] = k
<1> DEFINE Up == {k \in 0..n : k = 0 \/ f[k] >= k}
           Down == {k \in 0..n : k = n \/ f[n - k] <= n - k}
<1>1. \A k \in 0..n : k \in Up
  <2>1. 0 \in Up
    OBVIOUS
  <2>2. ASSUME NEW k \in 0..(n - 1), k \in Up
        PROVE  k + 1 \in Up
    <3>1. CASE k = 0
      BY <3>1
    <3>2. CASE k # 0
      <4>1. k \in 1..n /\ k + 1 \in 1..n /\ f[k] < f[k + 1] /\ f[k] \in Nat /\ f[k + 1] \in Nat
        BY <3>2, SMTT(30)
      <4>2. f[k] >= k
        BY <2>2, <3>2
      <4> QED
        BY <4>1, <4>2
    <3> QED
      BY <3>1, <3>2
  <2> HIDE DEF Up
  <2> QED
    BY <2>1, <2>2, NatIteration
<1>2. \A k \in 0..n : k \in Down
  <2>1. 0 \in Down
    <3>1. CASE n = 0
      BY <3>1
    <3>2. CASE n # 0
      <4>1. n \in 1..n /\ f[n] \in 1..n
        BY <3>2
      <4> QED
        BY <4>1
    <3> QED
      BY <3>1, <3>2
  <2>2. ASSUME NEW k \in 0..(n - 1), k \in Down
        PROVE  k + 1 \in Down
    <3>1. CASE k + 1 = n
      BY <3>1
    <3>2. CASE k + 1 # n
      <4> DEFINE j == n - k
      <4>1. j \in 1..n /\ j - 1 \in 1..n /\ f[j - 1] < f[j]
            /\ f[j] \in Nat /\ f[j - 1] \in Nat
        BY <3>2, SMTT(30)
      <4>2. f[j] <= j
        BY <2>2, <3>2
      <4>3. n - (k + 1) = j - 1 /\ j \in Int
        OBVIOUS
      <4> HIDE DEF j
      <4>4. f[j - 1] <= j - 1
        BY <4>1, <4>2, <4>3
      <4> QED
        BY <4>3, <4>4
    <3> QED
      BY <3>1, <3>2
  <2> HIDE DEF Down
  <2> QED
    BY <2>1, <2>2, NatIteration
<1>3. ASSUME NEW k \in 1..n
      PROVE  f[k] = k
  <2>1. k \in Up /\ n - k \in Down /\ n - (n - k) = k /\ n - k # n
    BY <1>1, <1>2
  <2> QED
    BY <2>1
<1> QED
  BY <1>3

\* There is one way to list a set in an order.
LEMMA ListingIsUnique ==
    ASSUME NEW D, IsFiniteSet(D), NEW R, Orders(R, D),
           NEW p \in [1..Cardinality(D) -> D],
           \A j, k \in 1..Cardinality(D) : j < k => <<p[j], p[k]>> \in R
    PROVE  p = Listed(R, D)
<1> DEFINE n == Cardinality(D)
           f == [k \in 1..n |-> PlaceIn(R, D, p[k])]
<1>1. n \in Nat
  BY FS_CardinalityType
<1>2. f \in [1..n -> 1..n] /\ \A k \in 1..n : f[k] = PlaceIn(R, D, p[k])
  BY PlacesKeepOrder
<1>3. \A j, k \in 1..n : j < k => f[j] < f[k]
  BY PlacesKeepOrder
<1>4. \A k \in 1..n : f[k] = k
  <2> HIDE DEF f, n
  <2> QED
    BY <1>1, <1>2, <1>3, IncreasingIsIdentity
<1>5. \A k \in 1..n : Listed(R, D)[k] = p[k]
  <2> HIDE DEF f
  <2>1. \A k \in 1..n : Listed(R, D)[PlaceIn(R, D, p[k])] = p[k]
    BY ListedFacts
  <2> QED
    BY <1>2, <1>4, <2>1
<1>6. Listed(R, D) \in [1..n -> D] /\ p \in [1..n -> D]
  BY ListedFacts
<1> DEFINE q == Listed(R, D)
           T == 1..n
<1>7. q \in [T -> D] /\ p \in [T -> D] /\ \A k \in T : q[k] = p[k]
  BY <1>5, <1>6
<1> HIDE DEF n, q, T
<1>8. p = [k \in T |-> p[k]] /\ q = [k \in T |-> q[k]]
  BY <1>7
<1>9. [k \in T |-> p[k]] = [k \in T |-> q[k]]
  BY <1>7, Zenon
<1>10. p = q
  BY <1>8, <1>9, Zenon
<1> QED
  BY <1>10 DEF q

\* A function that takes every value once keeps the size of a set.
LEMMA SameSize ==
    ASSUME NEW S, IsFiniteSet(S), NEW T, NEW f \in [S -> T],
           \A a, b \in S : f[a] = f[b] => a = b,
           \A t \in T : \E a \in S : f[a] = t
    PROVE  IsFiniteSet(T) /\ Cardinality(T) = Cardinality(S)
<1>1. f \in Injection(S, T)
  BY Fun_IsInj
<1>2. f \in Surjection(S, T)
  BY Fun_IsSurj
<1> QED
  BY <1>1, <1>2, FS_Surjection

LEMMA NoLarger ==
    ASSUME NEW S, NEW n \in Nat, NEW f \in [S -> 1..n],
           \A a, b \in S : f[a] = f[b] => a = b
    PROVE  IsFiniteSet(S) /\ Cardinality(S) <= n
<1> DEFINE T == 1..n
<1>1. IsFiniteSet(T) /\ Cardinality(T) = n
  BY FS_Interval
<1> HIDE DEF T
<1>2. f \in [S -> T]
  BY DEF T
<1>3. f \in Injection(S, T)
  BY <1>2, Fun_IsInj
<1> QED
  BY <1>1, <1>3, FS_Injection

\* The elements of D with their numbers, and those of them up to a number.
Numbered(num, text, D) == {<<num[i], text[i]>> : i \in D}
Low(numbered, n) == {x \in numbered : x[1] <= n}

\* num agrees with the order R on D, but may leave numbers out.
Numbers(num, R, D, m) ==
    /\ num \in [D -> 1..m]
    /\ \A i, j \in D : <<i, j>> \in R => num[i] < num[j]

\* The place of an element is how many there are up to its number, which is not
\* smaller.
LEMMA PlacesAndNumbers ==
    ASSUME NEW D, NEW R, Orders(R, D), NEW m \in Nat, NEW num, Numbers(num, R, D, m),
           NEW text
    PROVE  /\ IsFiniteSet(D)
           /\ Cardinality(Numbered(num, text, D)) = Cardinality(D)
           /\ \A i \in D : /\ PlaceIn(R, D, i) <= num[i]
                           /\ Cardinality(Low(Numbered(num, text, D), num[i])) = PlaceIn(R, D, i)
<1> DEFINE I == Numbered(num, text, D)
           g == [i \in D |-> <<num[i], text[i]>>]
<1>1. num \in [D -> 1..m] /\ \A i \in D : num[i] \in Nat /\ num[i] > 0
  BY DEF Numbers
<1>2. \A i, j \in D : num[i] = num[j] => i = j
  <2> SUFFICES ASSUME NEW i \in D, NEW j \in D, num[i] = num[j], i # j PROVE FALSE
    OBVIOUS
  <2>1. <<i, j>> \in R \/ <<j, i>> \in R
    BY DEF Orders
  <2>2. num[i] < num[j] \/ num[j] < num[i]
    BY <2>1 DEF Numbers
  <2> QED
    BY <1>1, <2>2
<1>3. IsFiniteSet(D)
  BY <1>1, <1>2, NoLarger
<1>4. /\ g \in [D -> I]
      /\ \A i \in D : g[i] = <<num[i], text[i]>>
      /\ \A x \in I : \E i \in D : g[i] = x
  BY DEF Numbered
<1>5. \A i, j \in D : g[i] = g[j] => i = j
  BY <1>2, <1>4
<1> HIDE DEF g, I
<1>6. Cardinality(I) = Cardinality(D)
  BY <1>3, <1>4, <1>5, SameSize
<1>7. ASSUME NEW i \in D
      PROVE  PlaceIn(R, D, i) <= num[i] /\ Cardinality(Low(I, num[i])) = PlaceIn(R, D, i)
  <2> DEFINE S == {j \in D : <<j, i>> \in R}
             U == S \cup {i}
             f == [j \in U |-> num[j]]
             h == [j \in U |-> g[j]]
             T == Low(I, num[i])
  <2>1. S \in SUBSET D /\ U \in SUBSET D /\ i \notin S
    BY DEF Orders
  <2>2. PlaceIn(R, D, i) = Cardinality(S) + 1
    BY DEF PlaceIn
  <2>3. \A j \in D : j \in U <=> num[j] <= num[i]
    <3> SUFFICES ASSUME NEW j \in D PROVE j \in U <=> num[j] <= num[i]
      OBVIOUS
    <3>1. j = i \/ <<j, i>> \in R \/ <<i, j>> \in R
      BY DEF Orders
    <3>2. <<j, i>> \in R => num[j] < num[i]
      BY DEF Numbers
    <3>3. <<i, j>> \in R => num[i] < num[j]
      BY DEF Numbers
    <3>4. <<j, i>> \in R => j \in U
      OBVIOUS
    <3>5. j \in U => j = i \/ <<j, i>> \in R
      OBVIOUS
    <3> HIDE DEF U
    <3> QED
      BY <1>1, <2>1, <3>1, <3>2, <3>3, <3>4, <3>5 DEF U
  <2>4. Cardinality(U) = PlaceIn(R, D, i) /\ IsFiniteSet(U)
    <3> HIDE DEF S
    <3>1. IsFiniteSet(S)
      BY <1>3, <2>1, FS_Subset
    <3> QED
      BY <2>1, <2>2, <3>1, FS_AddElement
  <2> HIDE DEF S, U
  <2>5. Cardinality(U) <= num[i]
    <3>1. f \in [U -> 1..num[i]] /\ \A j \in U : f[j] = num[j]
      BY <1>1, <2>1, <2>3
    <3> HIDE DEF f
    <3>2. \A j, k \in U : f[j] = f[k] => j = k
      BY <1>2, <2>1, <3>1
    <3> QED
      BY <1>1, <3>1, <3>2, NoLarger
  <2>6. Cardinality(T) = Cardinality(U)
    <3>1. \A j \in U : g[j] \in T
      BY <1>4, <2>1, <2>3 DEF Low
    <3>2. h \in [U -> T] /\ \A j \in U : h[j] = g[j]
      BY <3>1
    <3> HIDE DEF h
    <3>3. \A x \in T : \E j \in U : h[j] = x
      <4> SUFFICES ASSUME NEW x \in T PROVE \E j \in U : h[j] = x
        OBVIOUS
      <4>1. PICK j \in D : g[j] = x
        BY <1>4 DEF Low
      <4>2. j \in U
        BY <1>4, <2>3, <4>1 DEF Low
      <4> QED
        BY <3>2, <4>1, <4>2
    <3>4. \A j, k \in U : h[j] = h[k] => j = k
      BY <1>5, <2>1, <3>2
    <3> HIDE DEF T
    <3> QED
      BY <2>4, <3>2, <3>3, <3>4, SameSize
  <2> QED
    BY <2>4, <2>5, <2>6
<1> QED
  BY <1>3, <1>6, <1>7 DEF I
=============================================================================
