-------------------------- MODULE EvaluationProofs --------------------------
(***************************************************************************)
(* Theorems about ReadingStream: what the evaluation finds, for readings   *)
(* of any number, in any order, under any valid policy.                    *)
(***************************************************************************)
EXTENDS ReadingStream, FiniteSetTheorems, TLAPS

----------------------------------------------------------------------------
(* Induction, from the least counterexample, and functions by recursion.   *)

LEMMA LeastOf ==
  ASSUME NEW S \in SUBSET Nat, S # {}
  PROVE  \E x \in S : \A y \in S : x <= y
<1>1. PICK x \in S : \A y \in S : ~(<<y, x>> \in OpToRel(<, Nat))
  BY WFMin, NatLessThanWellFounded
<1>2. \A y \in S : y < x => <<y, x>> \in OpToRel(<, Nat)
  BY DEF OpToRel
<1>3. \A y \in S : ~(y < x)
  BY <1>1, <1>2, Zenon
<1>4. \A y \in S : x <= y
  BY <1>3
<1> QED
  BY <1>4, Zenon

LEMMA CountUp ==
  ASSUME NEW n \in Nat, NEW T, 0 \in T,
         \A i \in 0..(n-1) : i \in T => i + 1 \in T
  PROVE  \A i \in 0..n : i \in T
<1> DEFINE S == {i \in 0..n : i \notin T}
<1> SUFFICES S = {}
  OBVIOUS
<1>1. SUFFICES ASSUME S # {} PROVE FALSE
  OBVIOUS
<1>2. S \in SUBSET Nat
  OBVIOUS
<1>3. PICK x \in S : \A y \in S : x <= y
  <2> HIDE DEF S
  <2> QED
    BY <1>1, <1>2, LeastOf
<1>4. x \in 1..n /\ x - 1 \in 0..(n-1)
  OBVIOUS
<1>5. x - 1 \notin S
  BY <1>3, <1>4
<1> QED
  BY <1>4, <1>5

Recurs(g, n, base, F) == g[0] = base /\ \A i \in 1..n : g[i] = F[<<i, g[i-1]>>]

LEMMA ByRecursion ==
  ASSUME NEW n \in Nat, NEW S, NEW base \in S, NEW F \in [(1..n) \X S -> S]
  PROVE  \E g \in [0..n -> S] : Recurs(g, n, base, F)
<1> DEFINE Upto(m, g) == g[0] = base /\ \A i \in 1..m : g[i] = F[<<i, g[i-1]>>]
           T == {m \in 0..n : \E g \in [0..m -> S] : Upto(m, g)}
<1>1. 0 \in T
  <2> DEFINE h == [i \in 0..0 |-> base]
  <2>1. h \in [0..0 -> S] /\ Upto(0, h)
    OBVIOUS
  <2> HIDE DEF h, Upto
  <2>2. \E g \in [0..0 -> S] : Upto(0, g)
    BY <2>1
  <2> QED
    BY <2>2
<1>2. ASSUME NEW m \in 0..(n-1), m \in T PROVE m + 1 \in T
  <2>1. PICK g \in [0..m -> S] : Upto(m, g)
    BY <1>2
  <2> DEFINE h == [i \in 0..(m+1) |-> IF i = m + 1 THEN F[<<m + 1, g[m]>>] ELSE g[i]]
  <2>2. g[m] \in S /\ F[<<m + 1, g[m]>>] \in S
    OBVIOUS
  <2>3. h \in [0..(m+1) -> S]
    BY <2>2
  <2>4. /\ \A i \in 0..m : h[i] = g[i]
        /\ h[m+1] = F[<<m + 1, g[m]>>]
    OBVIOUS
  <2> HIDE DEF h
  <2>5. ASSUME NEW i \in 1..(m+1) PROVE h[i] = F[<<i, h[i-1]>>]
    <3>1. CASE i = m + 1
      BY <2>4, <3>1
    <3>2. CASE i # m + 1
      <4>1. i \in 1..m /\ i - 1 \in 0..m
        BY <3>2
      <4> QED
        BY <2>1, <2>4, <4>1
    <3> QED
      BY <3>1, <3>2
  <2>6. Upto(m + 1, h)
    BY <2>1, <2>4, <2>5
  <2> QED
    BY <2>3, <2>6
<1>3. \A i \in 0..n : i \in T
  <2> HIDE DEF T
  <2> QED
    BY <1>1, <1>2, CountUp
<1> QED
  BY <1>3 DEF Recurs

----------------------------------------------------------------------------
(* Sums over finite sets.  The library sums by taking one element after    *)
(* another, whichever CHOOSE gives.                                        *)

Taken(s) == CHOOSE x \in s : TRUE

\* g sums f over the subsets of D the way the library does.
Sums(g, f, D) ==
  /\ g[{}] = 0
  /\ \A s \in SUBSET D : s # {} => g[s] = f[Taken(s)] + g[s \ {Taken(s)}]

LEMMA TakenIsIn ==
  ASSUME NEW D, IsFiniteSet(D), NEW s \in SUBSET D, s # {}
  PROVE  /\ Taken(s) \in s /\ Taken(s) \in D /\ s \ {Taken(s)} \in SUBSET D
         /\ Cardinality(s) \in Nat \ {0}
         /\ Cardinality(s \ {Taken(s)}) = Cardinality(s) - 1
<1>1. Taken(s) \in s
  BY Zenon DEF Taken
<1>2. IsFiniteSet(s)
  BY FS_Subset
<1>3. Cardinality(s) \in Nat /\ Cardinality(s) # 0
  BY <1>2, FS_CardinalityType, FS_EmptySet
<1>4. Cardinality(s \ {Taken(s)}) = Cardinality(s) - 1
  BY <1>1, <1>2, FS_RemoveElement
<1> QED
  BY <1>1, <1>3, <1>4

LEMMA SumsExist ==
  ASSUME NEW D, IsFiniteSet(D), NEW f \in [D -> Int]
  PROVE  \E g \in [SUBSET D -> Int] : Sums(g, f, D)
<1> DEFINE n == Cardinality(D)
           Small(m) == {s \in SUBSET D : Cardinality(s) <= m}
           Good(g, m) == /\ g[{}] = 0
                         /\ \A s \in Small(m) :
                              s # {} => g[s] = f[Taken(s)] + g[s \ {Taken(s)}]
           T == {m \in 0..n : \E g \in [Small(m) -> Int] : Good(g, m)}
<1>1. n \in Nat
  BY FS_CardinalityType
<1>2. \A s \in SUBSET D : Cardinality(s) \in 0..n
  BY <1>1, FS_Subset, FS_CardinalityType
<1>3. {} \in SUBSET D /\ Cardinality({}) = 0
  BY FS_EmptySet
<1> HIDE DEF n
<1>4. 0 \in T
  <2> DEFINE h == [s \in Small(0) |-> 0]
  <2>1. ASSUME NEW s \in Small(0) PROVE s = {}
    <3>1. s \in SUBSET D /\ Cardinality(s) <= 0
      OBVIOUS
    <3>2. Cardinality(s) = 0 /\ IsFiniteSet(s)
      BY <1>1, <1>2, <3>1, FS_Subset
    <3> QED
      BY <3>2, FS_EmptySet
  <2>2. {} \in Small(0)
    BY <1>3
  <2>3. h \in [Small(0) -> Int] /\ Good(h, 0)
    BY <2>1, <2>2
  <2> HIDE DEF h, Good, Small
  <2>4. \E g \in [Small(0) -> Int] : Good(g, 0)
    BY <2>3
  <2> QED
    BY <1>1, <2>4
<1>5. ASSUME NEW m \in 0..(n-1), m \in T PROVE m + 1 \in T
  <2>1. PICK g \in [Small(m) -> Int] : Good(g, m)
    BY <1>5
  <2> DEFINE h == [s \in Small(m + 1) |->
                     IF s \in Small(m) THEN g[s] ELSE f[Taken(s)] + g[s \ {Taken(s)}]]
  <2>2. {} \in Small(m) /\ Small(m) \subseteq Small(m + 1)
    BY <1>1, <1>2, <1>3
  <2>3. ASSUME NEW s \in Small(m + 1), s # {}
        PROVE  s \ {Taken(s)} \in Small(m) /\ f[Taken(s)] \in Int /\ g[s \ {Taken(s)}] \in Int
    <3>1. s \in SUBSET D /\ Cardinality(s) <= m + 1
      BY <2>3
    <3>2. /\ Taken(s) \in D /\ s \ {Taken(s)} \in SUBSET D
          /\ Cardinality(s \ {Taken(s)}) = Cardinality(s) - 1
          /\ Cardinality(s) \in Nat
      BY <2>3, <3>1, TakenIsIn
    <3>3. Cardinality(s \ {Taken(s)}) <= m
      BY <1>1, <3>1, <3>2
    <3>4. s \ {Taken(s)} \in Small(m)
      BY <3>2, <3>3
    <3> QED
      BY <2>1, <3>2, <3>4
  <2>4. h \in [Small(m + 1) -> Int]
    <3>1. ASSUME NEW s \in Small(m + 1) PROVE h[s] \in Int
      <4>1. CASE s \in Small(m)
        <5> HIDE DEF Small
        <5> QED
          BY <4>1
      <4>2. CASE s \notin Small(m)
        <5>1. s # {}
          BY <2>2, <4>2
        <5>2. f[Taken(s)] \in Int /\ g[s \ {Taken(s)}] \in Int
          BY <2>3, <5>1
        <5> HIDE DEF Small
        <5> QED
          BY <4>2, <5>2
      <4> QED
        BY <4>1, <4>2
    <3> HIDE DEF Small
    <3> QED
      BY <3>1
  <2>5. \A s \in Small(m) : h[s] = g[s]
    <3> HIDE DEF Small
    <3> QED
      BY <2>2
  <2>6. \A s \in Small(m + 1) : s # {} => h[s] = f[Taken(s)] + g[s \ {Taken(s)}]
    <3> HIDE DEF Small
    <3> QED
      BY <2>1
  <2>7. Good(h, m + 1)
    <3> HIDE DEF h
    <3>1. h[{}] = 0
      BY <2>1, <2>2, <2>5
    <3>2. \A s \in Small(m + 1) : s # {} => h[s \ {Taken(s)}] = g[s \ {Taken(s)}]
      BY <2>3, <2>5
    <3> HIDE DEF Small
    <3> QED
      BY <2>6, <3>1, <3>2
  <2>8. \E q \in [Small(m + 1) -> Int] : Good(q, m + 1)
    <3> HIDE DEF h, Good, Small
    <3> QED
      BY <2>4, <2>7
  <2>9. m + 1 \in 0..n
    BY <1>1
  <2> QED
    BY <2>8, <2>9
<1>6. n \in T
  <2> HIDE DEF T
  <2>1. \A m \in 0..n : m \in T
    BY <1>1, <1>4, <1>5, CountUp
  <2> QED
    BY <1>1, <2>1
<1>7. PICK g \in [Small(n) -> Int] : Good(g, n)
  BY <1>6
<1>8. Small(n) = SUBSET D
  BY <1>1, <1>2
<1>9. g \in [SUBSET D -> Int] /\ Sums(g, f, D)
  BY <1>7, <1>8 DEF Sums
<1> QED
  BY <1>9

\* Two of them agree, also when one sums over fewer elements.
LEMMA SumsAgree ==
  ASSUME NEW D, IsFiniteSet(D), NEW f \in [D -> Int],
         NEW g \in [SUBSET D -> Int], Sums(g, f, D),
         NEW E \in SUBSET D, NEW e, \A x \in E : e[x] = f[x],
         NEW h, Sums(h, e, E)
  PROVE  \A s \in SUBSET E : h[s] = g[s]
<1> DEFINE n == Cardinality(D)
           T == {m \in 0..n : \A s \in SUBSET E : Cardinality(s) <= m => h[s] = g[s]}
<1>1. n \in Nat
  BY FS_CardinalityType
<1>2. \A s \in SUBSET D : Cardinality(s) \in 0..n /\ (Cardinality(s) = 0 => s = {})
  BY <1>1, FS_Subset, FS_CardinalityType, FS_EmptySet
<1> HIDE DEF n
<1>3. 0 \in T
  <2>1. ASSUME NEW s \in SUBSET E, Cardinality(s) <= 0 PROVE s = {}
    BY <1>1, <1>2, <2>1
  <2>2. h[{}] = g[{}]
    BY Zenon DEF Sums
  <2> QED
    BY <1>1, <2>1, <2>2
<1>4. ASSUME NEW m \in 0..(n-1), m \in T PROVE m + 1 \in T
  <2>1. ASSUME NEW s \in SUBSET E, Cardinality(s) <= m + 1 PROVE h[s] = g[s]
    <3>1. CASE s = {}
      BY <3>1 DEF Sums
    <3>2. CASE s # {}
      <4>1. s \in SUBSET D
        OBVIOUS
      <4>2. /\ Taken(s) \in s /\ s \ {Taken(s)} \in SUBSET D
            /\ Cardinality(s \ {Taken(s)}) = Cardinality(s) - 1
            /\ Cardinality(s) \in Nat
        BY <3>2, <4>1, TakenIsIn
      <4>3. Cardinality(s \ {Taken(s)}) <= m /\ s \ {Taken(s)} \in SUBSET E
        BY <1>1, <2>1, <4>2
      <4>4. h[s \ {Taken(s)}] = g[s \ {Taken(s)}]
        BY <1>4, <4>3
      <4>5. e[Taken(s)] = f[Taken(s)]
        BY <4>2
      <4>6. h[s] = e[Taken(s)] + h[s \ {Taken(s)}] /\ g[s] = f[Taken(s)] + g[s \ {Taken(s)}]
        BY <3>2, <4>1, Zenon DEF Sums
      <4> QED
        BY <4>4, <4>5, <4>6
    <3> QED
      BY <3>1, <3>2
  <2> QED
    BY <1>1, <2>1
<1>5. n \in T
  <2> HIDE DEF T
  <2>1. \A m \in 0..n : m \in T
    BY <1>1, <1>3, <1>4, CountUp
  <2> QED
    BY <1>1, <2>1
<1> QED
  BY <1>2, <1>5

LEMMA SumIsOne ==
  ASSUME NEW D, IsFiniteSet(D), NEW f \in [D -> Int]
  PROVE  \E g : Sums(g, f, D) /\ SumFunction(f) = g[D]
<1> DEFINE It(g) == g = [s \in SUBSET D |-> IF s = {} THEN 0
                                           ELSE LET x == CHOOSE x \in s : TRUE
                                                IN f[x] + g[s \ {x}]]
           h == CHOOSE g : It(g)
<1>1. PICK g \in [SUBSET D -> Int] : Sums(g, f, D)
  BY SumsExist
<1>2. It(g)
  BY <1>1 DEF Sums, Taken
<1>3. It(h)
  BY <1>2, Zenon
<1>4. SumFunction(f) = h[D]
  BY DEF SumFunction, SumFunctionOnSet, FoldFunctionOnSet, MapThenFoldSet
<1> HIDE DEF h
<1>5. Sums(h, f, D)
  BY <1>3, Zenon DEF Sums, Taken
<1> QED
  BY <1>4, <1>5

\* What a sum is does not depend on the element taken first.
AnyFirst(g, f, D) == \A s \in SUBSET D : \A x \in s : g[s] = f[x] + g[s \ {x}]

LEMMA SumsRemove ==
  ASSUME NEW D, IsFiniteSet(D), NEW f \in [D -> Int],
         NEW g \in [SUBSET D -> Int], Sums(g, f, D)
  PROVE  AnyFirst(g, f, D)
<1> DEFINE n == Cardinality(D)
           Fits(s) == \A x \in s : g[s] = f[x] + g[s \ {x}]
           T == {m \in 0..n : \A s \in SUBSET D : Cardinality(s) <= m => Fits(s)}
<1>1. n \in Nat
  BY FS_CardinalityType
<1>2. \A s \in SUBSET D : Cardinality(s) \in 0..n /\ (Cardinality(s) = 0 => s = {})
  BY <1>1, FS_Subset, FS_CardinalityType, FS_EmptySet
<1> HIDE DEF n
<1>3. 0 \in T
  BY <1>1, <1>2
<1>4. ASSUME NEW m \in 0..(n-1), m \in T PROVE m + 1 \in T
  <2>1. ASSUME NEW s \in SUBSET D, Cardinality(s) <= m + 1, NEW x \in s, x # Taken(s)
        PROVE  g[s] = f[x] + g[s \ {x}]
    <3> DEFINE y == Taken(s)
    <3>1. /\ y \in s /\ s \ {y} \in SUBSET D
          /\ Cardinality(s \ {y}) = Cardinality(s) - 1
          /\ Cardinality(s) \in Nat
      BY <2>1, TakenIsIn
    <3>2. IsFiniteSet(s)
      BY FS_Subset
    <3>3. Cardinality(s \ {x}) = Cardinality(s) - 1
      BY <3>2, FS_RemoveElement
    <3> HIDE DEF y
    <3>4. Fits(s \ {y}) /\ Fits(s \ {x})
      <4>1. Cardinality(s \ {y}) <= m /\ Cardinality(s \ {x}) <= m
        BY <1>1, <2>1, <3>1, <3>3
      <4> HIDE DEF Fits
      <4> QED
        BY <1>4, <4>1
    <3>5. g[s] = f[y] + g[s \ {y}]
      BY <2>1, Zenon DEF Sums, y
    <3> DEFINE u == (s \ {y}) \ {x}
    <3>6. g[s \ {y}] = f[x] + g[u]
      BY <2>1, <3>4 DEF y
    <3>7. g[s \ {x}] = f[y] + g[u]
      <4>1. u = (s \ {x}) \ {y} /\ y \in s \ {x}
        BY <2>1, <3>1 DEF y
      <4> HIDE DEF u
      <4> QED
        BY <3>4, <4>1
    <3>8. u \in SUBSET D
      OBVIOUS
    <3> HIDE DEF u
    <3>9. g[u] \in Int /\ f[x] \in Int /\ f[y] \in Int
      BY <3>1, <3>8
    <3> QED
      BY <3>5, <3>6, <3>7, <3>8, <3>9
  <2>2. ASSUME NEW s \in SUBSET D, Cardinality(s) <= m + 1 PROVE Fits(s)
    <3>1. ASSUME NEW x \in s, x = Taken(s) PROVE g[s] = f[x] + g[s \ {x}]
      BY <3>1, Zenon DEF Sums
    <3> QED
      BY <2>1, <2>2, <3>1
  <2> HIDE DEF Fits
  <2> QED
    BY <1>1, <2>2
<1>5. n \in T
  <2> HIDE DEF T
  <2>1. \A m \in 0..n : m \in T
    BY <1>1, <1>3, <1>4, CountUp
  <2> QED
    BY <1>1, <2>1
<1>6. \A s \in SUBSET D : Fits(s)
  <2> HIDE DEF Fits
  <2> QED
    BY <1>1, <1>2, <1>5
<1> QED
  BY <1>6 DEF AnyFirst

\* So the sum is that of a function that may take any element first.
LEMMA SumTakesAny ==
  ASSUME NEW D, IsFiniteSet(D), NEW f \in [D -> Int]
  PROVE  \E h \in [SUBSET D -> Int] :
           /\ h[{}] = 0
           /\ \A s \in SUBSET D : \A x \in s : h[s] = f[x] + h[s \ {x}]
           /\ SumFunction(f) = h[D]
<1>1. PICK g : Sums(g, f, D) /\ SumFunction(f) = g[D]
  BY SumIsOne
<1>2. PICK h \in [SUBSET D -> Int] : Sums(h, f, D)
  BY SumsExist
<1>3. D \in SUBSET D /\ \A x \in D : f[x] = f[x]
  OBVIOUS
<1>4. \A s \in SUBSET D : g[s] = h[s]
  BY <1>1, <1>2, <1>3, SumsAgree
<1>5. AnyFirst(h, f, D)
  BY <1>2, SumsRemove
<1>6. h[{}] = 0
  BY <1>2, Zenon DEF Sums
<1> QED
  BY <1>1, <1>3, <1>4, <1>5, <1>6, Zenon DEF AnyFirst

\* The list has each element of D once, and others perhaps.
ListsOnce(e, n, D) ==
  /\ \A i, j \in 1..n : e[i] \in D /\ e[i] = e[j] => i = j
  /\ \A x \in D : \E i \in 1..n : x = e[i]

\* p sums up f over the elements of D in the list.
SumsUp(p, f, e, n, D) ==
  p[0] = 0 /\ \A i \in 1..n : p[i] = p[i-1] + (IF e[i] \in D THEN f[e[i]] ELSE 0)

\* A sum over the elements of a list.
LEMMA SumOfList ==
  ASSUME NEW n \in Nat, NEW D, NEW e, ListsOnce(e, n, D),
         NEW f \in [D -> Int], NEW p \in [0..n -> Int], SumsUp(p, f, e, n, D)
  PROVE  IsFiniteSet(D) /\ SumFunction(f) = p[n]
<1> USE DEF ListsOnce, SumsUp
<1>1. IsFiniteSet(D)
  <2> DEFINE all == {e[i] : i \in 1..n}
             list == [i \in 1..n |-> e[i]]
  <2>1. list \in Surjection(1..n, all)
    BY DEF Surjection
  <2>2. IsFiniteSet(1..n)
    BY FS_Interval
  <2>3. IsFiniteSet(all)
    <3> HIDE DEF all, list
    <3> QED
      BY <2>1, <2>2, FS_Surjection
  <2>4. D \subseteq all
    OBVIOUS
  <2> HIDE DEF all
  <2> QED
    BY <2>3, <2>4, FS_Subset
<1>2. PICK h \in [SUBSET D -> Int] :
        /\ h[{}] = 0
        /\ \A s \in SUBSET D : \A x \in s : h[s] = f[x] + h[s \ {x}]
        /\ SumFunction(f) = h[D]
  BY <1>1, SumTakesAny
<1> DEFINE Seen(k) == {e[i] : i \in 1..k} \cap D
           T == {k \in 0..n : h[Seen(k)] = p[k]}
<1>3. 0 \in T
  <2>1. Seen(0) = {}
    OBVIOUS
  <2>2. h[Seen(0)] = p[0]
    BY <1>2, <2>1, Zenon
  <2> HIDE DEF Seen
  <2> QED
    BY <2>2
<1>4. ASSUME NEW k \in 0..(n-1), k \in T PROVE k + 1 \in T
  <2>1. k + 1 \in 1..n /\ k \in 0..n /\ (k + 1) - 1 = k
    OBVIOUS
  <2>2. h[Seen(k)] = p[k]
    BY <1>4
  <2>3. CASE e[k+1] \in D
    <3> DEFINE more == Seen(k + 1)
               x == e[k+1]
    <3>1. more \in SUBSET D /\ x \in more
      <4>1. k + 1 \in 1..(k+1)
        BY <2>1
      <4> QED
        BY <2>3, <4>1
    <3>2. more \ {x} = Seen(k)
      <4>1. \A i \in 1..k : i \in 1..n /\ i # k + 1 /\ i \in 1..(k+1)
        BY <2>1
      <4>2. x \notin Seen(k)
        BY <2>1, <2>3, <4>1
      <4>3. \A i \in 1..(k+1) : i \in 1..k \/ i = k + 1
        BY <2>1
      <4>4. more \subseteq Seen(k) \cup {x}
        <5>1. ASSUME NEW y \in more PROVE y \in Seen(k) \cup {x}
          <6>1. PICK i \in 1..(k+1) : y = e[i] /\ y \in D
            OBVIOUS
          <6> QED
            BY <4>3, <6>1
        <5> QED
          BY <5>1
      <4>5. Seen(k) \subseteq more
        BY <4>1
      <4> HIDE DEF more, x, Seen
      <4> QED
        BY <3>1, <4>2, <4>4, <4>5
    <3>3. p[k+1] = p[k] + f[x] /\ p[k] \in Int /\ f[x] \in Int
      BY <2>1, <2>3
    <3> HIDE DEF more, x, Seen
    <3>4. h[more] = f[x] + h[more \ {x}]
      BY <1>2, <3>1
    <3>5. h[more] = f[x] + h[Seen(k)]
      BY <3>2, <3>4, Zenon
    <3> QED
      BY <2>1, <2>2, <3>3, <3>5 DEF more
  <2>4. CASE e[k+1] \notin D
    <3>1. Seen(k + 1) = Seen(k)
      BY <2>1, <2>4
    <3>2. p[k+1] = p[k] /\ p[k] \in Int
      BY <2>1, <2>4
    <3> HIDE DEF Seen
    <3> QED
      BY <2>1, <2>2, <3>1, <3>2
  <2> QED
    BY <2>3, <2>4
<1>5. n \in T
  <2> HIDE DEF T
  <2>1. \A k \in 0..n : k \in T
    BY <1>3, <1>4, CountUp
  <2> QED
    BY <2>1
<1>6. Seen(n) = D
  OBVIOUS
<1> QED
  BY <1>1, <1>2, <1>5, <1>6

----------------------------------------------------------------------------
(* The order of the readings.                                              *)

\* What the theorems ask of the readings of a lot; no two have one ID.
Stored(R) ==
  IsFiniteSet(R) /\ R \subseteq Reading /\ \A r, s \in R : r.id = s.id => r = s

LEMMA BeforeIsTotal ==
  ASSUME NEW R, Stored(R), NEW r \in R, NEW s \in R
  PROVE  /\ r = s \/ Before(r, s) \/ Before(s, r)
         /\ ~Before(r, r)
         /\ \A t \in R : Before(r, s) /\ Before(s, t) => Before(r, t)
<1>1. \A t \in R : t.id \in Nat /\ t.at \in Nat
  BY DEF Stored, Reading
<1>2. r.id = s.id => r = s
  BY DEF Stored
<1> QED
  BY <1>1, <1>2 DEF Before

LEMMA LastReading ==
  ASSUME NEW R, Stored(R), R # {}
  PROVE  \E m \in R : \A r \in R \ {m} : Before(r, m)
<1> DEFINE n == Cardinality(R)
           HasLast(s) == \E m \in s : \A r \in s \ {m} : Before(r, m)
           T == {k \in 0..n : \A s \in SUBSET R :
                                s # {} /\ Cardinality(s) <= k => HasLast(s)}
<1>1. IsFiniteSet(R)
  BY DEF Stored
<1>2. n \in Nat
  BY <1>1, FS_CardinalityType
<1> HIDE DEF n
<1>3. 0 \in T
  <2>1. ASSUME NEW s \in SUBSET R, s # {} PROVE ~(Cardinality(s) <= 0)
    <3>1. Cardinality(s) \in Nat \ {0}
      BY <1>1, <2>1, TakenIsIn
    <3> QED
      BY <3>1
  <2> QED
    BY <1>2, <2>1
<1>4. ASSUME NEW k \in 0..(n-1), k \in T PROVE k + 1 \in T
  <2>1. ASSUME NEW s \in SUBSET R, s # {}, Cardinality(s) <= k + 1
        PROVE  HasLast(s)
    <3> DEFINE x == Taken(s)
               less == s \ {x}
    <3>1. /\ x \in s /\ x \in R /\ less \in SUBSET R /\ Cardinality(less) = Cardinality(s) - 1
          /\ Cardinality(s) \in Nat
      BY <1>1, <2>1, TakenIsIn
    <3>2. \A r \in less : r \in s /\ r # x
      OBVIOUS
    <3>3. \A r \in s : r = x \/ r \in less
      OBVIOUS
    <3> HIDE DEF x, less
    <3>4. CASE less = {}
      BY <3>1, <3>3, <3>4
    <3>5. CASE less # {}
      <4>1. Cardinality(less) <= k
        BY <1>2, <2>1, <3>1
      <4>2. PICK m \in less : \A r \in less \ {m} : Before(r, m)
        BY <1>4, <3>1, <3>5, <4>1
      <4>3. m \in R /\ m # x /\ m \in s
        BY <3>1, <3>2
      <4>4. CASE Before(x, m)
        <5>1. \A r \in s \ {m} : Before(r, m)
          BY <3>3, <4>2, <4>4
        <5> QED
          BY <4>3, <5>1
      <4>5. CASE ~Before(x, m)
        <5>1. Before(m, x)
          BY <3>1, <4>3, <4>5, BeforeIsTotal
        <5>2. ASSUME NEW r \in s, r # x PROVE Before(r, x)
          <6>1. r \in less /\ r \in R
            BY <3>1, <3>3, <5>2
          <6>2. r = m \/ Before(r, m)
            BY <4>2, <6>1
          <6> QED
            BY <3>1, <4>3, <5>1, <6>1, <6>2, BeforeIsTotal
        <5> QED
          BY <3>1, <5>2
      <4> QED
        BY <4>4, <4>5
    <3> QED
      BY <3>4, <3>5
  <2> HIDE DEF HasLast
  <2> QED
    BY <1>2, <2>1
<1>5. n \in T
  <2> HIDE DEF T
  <2>1. \A k \in 0..n : k \in T
    BY <1>2, <1>3, <1>4, CountUp
  <2> QED
    BY <1>2, <2>1
<1>6. R \in SUBSET R /\ Cardinality(R) <= n
  BY <1>2 DEF n
<1>7. HasLast(R)
  <2> HIDE DEF HasLast
  <2> QED
    BY <1>5, <1>6
<1> QED
  BY <1>7

Listing(items, R) ==
  /\ items \in [1..Cardinality(R) -> R]
  /\ \A i, j \in DOMAIN items : i < j => Before(items[i], items[j])

LEMMA ListingExists ==
  ASSUME NEW R, Stored(R)
  PROVE  \E items : Listing(items, R)
<1> DEFINE n == Cardinality(R)
           T == {k \in 0..n : \A s \in SUBSET R : Cardinality(s) = k => \E items : Listing(items, s)}
<1>1. IsFiniteSet(R)
  BY DEF Stored
<1>2. n \in Nat
  BY <1>1, FS_CardinalityType
<1> HIDE DEF n
<1>3. 0 \in T
  <2>1. ASSUME NEW s \in SUBSET R, Cardinality(s) = 0 PROVE Listing(<<>>, s)
    BY <2>1 DEF Listing
  <2> QED
    BY <1>2, <2>1
<1>4. ASSUME NEW k \in 0..(n-1), k \in T PROVE k + 1 \in T
  <2>1. ASSUME NEW s \in SUBSET R, Cardinality(s) = k + 1
        PROVE  \E items : Listing(items, s)
    <3>1. Stored(s) /\ IsFiniteSet(s)
      BY <1>1, FS_Subset DEF Stored
    <3>2. s # {}
      BY <1>2, <2>1, FS_EmptySet
    <3>3. PICK m \in s : \A r \in s \ {m} : Before(r, m)
      BY <3>1, <3>2, LastReading
    <3>4. Cardinality(s \ {m}) = k /\ s \ {m} \in SUBSET R
      BY <1>2, <2>1, <3>1, FS_RemoveElement
    <3>5. PICK items : Listing(items, s \ {m})
      BY <1>4, <3>4
    <3>6. /\ items \in [1..k -> s \ {m}]
          /\ \A i, j \in 1..k : i < j => Before(items[i], items[j])
      BY <3>4, <3>5 DEF Listing
    <3> DEFINE more == [i \in 1..(k+1) |-> IF i = k + 1 THEN m ELSE items[i]]
    <3>7. \A i \in 1..k : items[i] \in s /\ Before(items[i], m)
      BY <3>3, <3>6
    <3>8. more \in [1..(k+1) -> s]
      BY <3>7
    <3>9. \A i, j \in 1..(k+1) : i < j => Before(more[i], more[j])
      <4>1. ASSUME NEW i \in 1..(k+1), NEW j \in 1..(k+1), i < j
            PROVE  Before(more[i], more[j])
        <5>1. i \in 1..k /\ more[i] = items[i]
          BY <4>1
        <5>2. CASE j = k + 1
          BY <3>7, <5>1, <5>2
        <5>3. CASE j # k + 1
          <6>1. j \in 1..k /\ more[j] = items[j]
            BY <5>3
          <6> QED
            BY <3>6, <4>1, <5>1, <6>1
        <5> QED
          BY <5>2, <5>3
      <4> QED
        BY <4>1
    <3>10. Listing(more, s)
      <4>1. DOMAIN more = 1..(k+1)
        OBVIOUS
      <4> HIDE DEF more
      <4> QED
        BY <2>1, <3>8, <3>9, <4>1 DEF Listing
    <3> QED
      BY <3>10
  <2> QED
    BY <1>2, <2>1
<1>5. n \in T
  <2> HIDE DEF T
  <2>1. \A k \in 0..n : k \in T
    BY <1>2, <1>3, <1>4, CountUp
  <2> QED
    BY <1>2, <2>1
<1>6. R \in SUBSET R /\ Cardinality(R) = n
  BY DEF n
<1> QED
  BY <1>5, <1>6

\* The readings of a lot as the scan sees them.
Sorted(items) ==
  /\ items \in Seq(Reading)
  /\ \A i, j \in 1..Len(items) : i < j => items[i].at <= items[j].at

LEMMA InOrderSorts ==
  ASSUME NEW R, Stored(R)
  PROVE  LET items == InOrder(R)
         IN /\ Sorted(items)
            /\ \A i \in 1..Len(items) : items[i] \in R
            /\ \A r \in R : \E i \in 1..Len(items) : items[i] = r
            /\ \A i, j \in 1..Len(items) : items[i] = items[j] => i = j
<1> DEFINE n == Cardinality(R)
           items == InOrder(R)
<1>1. IsFiniteSet(R) /\ R \subseteq Reading
  BY DEF Stored
<1>2. n \in Nat
  BY <1>1, FS_CardinalityType
<1>3. Listing(items, R)
  <2>1. PICK order : Listing(order, R)
    BY ListingExists
  <2>2. \E s \in [1..n -> R] : \A i, j \in DOMAIN s : i < j => Before(s[i], s[j])
    BY <2>1, Zenon DEF Listing
  <2> QED
    BY <2>2, Zenon DEF InOrder, Listing
<1> HIDE DEF items
<1>4. /\ items \in [1..n -> R]
      /\ \A i, j \in 1..n : i < j => Before(items[i], items[j])
  BY <1>3 DEF Listing
<1> HIDE DEF n
<1>5. items \in Seq(Reading) /\ Len(items) = n /\ \A i \in 1..n : items[i] \in R
  BY <1>1, <1>2, <1>4
<1>6. ASSUME NEW i \in 1..n, NEW j \in 1..n, items[i] = items[j] PROVE i = j
  <2>1. ~(i < j) /\ ~(j < i)
    <3>1. ~Before(items[i], items[i])
      BY <1>5, BeforeIsTotal
    <3> QED
      BY <1>4, <1>6, <3>1
  <2> QED
    BY <1>2, <2>1
<1>7. items \in Surjection(1..n, R)
  <2>1. items \in Injection(1..n, R)
    BY <1>4, <1>6 DEF Injection, IsInjective
  <2>2. Cardinality(1..n) = n /\ n = Cardinality(R)
    BY <1>2, FS_Interval DEF n
  <2> QED
    BY <1>1, <2>1, <2>2, FS_Injection
<1>8. \A r \in R : \E i \in 1..n : items[i] = r
  BY <1>7 DEF Surjection
<1>9. \A i, j \in 1..n : i < j => items[i].at <= items[j].at
  <2>1. \A i \in 1..n : items[i].at \in Nat
    BY <1>1, <1>5 DEF Reading
  <2> QED
    BY <1>4, <2>1 DEF Before
<1>10. Sorted(items)
  BY <1>5, <1>9 DEF Sorted
<1> QED
  BY <1>5, <1>6, <1>8, <1>10, Zenon DEF items

----------------------------------------------------------------------------
(* The scan: its steps, and what it is after each.                         *)

Kinds == {"none", "GAP", "HIGH", "LOW"}
AnySegment == [kind : Kinds, start : Nat, end : Nat, peak : Int, exposure : Int]
AnyScan == [done : Seq(AnySegment), current : AnySegment]

LEMMA ReadingTypes ==
  ASSUME NEW items, Sorted(items), NEW i \in 1..Len(items)
  PROVE  /\ items[i] \in Reading /\ items[i].at \in Nat /\ items[i].c \in Int
         /\ Delta(items[i]) \in Int /\ Kind(items[i]) \in {"HIGH", "LOW", "NORMAL"}
         /\ MinC \in Int /\ MaxC \in Int
<1>1. items[i] \in Reading
  BY DEF Sorted
<1>2. MinC \in Int /\ MaxC \in Int
  <2>1. MinC \in -100..100 /\ MaxC \in -100..100
    BY PolicyAssumption DEF ValidPolicy
  <2> QED
    BY <2>1
<1>3. items[i].at \in Nat /\ items[i].c \in Int
  <2>1. items[i].at \in Nat /\ items[i].c \in -100..100
    BY <1>1 DEF Reading
  <2>2. \A c \in -100..100 : c \in Int
    OBVIOUS
  <2> QED
    BY <2>1, <2>2, Zenon
<1>4. Delta(items[i]) \in Int
  BY <1>2, <1>3 DEF Delta
<1>5. Kind(items[i]) \in {"HIGH", "LOW", "NORMAL"}
  BY DEF Kind
<1> QED
  BY <1>1, <1>2, <1>3, <1>4, <1>5

LEMMA FlushTypes ==
  ASSUME NEW scan \in AnyScan
  PROVE  /\ Flush(scan) \in AnyScan /\ Flush(scan).current = None
         /\ scan.current = None => Flush(scan).done = scan.done
         /\ scan.current # None => Flush(scan).done = Append(scan.done, scan.current)
<1>1. /\ scan.done \in Seq(AnySegment) /\ scan.current \in AnySegment
      /\ scan = [done |-> scan.done, current |-> scan.current]
  BY DEF AnyScan
<1>2. None \in AnySegment
  BY DEF None, Segment, AnySegment, Kinds
<1>3. Append(scan.done, scan.current) \in Seq(AnySegment)
  BY <1>1
<1> QED
  BY <1>1, <1>2, <1>3 DEF Flush, AnyScan

LEMMA NoteGapTypes ==
  ASSUME NEW items, Sorted(items), NEW i \in 1..Len(items), NEW scan \in AnyScan
  PROVE  NoteGap(scan, items, i) \in AnyScan
<1>1. CASE ~AfterGap(items, i)
  BY <1>1 DEF NoteGap
<1>2. CASE AfterGap(items, i)
  <2>1. i - 1 \in 1..Len(items)
    BY <1>2 DEF AfterGap
  <2> DEFINE s == Segment("GAP", items[i-1].at, items[i].at,
                          items[i].at - items[i-1].at, 0)
  <2>2. s \in AnySegment
    BY <2>1, ReadingTypes DEF Segment, AnySegment, Kinds
  <2>3. Flush(scan).done \in Seq(AnySegment)
    BY FlushTypes DEF AnyScan
  <2>4. None \in AnySegment
    BY DEF None, Segment, AnySegment, Kinds
  <2>5. NoteGap(scan, items, i) = [done |-> Append(Flush(scan).done, s), current |-> None]
    BY <1>2 DEF NoteGap
  <2> HIDE DEF s
  <2> QED
    BY <2>2, <2>3, <2>4, <2>5 DEF AnyScan
<1> QED
  BY <1>1, <1>2

LEMMA ExtendedTypes ==
  ASSUME NEW items, Sorted(items), NEW i \in 1..Len(items), NEW s \in AnySegment
  PROVE  Extended(s, items[i]) \in AnySegment
<1>1. /\ items[i].at \in Nat /\ items[i].c \in Int /\ Delta(items[i]) \in Int
  BY ReadingTypes
<1>2. /\ s.kind \in Kinds /\ s.start \in Nat /\ s.end \in Nat /\ s.peak \in Int
      /\ s.exposure \in Int
  BY DEF AnySegment
<1>3. s.exposure + Delta(items[i]) * (items[i].at - s.end) \in Int
  BY <1>1, <1>2
<1> QED
  BY <1>1, <1>2, <1>3 DEF Extended, Segment, AnySegment

LEMMA StepTypes ==
  ASSUME NEW items, Sorted(items), NEW i \in 1..Len(items), NEW scan \in AnyScan
  PROVE  Step(items, scan, i) \in AnyScan
<1> DEFINE r == items[i]
           noted == NoteGap(scan, items, i)
<1>1. noted \in AnyScan
  BY NoteGapTypes
<1>2. noted.done \in Seq(AnySegment) /\ noted.current \in AnySegment
  BY <1>1 DEF AnyScan
<1>3. Flush(noted) \in AnyScan /\ Flush(noted).done \in Seq(AnySegment)
  <2>1. Flush(noted) \in AnyScan
    BY <1>1, FlushTypes
  <2> QED
    BY <2>1 DEF AnyScan
<1>4. Extended(noted.current, r) \in AnySegment
  BY <1>2, ExtendedTypes
<1>5. Kind(r) # "NORMAL" => Segment(Kind(r), r.at, r.at, r.c, 0) \in AnySegment
  BY ReadingTypes DEF Segment, AnySegment, Kinds
<1>6. Step(items, scan, i) =
        IF Kind(r) = "NORMAL" THEN Flush(noted)
        ELSE IF Kind(r) = noted.current.kind
          THEN [done |-> noted.done, current |-> Extended(noted.current, r)]
        ELSE [done |-> Flush(noted).done, current |-> Segment(Kind(r), r.at, r.at, r.c, 0)]
  BY DEF Step
<1> HIDE DEF noted, r
<1> QED
  BY <1>2, <1>3, <1>4, <1>5, <1>6 DEF AnyScan

LEMMA ScanSteps ==
  ASSUME NEW items, Sorted(items)
  PROVE  /\ Scan(items)[0] = [done |-> <<>>, current |-> None]
         /\ \A i \in 0..Len(items) : Scan(items)[i] \in AnyScan
         /\ \A i \in 1..Len(items) : Scan(items)[i] = Step(items, Scan(items)[i-1], i)
<1> DEFINE n == Len(items)
           base == [done |-> <<>>, current |-> None]
           F == [x \in (1..n) \X AnyScan |-> Step(items, x[2], x[1])]
           It(g) == g = [i \in 0..n |-> IF i = 0 THEN base ELSE Step(items, g[i-1], i)]
<1>1. n \in Nat
  BY DEF Sorted
<1>2. base \in AnyScan
  BY DEF AnyScan, AnySegment, None, Segment, Kinds
<1>3. F \in [(1..n) \X AnyScan -> AnyScan]
  BY StepTypes
<1>4. PICK g \in [0..n -> AnyScan] : Recurs(g, n, base, F)
  <2> HIDE DEF n, F, base
  <2> QED
    BY <1>1, <1>2, <1>3, ByRecursion
<1>5. g[0] = base /\ \A i \in 1..n : g[i] = Step(items, g[i-1], i)
  <2>1. \A i \in 1..n : g[i-1] \in AnyScan
    BY <1>1
  <2> HIDE DEF base
  <2> QED
    BY <1>4, <2>1 DEF Recurs
<1>6. It(g)
  <2> HIDE DEF base
  <2> QED
    BY <1>1, <1>4, <1>5
<1>7. It(CHOOSE h : It(h))
  BY <1>6, Zenon
<1>8. Scan(items) = CHOOSE h : It(h)
  BY DEF Scan
<1> DEFINE h == Scan(items)
<1>9. h = [i \in 0..n |-> IF i = 0 THEN base ELSE Step(items, h[i-1], i)]
  BY <1>7, <1>8
<1> HIDE DEF h, base
<1>10. h[0] = base /\ \A i \in 1..n : h[i] = Step(items, h[i-1], i)
  BY <1>1, <1>9
<1> DEFINE T == {i \in 0..n : h[i] \in AnyScan}
<1>11. 0 \in T
  BY <1>1, <1>2, <1>10
<1>12. ASSUME NEW i \in 0..(n-1), i \in T PROVE i + 1 \in T
  <2>1. i + 1 \in 1..n /\ (i + 1) - 1 = i
    BY <1>1
  <2>2. h[i+1] = Step(items, h[i], i + 1) /\ h[i] \in AnyScan
    BY <1>10, <1>12, <2>1
  <2>3. h[i+1] \in AnyScan
    BY <2>1, <2>2, StepTypes
  <2> QED
    BY <2>1, <2>3
<1>13. \A i \in 0..n : i \in T
  <2> HIDE DEF T
  <2> QED
    BY <1>1, <1>11, <1>12, CountUp
<1> QED
  BY <1>10, <1>13 DEF h, base

----------------------------------------------------------------------------
(* What the scan has found when it has seen some of the readings: the gaps *)
(* and the whole runs of readings out of range among them, in order.       *)

\* The reading goes on with the run of the one before.
Follows(items, i) ==
  i \in 2..Len(items) /\ ~AfterGap(items, i) /\ Kind(items[i]) = Kind(items[i-1])

\* The readings from a to b are a run, which did not begin before a.
Run(items, a, b) ==
  /\ a \in 1..Len(items) /\ b \in a..Len(items) /\ Kind(items[a]) # "NORMAL"
  /\ \A k \in a..b : Kind(items[k]) = Kind(items[a])
  /\ \A k \in (a+1)..b : Follows(items, k)
  /\ ~Follows(items, a)

\* p adds up degrees and minutes, in range or not; differences of p within a run
\* are exposures.
Accrues(items, p) ==
  /\ p \in [1..Len(items) -> Int]
  /\ \A k \in 2..Len(items) :
       p[k] = p[k-1] + Delta(items[k]) * (items[k].at - items[k-1].at)

Extreme(s, c) == IF s.kind = "HIGH" THEN c <= s.peak ELSE s.peak <= c

IsRun(items, p, s, a, b) ==
  /\ Run(items, a, b)
  /\ s.kind = Kind(items[a]) /\ s.start = items[a].at /\ s.end = items[b].at
  /\ s.exposure = p[b] - p[a]
  /\ \E k \in a..b : s.peak = items[k].c
  /\ \A k \in a..b : Extreme(s, items[k].c)

IsGap(items, s, k) ==
  /\ k \in 2..Len(items) /\ AfterGap(items, k)
  /\ s = Segment("GAP", items[k-1].at, items[k].at, items[k].at - items[k-1].at, 0)

\* No two readings of one time.
Distinct(items) == \A i, j \in 1..Len(items) : i < j => items[i].at < items[j].at

Ahead(items, s, t) ==
  /\ s.end <= t.start
  /\ Distinct(items) /\ s.kind # "GAP" /\ t.kind # "GAP" => s.end < t.start

\* The gaps up to reading g and the runs that end by reading b.
Listed(items, p, g, b, q) ==
  /\ q \in Seq(AnySegment)
  /\ \A l \in 1..Len(q) :
       \/ \E k \in 2..g : IsGap(items, q[l], k)
       \/ \E x \in 1..b, y \in 1..b : IsRun(items, p, q[l], x, y) /\ ~Follows(items, y + 1)
  /\ \A l, m \in 1..Len(q) : l < m => Ahead(items, q[l], q[m])
  /\ \A k \in 2..g : AfterGap(items, k) => \E l \in 1..Len(q) : IsGap(items, q[l], k)
  /\ \A x \in 1..b, y \in 1..b :
       Run(items, x, y) /\ ~Follows(items, y + 1)
       => \E l \in 1..Len(q) : IsRun(items, p, q[l], x, y)

\* What s adds to the list of gaps up to g and runs up to b makes it that of
\* gaps up to h and runs up to c.
Extends(items, p, g, b, q, s, h, c) ==
  /\ \A l \in 1..Len(q) : Ahead(items, q[l], s)
  /\ \/ \E k \in 2..h : IsGap(items, s, k)
     \/ \E x \in 1..c, y \in 1..c : IsRun(items, p, s, x, y) /\ ~Follows(items, y + 1)
  /\ \A k \in 2..h : AfterGap(items, k) => k <= g \/ IsGap(items, s, k)
  /\ \A x \in 1..c, y \in 1..c :
       Run(items, x, y) /\ ~Follows(items, y + 1) =>
         (x <= b /\ y <= b) \/ IsRun(items, p, s, x, y)

LEMMA AppendListed ==
  ASSUME NEW items, NEW p, NEW g \in Nat, NEW b \in Int, NEW q, Listed(items, p, g, b, q),
         NEW h \in Nat, NEW c \in Int, g <= h, b <= c, NEW s \in AnySegment,
         Extends(items, p, g, b, q, s, h, c)
  PROVE  Listed(items, p, h, c, Append(q, s))
<1> DEFINE r == Append(q, s)
           n == Len(q)
<1>1. q \in Seq(AnySegment) /\ n \in Nat
  BY DEF Listed
<1>2. /\ r \in Seq(AnySegment) /\ Len(r) = n + 1
      /\ r[n+1] = s /\ \A l \in 1..n : r[l] = q[l]
  BY <1>1
<1> HIDE DEF r, n
<1>3. \A l \in 1..(n+1) : l \in 1..n \/ l = n + 1
  BY <1>1
<1>3a. \/ \E k \in 2..h : IsGap(items, s, k)
       \/ \E x \in 1..c, y \in 1..c : IsRun(items, p, s, x, y) /\ ~Follows(items, y + 1)
  BY Zenon DEF Extends
<1>4. \A l \in 1..Len(r) :
        \/ \E k \in 2..h : IsGap(items, r[l], k)
        \/ \E x \in 1..c, y \in 1..c : IsRun(items, p, r[l], x, y) /\ ~Follows(items, y + 1)
  <2>1. ASSUME NEW l \in 1..n
        PROVE  \/ \E k \in 2..h : IsGap(items, q[l], k)
               \/ \E x \in 1..c, y \in 1..c : IsRun(items, p, q[l], x, y) /\ ~Follows(items, y + 1)
    <3>1. \/ \E k \in 2..g : IsGap(items, q[l], k)
          \/ \E x \in 1..b, y \in 1..b : IsRun(items, p, q[l], x, y) /\ ~Follows(items, y + 1)
      BY DEF Listed, n
    <3>2. 2..g \subseteq 2..h /\ 1..b \subseteq 1..c
      OBVIOUS
    <3> QED
      BY <3>1, <3>2, Zenon
  <2> QED
    BY <1>2, <1>3, <1>3a, <2>1
<1>5. \A l, m \in 1..Len(r) : l < m => Ahead(items, r[l], r[m])
  <2>1. ASSUME NEW l \in 1..(n+1), NEW m \in 1..(n+1), l < m PROVE Ahead(items, r[l], r[m])
    <3>1. l \in 1..n /\ r[l] = q[l]
      BY <1>1, <1>2, <2>1
    <3>2. CASE m = n + 1
      BY <1>2, <3>1, <3>2 DEF n, Extends
    <3>3. CASE m # n + 1
      <4>1. m \in 1..n /\ r[m] = q[m]
        BY <1>1, <1>2, <3>3
      <4> QED
        BY <2>1, <3>1, <4>1 DEF Listed, n
    <3> QED
      BY <3>2, <3>3
  <2> QED
    BY <1>2, <2>1
<1>6. ASSUME NEW k \in 2..h, AfterGap(items, k)
      PROVE  \E l \in 1..Len(r) : IsGap(items, r[l], k)
  <2>1. CASE k <= g
    <3>1. k \in 2..g
      BY <2>1
    <3>2. PICK l \in 1..n : IsGap(items, q[l], k)
      BY <1>6, <3>1 DEF Listed, n
    <3>3. l \in 1..Len(r) /\ r[l] = q[l]
      BY <1>1, <1>2
    <3> QED
      BY <3>2, <3>3
  <2>2. CASE ~(k <= g)
    <3>1. IsGap(items, s, k)
      BY <1>6, <2>2 DEF Extends
    <3>2. n + 1 \in 1..Len(r)
      BY <1>1, <1>2
    <3> QED
      BY <1>2, <3>1, <3>2
  <2> QED
    BY <2>1, <2>2
<1>7. ASSUME NEW x \in 1..c, NEW y \in 1..c, Run(items, x, y), ~Follows(items, y + 1)
      PROVE  \E l \in 1..Len(r) : IsRun(items, p, r[l], x, y)
  <2>1. CASE x <= b /\ y <= b
    <3>1. x \in 1..b /\ y \in 1..b
      BY <2>1
    <3>2. PICK l \in 1..n : IsRun(items, p, q[l], x, y)
      BY <1>7, <3>1 DEF Listed, n
    <3>3. l \in 1..Len(r) /\ r[l] = q[l]
      BY <1>1, <1>2
    <3> QED
      BY <3>2, <3>3
  <2>2. CASE ~(x <= b /\ y <= b)
    <3>1. IsRun(items, p, s, x, y)
      BY <1>7, <2>2 DEF Extends
    <3>2. n + 1 \in 1..Len(r)
      BY <1>1, <1>2
    <3> QED
      BY <1>2, <3>1, <3>2
  <2> QED
    BY <2>1, <2>2
<1>8. Listed(items, p, h, c, r)
  BY <1>2, <1>4, <1>5, <1>6, <1>7 DEF Listed
<1> QED
  BY <1>8 DEF r

\* Where a segment of the list lies.
LEMMA ListedSpans ==
  ASSUME NEW items, Sorted(items), NEW p, NEW g \in 1..Len(items), NEW b \in 0..g, NEW q,
         Listed(items, p, g, b, q), NEW l \in 1..Len(q)
  PROVE  /\ q[l].start \in Nat /\ q[l].end \in Nat
         /\ q[l].start <= q[l].end /\ q[l].end <= items[g].at
         /\ q[l].kind # "GAP" => \E y \in 1..b : q[l].end = items[y].at
<1>1. \A i \in 1..Len(items) : items[i].at \in Nat
  BY ReadingTypes
<1>2. ASSUME NEW i \in 1..Len(items), NEW j \in 1..Len(items), i <= j
      PROVE  items[i].at <= items[j].at
  <2>1. CASE i < j
    BY <2>1 DEF Sorted
  <2>2. CASE i = j
    BY <1>1, <2>2
  <2> QED
    BY <1>2, <2>1, <2>2
<1>3. CASE \E k \in 2..g : IsGap(items, q[l], k)
  <2>1. PICK k \in 2..g : IsGap(items, q[l], k)
    BY <1>3
  <2>2. k - 1 \in 1..Len(items) /\ k \in 1..Len(items) /\ k - 1 <= k /\ k <= g
    OBVIOUS
  <2>3. q[l].start = items[k-1].at /\ q[l].end = items[k].at /\ q[l].kind = "GAP"
    BY <2>1 DEF IsGap, Segment
  <2> QED
    BY <1>1, <1>2, <2>2, <2>3
<1>4. CASE \E x \in 1..b, y \in 1..b : IsRun(items, p, q[l], x, y)
  <2>1. PICK x \in 1..b, y \in 1..b : IsRun(items, p, q[l], x, y)
    BY <1>4
  <2>2. x \in 1..Len(items) /\ y \in 1..Len(items) /\ x <= y /\ y <= g
    BY <2>1 DEF IsRun, Run
  <2>3. q[l].start = items[x].at /\ q[l].end = items[y].at
    BY <2>1 DEF IsRun
  <2> QED
    BY <1>1, <1>2, <2>2, <2>3
<1> QED
  BY <1>3, <1>4 DEF Listed

----------------------------------------------------------------------------
(* A step of the scan.                                                     *)

Active(items, i) == i \in 1..Len(items) /\ Kind(items[i]) # "NORMAL"

Fresh(r) == Segment(Kind(r), r.at, r.at, r.c, 0)
GapBefore(items, i) ==
  Segment("GAP", items[i-1].at, items[i].at, items[i].at - items[i-1].at, 0)

\* The finished segments once the reading after i is seen, before a gap is noted.
Closed(items, i, scan) ==
  IF Active(items, i) /\ ~Follows(items, i + 1) THEN Append(scan.done, scan.current)
  ELSE scan.done

LEMMA GapIsAfter ==
  ASSUME NEW items, NEW i \in 1..Len(items), AfterGap(items, i)
  PROVE  i \in 2..Len(items)
BY DEF AfterGap

LEMMA StepShape ==
  ASSUME NEW items, Sorted(items), NEW i \in 0..(Len(items)-1), NEW scan \in AnyScan,
         IF Active(items, i) THEN scan.current.kind = Kind(items[i])
         ELSE scan.current = None
  PROVE  /\ Step(items, scan, i + 1).done =
              IF AfterGap(items, i + 1)
                THEN Append(Closed(items, i, scan), GapBefore(items, i + 1))
              ELSE Closed(items, i, scan)
         /\ Step(items, scan, i + 1).current =
              IF Kind(items[i+1]) = "NORMAL" THEN None
              ELSE IF Follows(items, i + 1) THEN Extended(scan.current, items[i+1])
              ELSE Fresh(items[i+1])
<1> DEFINE j == i + 1
           r == items[j]
           noted == NoteGap(scan, items, j)
           closed == Closed(items, i, scan)
<1>1. Len(items) \in Nat /\ j \in 1..Len(items) /\ j - 1 = i
  BY DEF Sorted
<1>2. None.kind = "none" /\ Kind(r) # "none"
  BY DEF None, Segment, Kind
<1>3. Active(items, i) <=> scan.current # None
  <2>1. Kind(items[i]) # "none"
    BY DEF Kind
  <2> QED
    BY <1>2, <2>1
<1>4. Step(items, scan, j) =
        IF Kind(r) = "NORMAL" THEN Flush(noted)
        ELSE IF Kind(r) = noted.current.kind
          THEN [done |-> noted.done, current |-> Extended(noted.current, r)]
        ELSE [done |-> Flush(noted).done, current |-> Fresh(r)]
  BY DEF Step, Fresh
<1>5. noted \in AnyScan
  BY <1>1, NoteGapTypes
<1>6. Follows(items, j) <=> j \in 2..Len(items) /\ ~AfterGap(items, j) /\ Kind(r) = Kind(items[i])
  BY <1>1 DEF Follows
<1>7. /\ Flush(scan).current = None
      /\ scan.current = None => Flush(scan).done = scan.done
      /\ scan.current # None => Flush(scan).done = Append(scan.done, scan.current)
      /\ Flush(noted).current = None
      /\ noted.current = None => Flush(noted).done = noted.done
  BY <1>5, FlushTypes
<1> HIDE DEF r
<1>8. CASE AfterGap(items, j)
  <2>1. ~Follows(items, j)
    BY <1>6, <1>8
  <2>2. closed = Flush(scan).done
    BY <1>3, <1>7, <2>1 DEF Closed
  <2>3. noted = [done |-> Append(closed, GapBefore(items, j)), current |-> None]
    BY <1>8, <2>2 DEF NoteGap, GapBefore
  <2> HIDE DEF noted, closed
  <2>4. noted.done = Append(closed, GapBefore(items, j)) /\ noted.current = None
    BY <2>3
  <2>5. /\ Step(items, scan, j).done = noted.done
        /\ Step(items, scan, j).current = IF Kind(r) = "NORMAL" THEN None ELSE Fresh(r)
    <3>1. CASE Kind(r) = "NORMAL"
      BY <1>4, <1>7, <2>4, <3>1
    <3>2. CASE Kind(r) # "NORMAL"
      <4>1. Step(items, scan, j) = [done |-> Flush(noted).done, current |-> Fresh(r)]
        BY <1>2, <1>4, <2>4, <3>2
      <4> QED
        BY <1>7, <2>4, <3>2, <4>1
    <3> QED
      BY <3>1, <3>2
  <2> QED
    BY <1>8, <2>1, <2>4, <2>5 DEF closed, r
<1>9. CASE ~AfterGap(items, j)
  <2>1. noted = scan
    BY <1>9 DEF NoteGap
  <2> HIDE DEF noted
  <2>2. CASE Kind(r) = "NORMAL"
    <3>1. Step(items, scan, j) = Flush(scan)
      BY <1>4, <2>1, <2>2
    <3>2. Active(items, i) => ~Follows(items, j)
      BY <1>6, <2>2 DEF Active
    <3>3. Flush(scan).done = closed
      BY <1>3, <1>7, <3>2 DEF Closed
    <3> QED
      BY <1>7, <1>9, <2>2, <3>1, <3>3 DEF r
  <2>3. CASE Kind(r) # "NORMAL" /\ Kind(r) = scan.current.kind
    <3>1. Active(items, i) /\ Kind(r) = Kind(items[i])
      BY <1>2, <1>3, <2>3
    <3>2. Follows(items, j)
      <4>1. j \in 2..Len(items)
        BY <1>1, <3>1 DEF Active
      <4> QED
        BY <1>6, <1>9, <3>1, <4>1
    <3>3. Step(items, scan, j) = [done |-> scan.done, current |-> Extended(scan.current, r)]
      BY <1>4, <2>1, <2>3
    <3>4. closed = scan.done
      BY <3>2 DEF Closed
    <3> QED
      BY <1>9, <2>3, <3>2, <3>3, <3>4 DEF r
  <2>4. CASE Kind(r) # "NORMAL" /\ Kind(r) # scan.current.kind
    <3>1. ~Follows(items, j)
      <4>1. SUFFICES ASSUME Follows(items, j) PROVE FALSE
        OBVIOUS
      <4>2. i \in 1..Len(items) /\ Kind(items[i]) = Kind(r)
        BY <1>1, <1>6, <4>1
      <4>3. Active(items, i)
        BY <2>4, <4>2 DEF Active
      <4> QED
        BY <2>4, <4>2, <4>3
    <3>2. Step(items, scan, j) = [done |-> Flush(scan).done, current |-> Fresh(r)]
      BY <1>4, <2>1, <2>4
    <3>3. Flush(scan).done = closed
      BY <1>3, <1>7, <3>1 DEF Closed
    <3> QED
      BY <1>9, <2>4, <3>1, <3>2, <3>3 DEF r
  <2> QED
    BY <2>2, <2>3, <2>4
<1> QED
  BY <1>8, <1>9

\* What holds of the scan when it has seen i readings.
ScanInv(items, p, i, scan) ==
  /\ scan \in AnyScan
  /\ Listed(items, p, i, i - 1, scan.done)
  /\ IF Active(items, i)
       THEN /\ \E a \in 1..i : IsRun(items, p, scan.current, a, i)
            /\ \A l \in 1..Len(scan.done) : Ahead(items, scan.done[l], scan.current)
     ELSE scan.current = None

\* Two runs that end with the same reading begin with the same one.
LEMMA RunsMeet ==
  ASSUME NEW items, Sorted(items), NEW a, NEW b, NEW x, Run(items, a, b), Run(items, x, b)
  PROVE  a = x
<1>1. a \in Nat /\ x \in Nat /\ b \in Nat /\ a <= b /\ x <= b
  BY DEF Run, Sorted
<1>2. ~(a < x)
  <2>1. a < x => x \in (a+1)..b
    BY <1>1
  <2> QED
    BY <2>1 DEF Run
<1>3. ~(x < a)
  <2>1. x < a => a \in (x+1)..b
    BY <1>1
  <2> QED
    BY <2>1 DEF Run
<1> QED
  BY <1>1, <1>2, <1>3

LEMMA CurrentFits ==
  ASSUME NEW items, NEW p, NEW i \in Nat, NEW scan, ScanInv(items, p, i, scan)
  PROVE  IF Active(items, i) THEN scan.current.kind = Kind(items[i])
         ELSE scan.current = None
<1>1. ASSUME NEW a \in 1..i, IsRun(items, p, scan.current, a, i)
      PROVE  scan.current.kind = Kind(items[i])
  <2>1. i \in a..i
    OBVIOUS
  <2> QED
    BY <1>1, <2>1 DEF IsRun, Run
<1> QED
  BY <1>1 DEF ScanInv

\* The next reading, or the end of the readings, closes the current run or does
\* not; the list is then that of all runs so far.
LEMMA ClosedLists ==
  ASSUME NEW items, Sorted(items), NEW p, NEW i \in 0..Len(items), NEW scan,
         ScanInv(items, p, i, scan)
  PROVE  Listed(items, p, i, i, Closed(items, i, scan))
<1>1. /\ scan.done \in Seq(AnySegment) /\ scan.current \in AnySegment
      /\ Listed(items, p, i, i - 1, scan.done)
  BY DEF ScanInv, AnyScan
<1>2. i \in Nat /\ i - 1 \in Int /\ i <= i /\ i - 1 <= i
  BY DEF Sorted
<1>3. ASSUME NEW x \in 1..i, NEW y \in 1..i, Run(items, x, y), ~Follows(items, y + 1),
             ~(x <= i - 1 /\ y <= i - 1)
      PROVE  y = i /\ Active(items, i) /\ ~Follows(items, i + 1)
  <2>1. y \in x..Len(items) /\ Kind(items[y]) = Kind(items[x]) /\ Kind(items[x]) # "NORMAL"
    <3>1. y \in x..y
      BY <1>3 DEF Run
    <3> QED
      BY <1>3, <3>1 DEF Run
  <2>2. y = i
    BY <1>2, <1>3, <2>1
  <2> QED
    BY <1>2, <1>3, <2>1, <2>2 DEF Active
<1>4. CASE Active(items, i) /\ ~Follows(items, i + 1)
  <2>1. PICK a \in 1..i : IsRun(items, p, scan.current, a, i)
    BY <1>4 DEF ScanInv
  <2>2. \A l \in 1..Len(scan.done) : Ahead(items, scan.done[l], scan.current)
    BY <1>4 DEF ScanInv
  <2>3. \E x \in 1..i, y \in 1..i : IsRun(items, p, scan.current, x, y) /\ ~Follows(items, y + 1)
    <3>1. i \in 1..i
      BY <1>4 DEF Active
    <3> QED
      BY <1>4, <2>1, <3>1
  <2>4. ASSUME NEW x \in 1..i, NEW y \in 1..i, Run(items, x, y), ~Follows(items, y + 1)
        PROVE  (x <= i - 1 /\ y <= i - 1) \/ IsRun(items, p, scan.current, x, y)
    <3>1. ASSUME ~(x <= i - 1 /\ y <= i - 1) PROVE IsRun(items, p, scan.current, x, y)
      <4>1. y = i
        BY <1>3, <2>4, <3>1
      <4>2. x = a
        BY <2>1, <2>4, <4>1, RunsMeet DEF IsRun
      <4> QED
        BY <2>1, <4>1, <4>2
    <3> QED
      BY <3>1
  <2>5. \A k \in 2..i : AfterGap(items, k) => k <= i \/ IsGap(items, scan.current, k)
    BY <1>2
  <2>6. Extends(items, p, i, i - 1, scan.done, scan.current, i, i)
    BY <2>2, <2>3, <2>4, <2>5 DEF Extends
  <2>7. Listed(items, p, i, i, Append(scan.done, scan.current))
    BY <1>1, <1>2, <2>6, AppendListed
  <2> QED
    BY <1>4, <2>7 DEF Closed
<1>5. CASE ~(Active(items, i) /\ ~Follows(items, i + 1))
  <2>1. \A x \in 1..i, y \in 1..i :
          Run(items, x, y) /\ ~Follows(items, y + 1) => x \in 1..(i-1) /\ y \in 1..(i-1)
    <3>1. ASSUME NEW x \in 1..i, NEW y \in 1..i, Run(items, x, y), ~Follows(items, y + 1)
          PROVE  x <= i - 1 /\ y <= i - 1
      BY <1>3, <1>5, <3>1
    <3> QED
      BY <1>2, <3>1
  <2>2. 1..(i-1) \subseteq 1..i
    BY <1>2
  <2>3. Listed(items, p, i, i, scan.done)
    BY <1>1, <2>1, <2>2, Zenon DEF Listed
  <2> QED
    BY <1>5, <2>3 DEF Closed
<1> QED
  BY <1>4, <1>5

LEMMA SomethingAccrues ==
  ASSUME NEW items, Sorted(items)
  PROVE  \E p : Accrues(items, p)
<1> DEFINE n == Len(items)
           More(k) == IF k = 1 THEN 0 ELSE Delta(items[k]) * (items[k].at - items[k-1].at)
           F == [x \in (1..n) \X Int |-> x[2] + More(x[1])]
<1>1. n \in Nat /\ 0 \in Int
  BY DEF Sorted
<1>2. ASSUME NEW k \in 1..n PROVE More(k) \in Int
  <2>1. Delta(items[k]) \in Int /\ items[k].at \in Int
    BY ReadingTypes
  <2>2. k # 1 => items[k-1].at \in Int
    <3>1. k # 1 => k - 1 \in 1..n
      BY <1>1
    <3> QED
      BY <3>1, ReadingTypes
  <2> QED
    BY <2>1, <2>2
<1>3. F \in [(1..n) \X Int -> Int]
  <2> HIDE DEF More, n
  <2> QED
    BY <1>2
<1>4. PICK g \in [0..n -> Int] : Recurs(g, n, 0, F)
  <2> HIDE DEF F, n
  <2> QED
    BY <1>1, <1>3, ByRecursion
<1>5. \A k \in 1..n : g[k] = g[k-1] + More(k)
  <2>1. \A k \in 1..n : g[k-1] \in Int
    BY <1>1
  <2> HIDE DEF More, n
  <2> QED
    BY <1>4, <2>1 DEF Recurs
<1> DEFINE p == [k \in 1..n |-> g[k]]
<1>6. p \in [1..Len(items) -> Int]
  BY <1>1
<1>7. ASSUME NEW k \in 2..Len(items)
      PROVE  p[k] = p[k-1] + Delta(items[k]) * (items[k].at - items[k-1].at)
  <2>1. k \in 1..n /\ k - 1 \in 1..n /\ k # 1
    BY <1>1
  <2>2. p[k] = g[k] /\ p[k-1] = g[k-1]
    BY <2>1
  <2>3. More(k) = Delta(items[k]) * (items[k].at - items[k-1].at)
    BY <2>1
  <2> HIDE DEF More, p
  <2> QED
    BY <1>5, <2>1, <2>2, <2>3
<1>8. Accrues(items, p)
  <2> HIDE DEF p
  <2> QED
    BY <1>6, <1>7 DEF Accrues
<1> QED
  BY <1>8

\* The gaps up to the next reading are noted.
LEMMA GapListed ==
  ASSUME NEW items, Sorted(items), NEW p, NEW i \in 0..(Len(items)-1), NEW q,
         Listed(items, p, i, i, q)
  PROVE  Listed(items, p, i + 1, i,
                IF AfterGap(items, i + 1) THEN Append(q, GapBefore(items, i + 1)) ELSE q)
<1> DEFINE j == i + 1
           s == GapBefore(items, j)
<1>1. Len(items) \in Nat /\ i \in Nat /\ j \in Nat /\ i <= j /\ j \in 1..Len(items) /\ j - 1 = i
  BY DEF Sorted
<1>2. CASE AfterGap(items, j)
  <2>1. j \in 2..Len(items)
    BY <1>1, <1>2, GapIsAfter
  <2>2. i \in 1..Len(items) /\ i \in 0..i
    BY <1>1, <2>1
  <2>3. items[i].at \in Nat /\ items[j].at \in Nat /\ items[i].at <= items[j].at
    BY <1>1, <2>2, ReadingTypes DEF Sorted
  <2>4. /\ s \in AnySegment /\ s.start = items[i].at /\ s.kind = "GAP"
        /\ IsGap(items, s, j)
    BY <1>1, <1>2, <2>1, <2>3 DEF GapBefore, Segment, AnySegment, Kinds, IsGap
  <2>5. \A l \in 1..Len(q) : q[l].end <= items[i].at
    BY <2>2, ListedSpans
  <2> HIDE DEF s
  <2>6. \A l \in 1..Len(q) : Ahead(items, q[l], s)
    BY <2>4, <2>5 DEF Ahead
  <2>7. j \in 2..j /\ \A k \in 2..j : k <= i \/ k = j
    BY <1>1, <2>1
  <2>8. \A x \in 1..i, y \in 1..i : x <= i /\ y <= i
    BY <1>1
  <2> HIDE DEF j
  <2>9. Extends(items, p, i, i, q, s, j, i)
    BY <2>4, <2>6, <2>7, <2>8 DEF Extends
  <2>10. Listed(items, p, j, i, Append(q, s))
    BY <1>1, <2>4, <2>9, AppendListed
  <2> QED
    BY <1>2, <2>10 DEF s, j
<1>3. CASE ~AfterGap(items, j)
  <2>1. \A k \in 2..j : AfterGap(items, k) => k \in 2..i
    BY <1>1, <1>3
  <2>2. 2..i \subseteq 2..j
    BY <1>1
  <2>3. Listed(items, p, j, i, q)
    BY <2>1, <2>2, Zenon DEF Listed
  <2> QED
    BY <1>3, <2>3
<1> QED
  BY <1>2, <1>3

\* The current run with one more reading.
LEMMA RunGoesOn ==
  ASSUME NEW items, Sorted(items), NEW p, Accrues(items, p), NEW i \in 1..(Len(items)-1),
         NEW s \in AnySegment, NEW a \in 1..i, IsRun(items, p, s, a, i), Follows(items, i + 1)
  PROVE  LET t == Extended(s, items[i+1])
         IN IsRun(items, p, t, a, i + 1) /\ t.kind = s.kind /\ t.start = s.start
<1> DEFINE j == i + 1
           r == items[j]
           t == Extended(s, r)
<1>1. Len(items) \in Nat /\ j \in 2..Len(items) /\ j - 1 = i /\ j \in 1..Len(items)
  BY DEF Sorted
<1>2. /\ r.at \in Nat /\ r.c \in Int /\ Delta(r) \in Int
      /\ items[i].at \in Nat
  BY <1>1, ReadingTypes
<1>3. /\ s.kind \in Kinds /\ s.start \in Nat /\ s.end \in Nat /\ s.peak \in Int
      /\ s.exposure \in Int
  BY DEF AnySegment
<1>4. /\ t.kind = s.kind /\ t.start = s.start /\ t.end = r.at
      /\ t.exposure = s.exposure + Delta(r) * (r.at - s.end)
      /\ t.peak = IF (s.kind = "HIGH") = (r.c > s.peak) THEN r.c ELSE s.peak
  BY DEF Extended, Segment
<1>5. Kind(r) = Kind(items[i]) /\ Kind(items[i]) = Kind(items[a])
  <2>1. i \in a..i
    OBVIOUS
  <2> QED
    BY <1>1, <2>1 DEF Follows, IsRun, Run
<1>6. Run(items, a, j)
  <2>1. /\ a \in 1..Len(items) /\ Kind(items[a]) # "NORMAL" /\ ~Follows(items, a)
        /\ \A k \in a..i : Kind(items[k]) = Kind(items[a])
        /\ \A k \in (a+1)..i : Follows(items, k)
    BY DEF IsRun, Run
  <2>2. /\ j \in a..Len(items)
        /\ \A k \in a..j : k \in a..i \/ k = j
        /\ \A k \in (a+1)..j : k \in (a+1)..i \/ k = j
    BY <1>1
  <2> HIDE DEF r, j
  <2> QED
    BY <1>5, <2>1, <2>2 DEF Run, r, j
<1>7. t.exposure = p[j] - p[a]
  <2>1. p[j] = p[i] + Delta(r) * (r.at - items[i].at)
    BY <1>1 DEF Accrues
  <2>2. s.end = items[i].at /\ s.exposure = p[i] - p[a]
    BY DEF IsRun
  <2>3. p[i] \in Int /\ p[a] \in Int
    BY <1>1 DEF Accrues
  <2>4. Delta(r) * (r.at - items[i].at) \in Int
    BY <1>2
  <2> DEFINE d == Delta(r) * (r.at - items[i].at)
  <2>5. t.exposure = s.exposure + d
    BY <1>4, <2>2
  <2> HIDE DEF d, t
  <2> QED
    BY <2>1, <2>2, <2>3, <2>4, <2>5 DEF d
<1>8. \E k \in a..j : t.peak = items[k].c
  <2>1. PICK k \in a..i : s.peak = items[k].c
    BY DEF IsRun
  <2>2. k \in a..j /\ j \in a..j
    BY <1>1
  <2> QED
    BY <1>4, <2>1, <2>2
<1>9. \A k \in a..j : Extreme(t, items[k].c)
  <2>1. ASSUME NEW c \in Int, Extreme(s, c) PROVE Extreme(t, c)
    <3>1. CASE s.kind = "HIGH"
      BY <1>2, <1>3, <1>4, <2>1, <3>1 DEF Extreme
    <3>2. CASE s.kind # "HIGH"
      BY <1>2, <1>3, <1>4, <2>1, <3>2 DEF Extreme
    <3> QED
      BY <3>1, <3>2
  <2>2. Extreme(t, r.c)
    <3>1. CASE s.kind = "HIGH"
      BY <1>2, <1>3, <1>4, <3>1 DEF Extreme
    <3>2. CASE s.kind # "HIGH"
      BY <1>2, <1>3, <1>4, <3>2 DEF Extreme
    <3> QED
      BY <3>1, <3>2
  <2>3. ASSUME NEW k \in a..j PROVE Extreme(t, items[k].c)
    <3>1. CASE k = j
      BY <2>2, <3>1
    <3>2. CASE k # j
      <4>1. k \in a..i /\ k \in 1..Len(items)
        BY <1>1, <3>2
      <4>2. items[k].c \in Int
        BY <4>1, ReadingTypes
      <4>3. Extreme(s, items[k].c)
        BY <4>1 DEF IsRun
      <4> QED
        BY <2>1, <4>2, <4>3
    <3> QED
      BY <3>1, <3>2
  <2> QED
    BY <2>3
<1>10. s.kind = Kind(items[a]) /\ s.start = items[a].at
  BY DEF IsRun
<1>11. IsRun(items, p, t, a, j)
  <2> HIDE DEF t
  <2> QED
    BY <1>4, <1>6, <1>7, <1>8, <1>9, <1>10 DEF IsRun
<1> QED
  BY <1>4, <1>11

\* A run begins.
LEMMA RunBegins ==
  ASSUME NEW items, Sorted(items), NEW p, Accrues(items, p), NEW j \in 1..Len(items),
         Kind(items[j]) # "NORMAL", ~Follows(items, j)
  PROVE  IsRun(items, p, Fresh(items[j]), j, j)
<1> DEFINE r == items[j]
           s == Fresh(r)
<1>1. r.at \in Nat /\ r.c \in Int
  BY ReadingTypes
<1>2. /\ s.kind = Kind(r) /\ s.start = r.at /\ s.end = r.at /\ s.peak = r.c /\ s.exposure = 0
  BY DEF Fresh, Segment
<1>3. Len(items) \in Nat /\ j..j = {j} /\ (j+1)..j = {} /\ j \in j..Len(items)
  BY DEF Sorted
<1>4. Run(items, j, j)
  BY <1>3 DEF Run
<1>5. p[j] \in Int /\ p[j] - p[j] = 0
  <2>1. p[j] \in Int
    BY DEF Accrues
  <2> QED
    BY <2>1
<1>6. Extreme(s, r.c)
  BY <1>1, <1>2 DEF Extreme
<1> HIDE DEF s
<1>7. IsRun(items, p, s, j, j)
  BY <1>2, <1>3, <1>4, <1>5, <1>6 DEF IsRun
<1> QED
  BY <1>7 DEF s

LEMMA StepKeeps ==
  ASSUME NEW items, Sorted(items), NEW p, Accrues(items, p), NEW i \in 0..(Len(items)-1),
         NEW scan, ScanInv(items, p, i, scan)
  PROVE  ScanInv(items, p, i + 1, Step(items, scan, i + 1))
<1> DEFINE j == i + 1
           r == items[j]
           next == Step(items, scan, j)
           closed == Closed(items, i, scan)
<1>1. Len(items) \in Nat /\ i \in Nat /\ j \in 1..Len(items) /\ j - 1 = i /\ i \in 0..j
  BY DEF Sorted
<1>2. scan \in AnyScan /\ scan.current \in AnySegment /\ scan.done \in Seq(AnySegment)
  BY DEF ScanInv, AnyScan
<1>3. IF Active(items, i) THEN scan.current.kind = Kind(items[i]) ELSE scan.current = None
  BY <1>1, CurrentFits
<1>4. /\ next.done = IF AfterGap(items, j) THEN Append(closed, GapBefore(items, j)) ELSE closed
      /\ next.current = IF Kind(r) = "NORMAL" THEN None
                        ELSE IF Follows(items, j) THEN Extended(scan.current, r)
                        ELSE Fresh(r)
  BY <1>2, <1>3, StepShape
<1>5. next \in AnyScan
  BY <1>1, <1>2, StepTypes
<1>6. Listed(items, p, j, i, next.done)
  <2>1. i \in 0..Len(items)
    BY <1>1
  <2>2. Listed(items, p, i, i, closed)
    BY <2>1, ClosedLists
  <2> HIDE DEF closed, next
  <2> QED
    BY <1>4, <2>2, GapListed
<1> HIDE DEF next
<1>7. CASE Kind(r) = "NORMAL"
  <2>1. ~Active(items, j) /\ next.current = None
    BY <1>4, <1>7 DEF Active
  <2> QED
    BY <1>1, <1>5, <1>6, <2>1 DEF ScanInv, next
<1>8. CASE Kind(r) # "NORMAL" /\ Follows(items, j)
  <2>1. ~AfterGap(items, j) /\ Kind(r) = Kind(items[i]) /\ i \in 1..(Len(items)-1)
        /\ i \in 1..Len(items)
    BY <1>1, <1>8 DEF Follows
  <2>2. Active(items, i)
    BY <1>8, <2>1 DEF Active
  <2>3. PICK a \in 1..i : IsRun(items, p, scan.current, a, i)
    BY <2>2 DEF ScanInv
  <2>4. /\ IsRun(items, p, next.current, a, j)
        /\ next.current.kind = scan.current.kind /\ next.current.start = scan.current.start
    BY <1>2, <1>4, <1>8, <2>1, <2>3, RunGoesOn
  <2>5. next.done = scan.done
    BY <1>4, <1>8, <2>1 DEF Closed
  <2>6. \A l \in 1..Len(next.done) : Ahead(items, next.done[l], next.current)
    <3>1. \A l \in 1..Len(scan.done) : Ahead(items, scan.done[l], scan.current)
      BY <2>2 DEF ScanInv
    <3> QED
      BY <2>4, <2>5, <3>1 DEF Ahead
  <2>7. a \in 1..j /\ Active(items, j)
    BY <1>1, <1>8 DEF Active
  <2> QED
    BY <1>1, <1>5, <1>6, <2>4, <2>6, <2>7 DEF ScanInv, next
<1>9. CASE Kind(r) # "NORMAL" /\ ~Follows(items, j)
  <2>1. next.current = Fresh(r)
    BY <1>4, <1>9
  <2>2. IsRun(items, p, next.current, j, j)
    BY <1>1, <1>9, <2>1, RunBegins
  <2>3. next.current.start = r.at
    BY <2>1 DEF Fresh, Segment
  <2>4. ASSUME NEW l \in 1..Len(next.done) PROVE Ahead(items, next.done[l], next.current)
    <3>1. /\ next.done[l].end <= r.at
          /\ next.done[l].kind # "GAP" => \E y \in 1..i : next.done[l].end = items[y].at
      BY <1>1, <1>6, ListedSpans
    <3>2. Distinct(items) => \A y \in 1..i : items[y].at < r.at
      BY <1>1 DEF Distinct
    <3> HIDE DEF r
    <3> QED
      BY <2>3, <3>1, <3>2 DEF Ahead
  <2>5. j \in 1..j /\ Active(items, j)
    BY <1>1, <1>9 DEF Active
  <2> QED
    BY <1>1, <1>5, <1>6, <2>2, <2>4, <2>5 DEF ScanInv, next
<1> QED
  BY <1>7, <1>8, <1>9

\* The segments of the readings of a lot are its gaps and its runs, in order.
LEMMA SegmentsListed ==
  ASSUME NEW R, Stored(R), NEW p, Accrues(InOrder(R), p)
  PROVE  LET items == InOrder(R)
         IN Listed(items, p, Len(items), Len(items), Segments(R))
<1> DEFINE items == InOrder(R)
           n == Len(items)
           scan == Scan(items)
<1>1. Sorted(items) /\ n \in Nat
  <2>1. Sorted(items)
    BY InOrderSorts
  <2> QED
    BY <2>1 DEF Sorted
<1>2. /\ scan[0] = [done |-> <<>>, current |-> None]
      /\ \A i \in 0..n : scan[i] \in AnyScan
      /\ \A i \in 1..n : scan[i] = Step(items, scan[i-1], i)
  BY <1>1, ScanSteps
<1>3. Segments(R) = Flush(scan[n]).done
  BY DEF Segments
<1> HIDE DEF items, n, scan
<1> DEFINE T == {i \in 0..n : ScanInv(items, p, i, scan[i])}
<1>4. 0 \in T
  <2>1. scan[0].done = <<>> /\ scan[0].current = None /\ scan[0] \in AnyScan
    BY <1>1, <1>2
  <2>2. 1..(0-1) = {} /\ 2..0 = {} /\ Len(<<>>) = 0 /\ 1..0 = {} /\ <<>> \in Seq(AnySegment)
    OBVIOUS
  <2>3. Listed(items, p, 0, 0 - 1, <<>>)
    BY <2>2 DEF Listed
  <2>4. ~Active(items, 0)
    BY DEF Active
  <2> QED
    BY <1>1, <2>1, <2>3, <2>4 DEF ScanInv
<1>5. ASSUME NEW i \in 0..(n-1), i \in T PROVE i + 1 \in T
  <2>1. i + 1 \in 1..n /\ (i + 1) - 1 = i /\ i + 1 \in 0..n
    BY <1>1
  <2>2. scan[i+1] = Step(items, scan[i], i + 1)
    BY <1>2, <2>1
  <2>3. ScanInv(items, p, i, scan[i]) /\ Accrues(items, p)
    BY <1>5 DEF items
  <2>4. ScanInv(items, p, i + 1, Step(items, scan[i], i + 1))
    BY <1>1, <2>3, StepKeeps DEF n
  <2> QED
    BY <2>1, <2>2, <2>4
<1>6. n \in T
  <2> HIDE DEF T
  <2>1. \A i \in 0..n : i \in T
    BY <1>1, <1>4, <1>5, CountUp
  <2> QED
    BY <1>1, <2>1
<1>7. Listed(items, p, n, n, Closed(items, n, scan[n]))
  <2>1. n \in 0..Len(items)
    BY <1>1 DEF n
  <2> QED
    BY <1>1, <1>6, <2>1, ClosedLists
<1>8. Flush(scan[n]).done = Closed(items, n, scan[n])
  <2>1. IF Active(items, n) THEN scan[n].current.kind = Kind(items[n]) ELSE scan[n].current = None
    BY <1>1, <1>6, CurrentFits
  <2>2. Kind(items[n]) # "none" /\ None.kind = "none"
    BY DEF Kind, None, Segment
  <2>3. Active(items, n) <=> scan[n].current # None
    BY <2>1, <2>2
  <2>4. ~Follows(items, n + 1)
    BY <1>1 DEF Follows, n
  <2>5. n \in 0..n
    BY <1>1
  <2>6. /\ scan[n].current = None => Flush(scan[n]).done = scan[n].done
        /\ scan[n].current # None => Flush(scan[n]).done = Append(scan[n].done, scan[n].current)
    BY <1>2, <2>5, FlushTypes
  <2> QED
    BY <2>3, <2>4, <2>6 DEF Closed
<1> QED
  BY <1>3, <1>7, <1>8 DEF items, n

----------------------------------------------------------------------------
(* What the segments are collected into.                                   *)

AnyTally ==
  [result : Seq(AnySegment), total : Int, exposure : Int, start : Int, end : Int]
NoTally == [result |-> <<>>, total |-> 0, exposure |-> 0, start |-> NoTime, end |-> NoTime]

LEMMA CollectIs ==
  ASSUME NEW t \in AnyTally, NEW s \in AnySegment
  PROVE  LET u == Collect(t, s)
         IN /\ u \in AnyTally
            /\ s.kind = "GAP" =>
                 /\ u.result = Append(t.result, s) /\ u.total = t.total
                 /\ u.exposure = t.exposure /\ u.start = t.start /\ u.end = t.end
            /\ s.kind # "GAP" =>
                 /\ u.result = IF LongEnough(s) THEN Append(t.result, s) ELSE t.result
                 /\ u.total = t.total + Duration(s)
                 /\ u.exposure = t.exposure + s.exposure
                 /\ u.start = IF Duration(s) > 0 /\ t.start = NoTime THEN s.start ELSE t.start
                 /\ u.end = IF Duration(s) > 0 THEN s.end ELSE t.end
<1> DEFINE u == Collect(t, s)
<1>1. /\ t.result \in Seq(AnySegment) /\ t.total \in Int /\ t.exposure \in Int
      /\ t.start \in Int /\ t.end \in Int
  BY DEF AnyTally
<1>2. s.start \in Nat /\ s.end \in Nat /\ s.exposure \in Int /\ Duration(s) \in Int
  BY DEF AnySegment, Duration
<1>3. Append(t.result, s) \in Seq(AnySegment)
  BY <1>1
<1>4. CASE s.kind = "GAP"
  <2>1. u = [t EXCEPT !.result = Append(t.result, s)]
    BY <1>4 DEF Collect
  <2>2. t = [result |-> t.result, total |-> t.total, exposure |-> t.exposure,
             start |-> t.start, end |-> t.end]
    BY DEF AnyTally
  <2>3. u = [result |-> Append(t.result, s), total |-> t.total, exposure |-> t.exposure,
             start |-> t.start, end |-> t.end]
    BY <2>1, <2>2
  <2> HIDE DEF u
  <2> QED
    BY <1>1, <1>3, <1>4, <2>3 DEF AnyTally, u
<1>5. CASE s.kind # "GAP"
  <2> DEFINE result == IF LongEnough(s) THEN Append(t.result, s) ELSE t.result
             start == IF Duration(s) > 0 /\ t.start = NoTime THEN s.start ELSE t.start
             end == IF Duration(s) > 0 THEN s.end ELSE t.end
  <2>1. u = [result |-> result, total |-> t.total + Duration(s),
             exposure |-> t.exposure + s.exposure, start |-> start, end |-> end]
    BY <1>5 DEF Collect
  <2>2. /\ result \in Seq(AnySegment) /\ start \in Int /\ end \in Int
        /\ t.total + Duration(s) \in Int /\ t.exposure + s.exposure \in Int
    BY <1>1, <1>2, <1>3
  <2> HIDE DEF u, result, start, end
  <2>3. u \in AnyTally
    BY <2>1, <2>2 DEF AnyTally
  <2> QED
    BY <1>5, <2>1, <2>3 DEF u, result, start, end
<1> QED
  BY <1>4, <1>5

LEMMA TallySteps ==
  ASSUME NEW q \in Seq(AnySegment)
  PROVE  /\ Tally(q)[0] = NoTally
         /\ \A k \in 0..Len(q) : Tally(q)[k] \in AnyTally
         /\ \A k \in 1..Len(q) : Tally(q)[k] = Collect(Tally(q)[k-1], q[k])
<1> DEFINE n == Len(q)
           F == [x \in (1..n) \X AnyTally |-> Collect(x[2], q[x[1]])]
           It(g) == g = [k \in 0..n |-> IF k = 0 THEN NoTally ELSE Collect(g[k-1], q[k])]
<1>1. n \in Nat /\ \A k \in 1..n : q[k] \in AnySegment
  OBVIOUS
<1>2. NoTally \in AnyTally
  BY DEF NoTally, AnyTally, NoTime
<1>3. F \in [(1..n) \X AnyTally -> AnyTally]
  <2>1. \A k \in 1..n, t \in AnyTally : Collect(t, q[k]) \in AnyTally
    BY <1>1, CollectIs
  <2> HIDE DEF n
  <2> QED
    BY <2>1
<1>4. PICK g \in [0..n -> AnyTally] : Recurs(g, n, NoTally, F)
  <2> HIDE DEF n, F
  <2> QED
    BY <1>1, <1>2, <1>3, ByRecursion
<1>5. g[0] = NoTally /\ \A k \in 1..n : g[k] = Collect(g[k-1], q[k])
  <2>1. \A k \in 1..n : g[k-1] \in AnyTally
    BY <1>1
  <2> HIDE DEF n
  <2> QED
    BY <1>4, <2>1 DEF Recurs
<1>6. It(g)
  BY <1>1, <1>4, <1>5
<1>7. It(CHOOSE h : It(h))
  BY <1>6, Zenon
<1>8. Tally(q) = CHOOSE h : It(h)
  BY DEF Tally, NoTally
<1> DEFINE h == Tally(q)
<1>9. h = [k \in 0..n |-> IF k = 0 THEN NoTally ELSE Collect(h[k-1], q[k])]
  BY <1>7, <1>8
<1> HIDE DEF h, n
<1>10. h[0] = NoTally /\ \A k \in 1..n : h[k] = Collect(h[k-1], q[k])
  BY <1>1, <1>9
<1> DEFINE T == {k \in 0..n : h[k] \in AnyTally}
<1>11. 0 \in T
  BY <1>1, <1>2, <1>10
<1>12. ASSUME NEW k \in 0..(n-1), k \in T PROVE k + 1 \in T
  <2>1. k + 1 \in 1..n /\ (k + 1) - 1 = k
    BY <1>1
  <2>2. h[k+1] = Collect(h[k], q[k+1]) /\ h[k] \in AnyTally /\ q[k+1] \in AnySegment
    BY <1>1, <1>10, <1>12, <2>1
  <2>3. h[k+1] \in AnyTally
    BY <2>2, CollectIs
  <2> QED
    BY <2>1, <2>3
<1>13. \A k \in 0..n : k \in T
  <2> HIDE DEF T
  <2> QED
    BY <1>1, <1>11, <1>12, CountUp
<1> QED
  BY <1>10, <1>13 DEF h, n

\* Segments one after the other.
Chain(q) ==
  /\ q \in Seq(AnySegment)
  /\ \A l \in 1..Len(q) : q[l].start <= q[l].end
  /\ \A l, m \in 1..Len(q) : l < m => q[l].end <= q[m].start

Kept(s) == s.kind = "GAP" \/ LongEnough(s)
Lasting(s) == s.kind # "GAP" /\ Duration(s) > 0

\* What holds of the tally of the first k segments.
TallyInv(q, k, t) ==
  /\ \A m \in 1..Len(t.result) : \E l \in 1..k : Kept(q[l]) /\ t.result[m] = q[l]
  /\ \A l \in 1..k : Kept(q[l]) => \E m \in 1..Len(t.result) : t.result[m] = q[l]
  /\ \A m, o \in 1..Len(t.result) : m < o => t.result[m].end <= t.result[o].start
  /\ t.start = NoTime => \A l \in 1..k : ~Lasting(q[l])
  /\ t.start # NoTime =>
       /\ \E l \in 1..k : Lasting(q[l]) /\ t.start = q[l].start
       /\ \E l \in 1..k : Lasting(q[l]) /\ t.end = q[l].end
       /\ \A l \in 1..k : Lasting(q[l]) => t.start <= q[l].start /\ q[l].end <= t.end

LEMMA CollectKeeps ==
  ASSUME NEW q, Chain(q), NEW k \in 0..(Len(q)-1), NEW t \in AnyTally, TallyInv(q, k, t)
  PROVE  TallyInv(q, k + 1, Collect(t, q[k+1]))
<1> DEFINE j == k + 1
           s == q[j]
           u == Collect(t, s)
<1>1. /\ q \in Seq(AnySegment) /\ Len(q) \in Nat /\ k \in Nat /\ j \in 1..Len(q)
      /\ 1..k \subseteq 1..j /\ 1..j \subseteq 1..Len(q)
      /\ \A l \in 1..j : l \in 1..k \/ l = j
      /\ \A l \in 1..k : l < j
  BY DEF Chain
<1>2. s \in AnySegment /\ \A l \in 1..j : q[l] \in AnySegment
  BY <1>1
<1>3. /\ s.start \in Nat /\ s.end \in Nat
      /\ \A l \in 1..j : q[l].start \in Nat /\ q[l].end \in Nat
  BY <1>2 DEF AnySegment
<1>4. \A l \in 1..k : q[l].end <= s.start
  BY <1>1 DEF Chain
<1>5. /\ t.result \in Seq(AnySegment) /\ t.start \in Int /\ t.end \in Int
  BY DEF AnyTally
<1>6. /\ u.result = IF Kept(s) THEN Append(t.result, s) ELSE t.result
      /\ u.start = IF Lasting(s) /\ t.start = NoTime THEN s.start ELSE t.start
      /\ u.end = IF Lasting(s) THEN s.end ELSE t.end
  <2>1. CASE s.kind = "GAP"
    BY <1>2, <2>1, CollectIs DEF Kept, Lasting
  <2>2. CASE s.kind # "GAP"
    BY <1>2, <2>2, CollectIs DEF Kept, Lasting
  <2> QED
    BY <2>1, <2>2
<1> HIDE DEF u, s, j
<1>7. /\ \A m \in 1..Len(u.result) : \E l \in 1..j : Kept(q[l]) /\ u.result[m] = q[l]
      /\ \A l \in 1..j : Kept(q[l]) => \E m \in 1..Len(u.result) : u.result[m] = q[l]
      /\ \A m, o \in 1..Len(u.result) : m < o => u.result[m].end <= u.result[o].start
  <2> DEFINE a == t.result
             n == Len(a)
  <2>1. /\ \A m \in 1..n : \E l \in 1..k : Kept(q[l]) /\ a[m] = q[l]
        /\ \A l \in 1..k : Kept(q[l]) => \E m \in 1..n : a[m] = q[l]
        /\ \A m, o \in 1..n : m < o => a[m].end <= a[o].start
    BY DEF TallyInv
  <2>2. \A m \in 1..n : a[m].end <= s.start
    BY <1>4, <2>1
  <2>3. n \in Nat
    BY <1>5
  <2>4. CASE ~Kept(s)
    <3>1. u.result = a
      BY <1>6, <2>4
    <3> HIDE DEF a
    <3> QED
      BY <1>1, <2>1, <2>4, <3>1 DEF s
  <2>5. CASE Kept(s)
    <3> DEFINE b == u.result
    <3>1. /\ b = Append(a, s) /\ Len(b) = n + 1 /\ b[n+1] = s
          /\ \A m \in 1..n : b[m] = a[m]
      BY <1>5, <1>6, <2>5
    <3> HIDE DEF b, a, n
    <3>2. /\ \A m \in 1..(n+1) : m \in 1..n \/ m = n + 1
          /\ 1..n \subseteq 1..(n+1) /\ n + 1 \in 1..(n+1)
          /\ \A m, o \in 1..(n+1) : m < o => m \in 1..n
      BY <2>3
    <3>3. ASSUME NEW m \in 1..(n+1) PROVE \E l \in 1..j : Kept(q[l]) /\ b[m] = q[l]
      <4>1. CASE m = n + 1
        <5>1. j \in 1..j
          BY <1>1
        <5> QED
          BY <2>5, <3>1, <4>1, <5>1 DEF s
      <4>2. CASE m \in 1..n
        <5>1. PICK l \in 1..k : Kept(q[l]) /\ a[m] = q[l]
          BY <2>1, <4>2
        <5> QED
          BY <1>1, <3>1, <4>2, <5>1
      <4> QED
        BY <3>2, <4>1, <4>2
    <3>4. \A l \in 1..j : Kept(q[l]) => \E m \in 1..(n+1) : b[m] = q[l]
      BY <1>1, <2>1, <3>1, <3>2 DEF s
    <3>5. \A m, o \in 1..(n+1) : m < o => b[m].end <= b[o].start
      BY <2>1, <2>2, <3>1, <3>2
    <3> QED
      BY <3>1, <3>3, <3>4, <3>5 DEF b
  <2> QED
    BY <2>4, <2>5
<1>8. /\ u.start = NoTime => \A l \in 1..j : ~Lasting(q[l])
      /\ u.start # NoTime =>
           /\ \E l \in 1..j : Lasting(q[l]) /\ u.start = q[l].start
           /\ \E l \in 1..j : Lasting(q[l]) /\ u.end = q[l].end
           /\ \A l \in 1..j : Lasting(q[l]) => u.start <= q[l].start /\ q[l].end <= u.end
  <2>1. NoTime \notin Nat
    BY DEF NoTime
  <2>2. /\ t.start = NoTime => \A l \in 1..k : ~Lasting(q[l])
        /\ t.start # NoTime =>
             /\ \E l \in 1..k : Lasting(q[l]) /\ t.start = q[l].start
             /\ \E l \in 1..k : Lasting(q[l]) /\ t.end = q[l].end
             /\ \A l \in 1..k : Lasting(q[l]) => t.start <= q[l].start /\ q[l].end <= t.end
    BY DEF TallyInv
  <2>3. \A l \in 1..j : q[l].start <= q[l].end
    BY <1>1 DEF Chain
  <2>4. j \in 1..j
    BY <1>1
  <2>5. CASE ~Lasting(s)
    <3>1. u.start = t.start /\ u.end = t.end
      BY <1>6, <2>5
    <3> QED
      BY <1>1, <2>2, <2>5, <3>1 DEF s
  <2>6. CASE Lasting(s) /\ t.start = NoTime
    <3>1. u.start = s.start /\ u.end = s.end
      BY <1>6, <2>6
    <3>2. \A l \in 1..j : Lasting(q[l]) => l = j
      BY <1>1, <2>2, <2>6
    <3> QED
      BY <1>3, <2>1, <2>4, <2>6, <3>1, <3>2 DEF s
  <2>7. CASE Lasting(s) /\ t.start # NoTime
    <3>1. u.start = t.start /\ u.end = s.end
      BY <1>6, <2>7
    <3>2. PICK f \in 1..k : Lasting(q[f]) /\ t.start = q[f].start
      BY <2>2, <2>7
    <3>3. f \in 1..j /\ q[f].start <= q[f].end /\ q[f].end <= s.start /\ s.start <= s.end
      BY <1>1, <1>4, <2>3, <2>4, <3>2 DEF s
    <3>4. ASSUME NEW l \in 1..j, Lasting(q[l])
          PROVE  u.start <= q[l].start /\ q[l].end <= u.end
      <4>1. CASE l = j
        <5>1. t.start <= s.start
          BY <1>3, <3>2, <3>3
        <5> QED
          BY <1>3, <3>1, <4>1, <5>1 DEF s
      <4>2. CASE l \in 1..k
        <5>1. t.start <= q[l].start /\ q[l].end <= s.start
          BY <1>4, <2>2, <2>7, <3>4, <4>2
        <5> QED
          BY <1>3, <3>1, <3>3, <5>1
      <4> QED
        BY <1>1, <4>1, <4>2
    <3>5. \E l \in 1..j : Lasting(q[l]) /\ u.start = q[l].start
      BY <3>1, <3>2, <3>3
    <3>6. \E l \in 1..j : Lasting(q[l]) /\ u.end = q[l].end
      BY <2>4, <2>7, <3>1 DEF s
    <3> QED
      BY <2>7, <3>1, <3>4, <3>5, <3>6
  <2> QED
    BY <2>5, <2>6, <2>7
<1> QED
  BY <1>7, <1>8 DEF TallyInv, u, s, j

LEMMA TallyHolds ==
  ASSUME NEW q, Chain(q)
  PROVE  TallyInv(q, Len(q), Tally(q)[Len(q)])
<1> DEFINE n == Len(q)
           h == Tally(q)
           T == {k \in 0..n : TallyInv(q, k, h[k])}
<1>1. q \in Seq(AnySegment) /\ n \in Nat
  BY DEF Chain
<1>2. /\ h[0] = NoTally
      /\ \A k \in 0..n : h[k] \in AnyTally
      /\ \A k \in 1..n : h[k] = Collect(h[k-1], q[k])
  BY <1>1, TallySteps
<1> HIDE DEF h, n
<1>3. 0 \in T
  <2>1. h[0].result = <<>> /\ h[0].start = NoTime
    BY <1>2 DEF NoTally
  <2>2. Len(<<>>) = 0 /\ 1..0 = {}
    OBVIOUS
  <2> QED
    BY <1>1, <2>1, <2>2 DEF TallyInv
<1>4. ASSUME NEW k \in 0..(n-1), k \in T PROVE k + 1 \in T
  <2>1. k + 1 \in 1..n /\ (k + 1) - 1 = k /\ k \in 0..n /\ k \in 0..(Len(q)-1)
    BY <1>1 DEF n
  <2>2. h[k+1] = Collect(h[k], q[k+1]) /\ h[k] \in AnyTally /\ TallyInv(q, k, h[k])
    BY <1>2, <1>4, <2>1
  <2>3. TallyInv(q, k + 1, h[k+1])
    BY <2>1, <2>2, CollectKeeps
  <2> QED
    BY <1>1, <2>1, <2>3
<1>5. n \in T
  <2> HIDE DEF T
  <2>1. \A k \in 0..n : k \in T
    BY <1>1, <1>3, <1>4, CountUp
  <2> QED
    BY <1>1, <2>1
<1> QED
  BY <1>5 DEF h, n

----------------------------------------------------------------------------
(* What is found.                                                          *)

LEMMA PolicyTypes ==
  /\ MaxGap \in Nat /\ MaxGap > 0 /\ Continuous \in Nat /\ Continuous > 0
  /\ Cumulative \in Nat /\ Cumulative > 0
  /\ MajorDelta \in Nat /\ CriticalDelta \in Nat /\ MajorDelta < CriticalDelta
  /\ MinC \in Int /\ MaxC \in Int /\ MinC < MaxC
<1>1. \A c \in -100..100 : c \in Int
  OBVIOUS
<1>2. /\ MinC \in -100..100 /\ MaxC \in -100..100 /\ MinC < MaxC
      /\ MajorDelta < CriticalDelta
      /\ {MaxGap, Continuous, Cumulative} \subseteq Nat \ {0}
      /\ {MajorDelta, CriticalDelta} \subseteq Nat \ {0}
  BY PolicyAssumption DEF ValidPolicy
<1>3. MinC \in Int /\ MaxC \in Int
  BY <1>1, <1>2, Zenon
<1> QED
  BY <1>2, <1>3

\* The segments of a lot's readings and what is collected from them.
LEMMA SegmentsFollow ==
  ASSUME NEW R, Stored(R)
  PROVE  /\ Chain(Segments(R))
         /\ \A l \in 1..Len(Segments(R)) :
              /\ Segments(R)[l].kind \in {"GAP", "HIGH", "LOW"}
              /\ Segments(R)[l].kind = "GAP" => Segments(R)[l].start < Segments(R)[l].end
<1> DEFINE items == InOrder(R)
           n == Len(items)
           q == Segments(R)
<1>1. Sorted(items) /\ n \in Nat
  <2>1. Sorted(items)
    BY InOrderSorts
  <2> QED
    BY <2>1 DEF Sorted
<1>2. PICK p : Accrues(items, p)
  BY <1>1, SomethingAccrues
<1>3. Listed(items, p, n, n, q)
  BY <1>2, SegmentsListed
<1> HIDE DEF items, q
<1>4. \A l, m \in 1..Len(q) : l < m => q[l].end <= q[m].start
  BY <1>3 DEF Listed, Ahead
<1>5. ASSUME NEW l \in 1..Len(q)
      PROVE  /\ q[l].start <= q[l].end /\ q[l].kind \in {"GAP", "HIGH", "LOW"}
             /\ q[l].kind = "GAP" => q[l].start < q[l].end
  <2>1. \/ \E k \in 2..n : IsGap(items, q[l], k)
        \/ \E x \in 1..n, y \in 1..n : IsRun(items, p, q[l], x, y)
    BY <1>3 DEF Listed
  <2>2. n \in 1..Len(items) /\ n \in 0..n
    BY <1>1, <2>1
  <2>3. q[l].start <= q[l].end
    BY <1>1, <1>3, <2>2, ListedSpans
  <2>4. ASSUME NEW k \in 2..n, IsGap(items, q[l], k)
        PROVE  q[l].kind = "GAP" /\ q[l].start < q[l].end
    <3>1. q[l].kind = "GAP" /\ q[l].start = items[k-1].at /\ q[l].end = items[k].at
      BY <2>4 DEF IsGap, Segment
    <3>2. items[k].at - items[k-1].at > MaxGap
      BY <2>4 DEF IsGap, AfterGap
    <3>3. items[k].at \in Nat /\ items[k-1].at \in Nat
      <4>1. k \in 1..Len(items) /\ k - 1 \in 1..Len(items)
        BY <1>1
      <4> QED
        BY <1>1, <4>1, ReadingTypes
    <3> QED
      BY <3>1, <3>2, <3>3, PolicyTypes
  <2>5. ASSUME NEW x \in 1..n, NEW y \in 1..n, IsRun(items, p, q[l], x, y)
        PROVE  q[l].kind \in {"HIGH", "LOW"}
    <3>1. q[l].kind = Kind(items[x]) /\ Kind(items[x]) # "NORMAL"
      BY <2>5 DEF IsRun, Run
    <3> QED
      BY <3>1 DEF Kind
  <2> QED
    BY <2>1, <2>3, <2>4, <2>5
<1>6. q \in Seq(AnySegment)
  BY <1>3 DEF Listed
<1> QED
  BY <1>4, <1>5, <1>6 DEF Chain, q

Total(R) == Tally(Segments(R))[Len(Segments(R))]
Cumulated(t) == Segment("CUMULATIVE", t.start, t.end, t.total, t.exposure)

LEMMA FoundIs ==
  ASSUME NEW R, Stored(R)
  PROVE  /\ Total(R) \in AnyTally
         /\ TallyInv(Segments(R), Len(Segments(R)), Total(R))
         /\ Found(R) = IF Total(R).total < Cumulative THEN Total(R).result
                       ELSE Append(Total(R).result, Cumulated(Total(R)))
<1>1. Chain(Segments(R))
  BY SegmentsFollow
<1>2. Segments(R) \in Seq(AnySegment)
  BY <1>1 DEF Chain
<1>3. Len(Segments(R)) \in 0..Len(Segments(R))
  BY <1>2
<1>4. Total(R) \in AnyTally
  BY <1>2, <1>3, TallySteps DEF Total
<1>5. TallyInv(Segments(R), Len(Segments(R)), Total(R))
  BY <1>1, TallyHolds DEF Total
<1>6. Found(R) = IF Total(R).total < Cumulative THEN Total(R).result
                 ELSE Append(Total(R).result, Cumulated(Total(R)))
  BY Zenon DEF Found, Total, Cumulated
<1> QED
  BY <1>4, <1>5, <1>6

\* No two excursions of a lot have one fingerprint.
LEMMA FindingsDiffer ==
  ASSUME NEW R, Stored(R),
         NEW i \in DOMAIN Found(R), NEW j \in DOMAIN Found(R),
         Fingerprint(Found(R)[i]) = Fingerprint(Found(R)[j])
  PROVE  i = j
<1> DEFINE q == Segments(R)
           t == Total(R)
           a == t.result
           n == Len(a)
           found == Found(R)
<1>1. Chain(q) /\ \A l \in 1..Len(q) :
        /\ q[l].kind \in {"GAP", "HIGH", "LOW"}
        /\ q[l].kind = "GAP" => q[l].start < q[l].end
  BY SegmentsFollow
<1>2. /\ t \in AnyTally /\ TallyInv(q, Len(q), t)
      /\ found = IF t.total < Cumulative THEN a ELSE Append(a, Cumulated(t))
  BY FoundIs
<1>3. a \in Seq(AnySegment) /\ n \in Nat /\ DOMAIN a = 1..n
  BY <1>2 DEF AnyTally
<1> HIDE DEF q, t, a, found, n
<1>4. ASSUME NEW m \in 1..n
      PROVE  /\ a[m].start \in Nat /\ a[m].end \in Nat /\ a[m].start < a[m].end
             /\ a[m].kind # "CUMULATIVE"
  <2>1. PICK l \in 1..Len(q) : Kept(q[l]) /\ a[m] = q[l]
    BY <1>2 DEF TallyInv, a, n
  <2>2. q[l].start \in Nat /\ q[l].end \in Nat
    <3>1. q[l] \in AnySegment
      BY <1>1 DEF Chain
    <3> QED
      BY <3>1 DEF AnySegment
  <2>3. CASE q[l].kind = "GAP"
    BY <1>1, <2>1, <2>2, <2>3
  <2>4. CASE q[l].kind # "GAP"
    <3>1. q[l].end - q[l].start >= Continuous
      BY <2>1, <2>4 DEF Kept, LongEnough, Duration
    <3>2. q[l].start < q[l].end
      BY <2>2, <3>1, PolicyTypes
    <3> QED
      BY <1>1, <2>1, <2>2, <3>2
  <2> QED
    BY <2>3, <2>4
<1>5. \A m, o \in 1..n : m < o => a[m].end <= a[o].start
  BY <1>2 DEF TallyInv, a, n
<1>6. \A m, o \in 1..n : a[m].start = a[o].start /\ a[m].end = a[o].end => m = o
  BY <1>3, <1>4, <1>5
<1>7. \A s : Fingerprint(s) = <<s.kind, s.start, s.end>>
  BY DEF Fingerprint
<1>8. /\ found[i].kind = found[j].kind /\ found[i].start = found[j].start
      /\ found[i].end = found[j].end
  BY <1>7 DEF found
<1>9. CASE t.total < Cumulative
  <2>1. found = a
    BY <1>2, <1>9
  <2>2. i \in 1..n /\ j \in 1..n
    BY <1>3, <2>1 DEF found
  <2> QED
    BY <1>6, <1>8, <2>1, <2>2
<1>10. CASE ~(t.total < Cumulative)
  <2>1. /\ DOMAIN found = 1..(n+1)
        /\ found[n+1] = Cumulated(t)
        /\ \A m \in 1..n : found[m] = a[m]
    BY <1>2, <1>3, <1>10 DEF n
  <2>2. found[n+1].kind = "CUMULATIVE"
    BY <2>1 DEF Cumulated, Segment
  <2>3. i \in 1..(n+1) /\ j \in 1..(n+1)
    BY <2>1 DEF found
  <2>4. /\ i \in 1..n \/ i = n + 1
        /\ j \in 1..n \/ j = n + 1
    BY <1>3, <2>3
  <2> QED
    BY <1>4, <1>6, <1>8, <2>1, <2>2, <2>4
<1> QED
  BY <1>9, <1>10

----------------------------------------------------------------------------
(* Theorems about the stream.                                              *)

AllStored == Stored(readings)

\* The readings of a lot stay finitely many, of their type, and with IDs of their
\* own (service.go: AddReadings).
THEOREM AlwaysStored == Spec => []AllStored
<1>1. Init => AllStored
  BY FS_EmptySet DEF Init, AllStored, Stored
<1>2. ASSUME AllStored, [Next]_readings PROVE AllStored'
  <2>1. CASE UNCHANGED readings
    BY <1>2, <2>1 DEF AllStored
  <2>2. CASE Next
    <3>1. PICK at \in Times, c \in Temperatures : Arrive(at, c)
      BY <2>2 DEF Next
    <3>2. PICK id \in Ids \ {r.id : r \in readings} :
            readings' = readings \cup {[id |-> id, at |-> at, c |-> c]}
      BY <3>1 DEF Arrive
    <3> DEFINE new == [id |-> id, at |-> at, c |-> c]
    <3>3. new \in Reading
      BY StreamAssumption
    <3>4. IsFiniteSet(readings')
      BY <1>2, <3>2, FS_AddElement DEF AllStored, Stored
    <3>5. \A r \in readings : r.id # new.id
      BY <3>2
    <3> HIDE DEF new
    <3>6. readings' = readings \cup {new}
      BY <3>2 DEF new
    <3> QED
      BY <1>2, <3>3, <3>4, <3>5, <3>6 DEF AllStored, Stored
  <2> QED
    BY <1>2, <2>1, <2>2
<1> QED
  BY <1>1, <1>2, PTL DEF Spec

\* No two excursions of a lot ever share a fingerprint, so that evaluateState
\* never gives two of them one ID (evaluate.go:18-126, service.go:361-379).
THEOREM FingerprintsAlwaysUnique == Spec => []FingerprintsUnique
<1>1. AllStored => FingerprintsUnique
  BY FindingsDiffer DEF FingerprintsUnique, AllStored
<1> QED
  BY <1>1, AlwaysStored, PTL

\* A temperature excursion is a run of the readings: none of those of its time
\* are worse than its peak, which is one of theirs.
LEMMA FoundRun ==
  ASSUME NEW R, Stored(R), \A r, s \in R : r.at = s.at => r = s,
         NEW s \in ToSet(Found(R)), s.kind \in {"HIGH", "LOW"}
  PROVE  /\ s.start \in Nat /\ s.end \in Nat /\ s.peak \in Int
         /\ \E r \in R : s.start <= r.at /\ r.at <= s.end /\ r.c = s.peak
         /\ \A r \in R : s.start <= r.at /\ r.at <= s.end => Extreme(s, r.c)
<1> DEFINE items == InOrder(R)
           n == Len(items)
           q == Segments(R)
           t == Total(R)
<1>1. /\ Sorted(items)
      /\ \A i \in 1..n : items[i] \in R
      /\ \A r \in R : \E i \in 1..n : items[i] = r
      /\ \A i, j \in 1..n : items[i] = items[j] => i = j
  BY InOrderSorts
<1>2. PICK p : Accrues(items, p)
  BY <1>1, SomethingAccrues
<1>3. Listed(items, p, n, n, q)
  BY <1>2, SegmentsListed
<1>4. PICK l \in 1..Len(q) : s = q[l]
  <2>1. /\ t \in AnyTally /\ TallyInv(q, Len(q), t)
        /\ Found(R) = IF t.total < Cumulative THEN t.result
                      ELSE Append(t.result, Cumulated(t))
    BY FoundIs
  <2> HIDE DEF t, q
  <2>2. t.result \in Seq(AnySegment)
    BY <2>1 DEF AnyTally
  <2>3. PICK i \in DOMAIN Found(R) : s = Found(R)[i]
    BY DEF ToSet
  <2>4. Cumulated(t).kind = "CUMULATIVE"
    BY DEF Cumulated, Segment
  <2>5. i \in 1..Len(t.result) /\ s = t.result[i]
    <3>1. CASE t.total < Cumulative
      BY <2>1, <2>2, <2>3, <3>1
    <3>2. CASE ~(t.total < Cumulative)
      <4>1. Found(R) = Append(t.result, Cumulated(t))
        BY <2>1, <3>2
      <4>2. i \in 1..(Len(t.result)+1) /\ Len(t.result) \in Nat
        BY <2>2, <2>3, <4>1
      <4>3. i # Len(t.result) + 1
        BY <2>2, <2>3, <2>4, <4>1
      <4> QED
        BY <2>2, <2>3, <4>1, <4>2, <4>3
    <3> QED
      BY <3>1, <3>2
  <2> QED
    BY <2>1, <2>5 DEF TallyInv
<1> HIDE DEF items, q
<1>5. n \in Nat /\ \A i, j \in 1..n : i < j => items[i].at < items[j].at
  <2>1. n \in Nat
    BY <1>1 DEF Sorted
  <2>2. \A i \in 1..n : items[i].at \in Nat
    BY <1>1, ReadingTypes
  <2>3. ASSUME NEW i \in 1..n, NEW j \in 1..n, i < j PROVE items[i].at < items[j].at
    <3>1. items[i].at <= items[j].at
      BY <1>1, <2>3 DEF Sorted
    <3>2. items[i].at # items[j].at
      BY <1>1, <2>3
    <3> QED
      BY <2>2, <3>1, <3>2
  <2> QED
    BY <2>1, <2>3
<1>6. PICK x \in 1..n, y \in 1..n : IsRun(items, p, s, x, y)
  <2>1. \A k : ~IsGap(items, q[l], k)
    BY <1>4 DEF IsGap, Segment
  <2> QED
    BY <1>3, <1>4, <2>1 DEF Listed
<1>7. /\ s.start = items[x].at /\ s.end = items[y].at
      /\ \E k \in x..y : s.peak = items[k].c
      /\ \A k \in x..y : Extreme(s, items[k].c)
  BY <1>6 DEF IsRun
<1>8. \A i \in 1..n : items[i].at \in Nat /\ items[i].c \in Int
  BY <1>1, ReadingTypes
<1>9. ASSUME NEW k \in 1..n
      PROVE  s.start <= items[k].at /\ items[k].at <= s.end <=> k \in x..y
  BY <1>5, <1>7, <1>8
<1>10. x..y \subseteq 1..n
  BY <1>5
<1>11. \E r \in R : s.start <= r.at /\ r.at <= s.end /\ r.c = s.peak
  <2>1. PICK k \in x..y : s.peak = items[k].c
    BY <1>7
  <2> QED
    BY <1>1, <1>9, <1>10, <2>1
<1>12. ASSUME NEW r \in R, s.start <= r.at, r.at <= s.end PROVE Extreme(s, r.c)
  <2>1. PICK k \in 1..n : items[k] = r
    BY <1>1
  <2>2. k \in x..y
    BY <1>9, <1>12, <2>1
  <2> QED
    BY <1>7, <2>1, <2>2
<1>13. s.start \in Nat /\ s.end \in Nat /\ s.peak \in Int
  BY <1>7, <1>8, <1>10
<1> QED
  BY <1>11, <1>12, <1>13

\* Of two excursions of one kind and time the one with the worse peak is no less
\* severe.
LEMMA WorseIsNoLess ==
  ASSUME NEW s, NEW t, s.kind \in {"HIGH", "LOW"}, t.kind = s.kind,
         s.start \in Nat, s.end \in Nat, t.start = s.start, t.end = s.end,
         s.peak \in Int, t.peak \in Int, Extreme(t, s.peak),
         Severity(s) # "MINOR"
  PROVE  Severity(t) \in {Severity(s), "CRITICAL"}
<1>1. Minutes(s) = Minutes(t)
  BY DEF Minutes, Duration
<1>2. ASSUME NEW d \in Nat, DeltaReaches(s, d) PROVE DeltaReaches(t, d)
  <2>1. CASE s.kind = "HIGH"
    <3>1. s.peak - MaxC >= d /\ s.peak <= t.peak
      BY <1>2, <2>1 DEF DeltaReaches, Extreme
    <3>2. t.peak - MaxC >= d
      BY <3>1, PolicyTypes
    <3> QED
      BY <2>1, <3>2 DEF DeltaReaches
  <2>2. CASE s.kind = "LOW"
    <3>1. MinC - s.peak >= d /\ t.peak <= s.peak
      BY <1>2, <2>2 DEF DeltaReaches, Extreme
    <3>2. MinC - t.peak >= d
      BY <3>1, PolicyTypes
    <3> QED
      BY <2>2, <3>2 DEF DeltaReaches
  <2> QED
    BY <2>1, <2>2
<1>3. /\ DeltaReaches(s, CriticalDelta) => DeltaReaches(t, CriticalDelta)
      /\ DeltaReaches(s, MajorDelta) => DeltaReaches(t, MajorDelta)
  BY <1>2, PolicyTypes
<1> QED
  BY <1>1, <1>3, Zenon DEF Severity

\* A later reading of a time of its own never lowers the severity of a
\* temperature excursion that keeps its fingerprint (evaluate.go:57-69, 103-123).
THEOREM SeverityHolds == Spec => SeverityNeverDrops
<1>1. ASSUME AllStored, AllStored', [Next]_readings, TieFree',
             NEW s \in ToSet(Found(readings)), NEW t \in ToSet(Found(readings')),
             Fingerprint(s) = Fingerprint(t), s.kind \in {"HIGH", "LOW"},
             Severity(s) # "MINOR"
      PROVE  Severity(t) \in {Severity(s), "CRITICAL"}
  <2>1. readings \subseteq readings'
    BY <1>1 DEF Next, Arrive
  <2>2. Stored(readings) /\ Stored(readings')
    BY <1>1 DEF AllStored
  <2>3. \A r, u \in readings' : r.at = u.at => r = u
    BY <1>1 DEF TieFree
  <2>4. \A r, u \in readings : r.at = u.at => r = u
    BY <2>1, <2>3
  <2>5. t.kind = s.kind /\ t.start = s.start /\ t.end = s.end
    BY <1>1 DEF Fingerprint
  <2>6. /\ s.start \in Nat /\ s.end \in Nat /\ s.peak \in Int
        /\ \E r \in readings : s.start <= r.at /\ r.at <= s.end /\ r.c = s.peak
    BY <1>1, <2>2, <2>4, FoundRun
  <2>7. /\ t.peak \in Int
        /\ \A r \in readings' : t.start <= r.at /\ r.at <= t.end => Extreme(t, r.c)
    BY <1>1, <2>2, <2>3, <2>5, FoundRun
  <2>8. Extreme(t, s.peak)
    BY <2>1, <2>5, <2>6, <2>7
  <2> QED
    BY <1>1, <2>5, <2>6, <2>7, <2>8, WorseIsNoLess
<1>2. AllStored /\ AllStored' /\ [Next]_readings =>
        [TieFree' =>
           \A s \in ToSet(Found(readings)), t \in ToSet(Found(readings')) :
             /\ Fingerprint(s) = Fingerprint(t) /\ s.kind \in {"HIGH", "LOW"}
             /\ Severity(s) # "MINOR"
             => Severity(t) \in {Severity(s), "CRITICAL"}]_readings
  BY <1>1
<1> QED
  BY <1>2, AlwaysStored, PTL DEF Spec, SeverityNeverDrops

----------------------------------------------------------------------------
(* The stretches of ReadingStream are the runs.                            *)

\* The readings in their order, all of different times.
Timeline(items) ==
  /\ Sorted(items) /\ Distinct(items) /\ Len(items) \in Nat
  /\ \A i \in 1..Len(items) : items[i] \in readings /\ items[i].at \in Nat
  /\ \A r \in readings : \E i \in 1..Len(items) : items[i] = r

LEMMA TimelineOfStream ==
  ASSUME AllStored, TieFree
  PROVE  Timeline(InOrder(readings))
<1> DEFINE items == InOrder(readings)
           n == Len(items)
<1>1. /\ Sorted(items)
      /\ \A i \in 1..n : items[i] \in readings
      /\ \A r \in readings : \E i \in 1..n : items[i] = r
      /\ \A i, j \in 1..n : items[i] = items[j] => i = j
  BY InOrderSorts DEF AllStored
<1> HIDE DEF items
<1>2. n \in Nat
  BY <1>1 DEF Sorted
<1>3. \A i \in 1..n : items[i].at \in Nat
  BY <1>1, ReadingTypes
<1>4. ASSUME NEW i \in 1..n, NEW j \in 1..n, i < j PROVE items[i].at < items[j].at
  <2>1. items[i].at <= items[j].at
    BY <1>1, <1>4 DEF Sorted
  <2>2. items[i].at # items[j].at
    BY <1>1, <1>4 DEF TieFree
  <2> QED
    BY <1>3, <2>1, <2>2
<1>5. Distinct(items)
  BY <1>4 DEF Distinct
<1> QED
  BY <1>1, <1>2, <1>3, <1>5 DEF Timeline, items

\* Times have the order of places.
LEMMA TimesAscend ==
  ASSUME NEW items, Timeline(items), NEW i \in 1..Len(items), NEW j \in 1..Len(items)
  PROVE  /\ items[i].at < items[j].at <=> i < j
         /\ items[i].at <= items[j].at <=> i <= j
         /\ items[i].at = items[j].at <=> i = j
<1>1. items[i].at \in Nat /\ items[j].at \in Nat /\ i \in Nat /\ j \in Nat
  BY DEF Timeline
<1>2. /\ i < j => items[i].at < items[j].at
      /\ j < i => items[j].at < items[i].at
  BY DEF Timeline, Distinct
<1> QED
  BY <1>1, <1>2

LEMMA WithinIs ==
  ASSUME NEW items, Timeline(items), NEW i \in 1..Len(items), NEW j \in 1..Len(items)
  PROVE  /\ \A k \in i..j : items[k] \in Within(items[i].at, items[j].at)
         /\ \A r \in Within(items[i].at, items[j].at) : \E k \in i..j : items[k] = r
<1>1. ASSUME NEW k \in i..j PROVE items[k] \in Within(items[i].at, items[j].at)
  <2>1. k \in 1..Len(items) /\ i <= k /\ k <= j
    BY DEF Timeline
  <2>2. items[k] \in readings
    BY <2>1 DEF Timeline
  <2> QED
    BY <2>1, <2>2, TimesAscend DEF Within
<1>2. ASSUME NEW r \in Within(items[i].at, items[j].at) PROVE \E k \in i..j : items[k] = r
  <2>1. r \in readings /\ items[i].at <= r.at /\ r.at <= items[j].at
    BY DEF Within
  <2>2. PICK k \in 1..Len(items) : items[k] = r
    BY <2>1 DEF Timeline
  <2>3. i <= k /\ k <= j
    BY <2>1, <2>2, TimesAscend
  <2> QED
    BY <2>2, <2>3
<1> QED
  BY <1>1, <1>2

Neighbours(items, k) == <<items[k-1], items[k]>>

LEMMA AdjacentAre ==
  ASSUME NEW items, Timeline(items)
  PROVE  /\ \A k \in 2..Len(items) : Neighbours(items, k) \in Adjacent
         /\ \A p \in Adjacent : \E k \in 2..Len(items) : p = Neighbours(items, k)
<1> DEFINE n == Len(items)
<1>0. n \in Nat
  BY DEF Timeline
<1>1. ASSUME NEW k \in 2..n PROVE Neighbours(items, k) \in Adjacent
  <2>1. k - 1 \in 1..n /\ k \in 1..n /\ k - 1 < k /\ (k-1)..k = {k-1, k}
    BY <1>0
  <2>2. items[k-1] \in readings /\ items[k] \in readings
    BY <2>1 DEF Timeline
  <2>3. items[k-1].at < items[k].at
    BY <2>1, TimesAscend
  <2>4. Within(items[k-1].at, items[k].at) = {items[k-1], items[k]}
    <3>1. /\ \A i \in (k-1)..k : items[i] \in Within(items[k-1].at, items[k].at)
          /\ \A r \in Within(items[k-1].at, items[k].at) : \E i \in (k-1)..k : items[i] = r
      BY <2>1, WithinIs
    <3> QED
      BY <2>1, <3>1
  <2> QED
    BY <2>2, <2>3, <2>4 DEF Adjacent, Neighbours
<1>2. ASSUME NEW p \in Adjacent PROVE \E k \in 2..n : p = Neighbours(items, k)
  <2>1. /\ p = <<p[1], p[2]>> /\ p[1] \in readings /\ p[2] \in readings
        /\ p[1].at < p[2].at /\ Within(p[1].at, p[2].at) = {p[1], p[2]}
    BY DEF Adjacent
  <2>2. PICK i \in 1..n, j \in 1..n : p[1] = items[i] /\ p[2] = items[j]
    BY <2>1 DEF Timeline
  <2>3. i < j
    BY <2>1, <2>2, TimesAscend
  <2>4. i + 1 \in i..j /\ i + 1 \in 1..n
    BY <1>0, <2>3
  <2>5. items[i+1] = items[i] \/ items[i+1] = items[j]
    <3>1. items[i+1] \in Within(items[i].at, items[j].at)
      BY <2>4, WithinIs
    <3> QED
      BY <2>1, <2>2, <3>1
  <2>6. items[i+1] = items[i] => i + 1 = i
    BY <2>4, TimesAscend
  <2>7. items[i+1] = items[j] => i + 1 = j
    BY <2>4, TimesAscend
  <2>8. j = i + 1
    BY <2>5, <2>6, <2>7
  <2> QED
    BY <1>0, <2>1, <2>2, <2>8 DEF Neighbours
<1> QED
  BY <1>1, <1>2

LEMMA GapsAre ==
  ASSUME NEW items, Timeline(items), NEW k \in 2..Len(items)
  PROVE  Neighbours(items, k) \in Gaps <=> AfterGap(items, k)
<1>1. Neighbours(items, k) \in Adjacent
  BY AdjacentAre
<1>2. k > 1
  BY DEF Timeline
<1> QED
  BY <1>1, <1>2 DEF Gaps, Neighbours, AfterGap

LEMMA StepsAre ==
  ASSUME NEW items, Timeline(items), NEW a \in 1..Len(items), NEW b \in a..Len(items)
  PROVE  /\ \A k \in (a+1)..b : Neighbours(items, k) \in Steps(items[a].at, items[b].at)
         /\ \A p \in Steps(items[a].at, items[b].at) :
              \E k \in (a+1)..b : p = Neighbours(items, k)
<1>0. Len(items) \in Nat /\ b \in 1..Len(items)
  BY DEF Timeline
<1>1. ASSUME NEW k \in (a+1)..b PROVE Neighbours(items, k) \in Steps(items[a].at, items[b].at)
  <2>1. k \in 2..Len(items) /\ k - 1 \in 1..Len(items) /\ k \in 1..Len(items)
    BY <1>0
  <2>2. a <= k - 1 /\ k <= b
    BY <1>0
  <2>3. items[a].at <= items[k-1].at /\ items[k].at <= items[b].at
    BY <1>0, <2>1, <2>2, TimesAscend
  <2>4. Neighbours(items, k) \in Adjacent
    BY <2>1, AdjacentAre
  <2> QED
    BY <2>3, <2>4 DEF Steps, Neighbours
<1>2. ASSUME NEW p \in Steps(items[a].at, items[b].at)
      PROVE  \E k \in (a+1)..b : p = Neighbours(items, k)
  <2>1. p \in Adjacent /\ items[a].at <= p[1].at /\ p[2].at <= items[b].at
    BY DEF Steps
  <2>2. PICK k \in 2..Len(items) : p = Neighbours(items, k)
    BY <2>1, AdjacentAre
  <2>3. k - 1 \in 1..Len(items) /\ k \in 1..Len(items)
    BY <1>0
  <2>4. items[a].at <= items[k-1].at /\ items[k].at <= items[b].at
    BY <2>1, <2>2 DEF Neighbours
  <2>5. a <= k - 1 /\ k <= b
    BY <1>0, <2>3, <2>4, TimesAscend
  <2>6. k \in (a+1)..b
    BY <1>0, <2>5
  <2> QED
    BY <2>2, <2>6
<1> QED
  BY <1>1, <1>2

\* The readings from a to b are of one kind, without a gap between them.
Even(items, kind, a, b) ==
  /\ a \in 1..Len(items) /\ b \in a..Len(items)
  /\ \A k \in a..b : Kind(items[k]) = kind
  /\ \A k \in (a+1)..b : ~AfterGap(items, k)

LEMMA StretchesAreEven ==
  ASSUME NEW items, Timeline(items), NEW kind, NEW w
  PROVE  w \in Stretches(kind) <=>
           \E a, b \in 1..Len(items) :
             Even(items, kind, a, b) /\ w = <<items[a].at, items[b].at>>
<1> DEFINE n == Len(items)
<1>0. n \in Nat
  BY DEF Timeline
<1>1. ASSUME NEW a \in 1..n, NEW b \in a..n
      PROVE  LET v == <<items[a].at, items[b].at>>
             IN Even(items, kind, a, b) <=>
                  /\ \A r \in Within(v[1], v[2]) : Kind(r) = kind
                  /\ Steps(v[1], v[2]) \cap Gaps = {}
  <2> DEFINE v == <<items[a].at, items[b].at>>
  <2>1. b \in 1..n /\ v[1] = items[a].at /\ v[2] = items[b].at
    BY <1>0
  <2>2. (\A r \in Within(v[1], v[2]) : Kind(r) = kind) <=> (\A k \in a..b : Kind(items[k]) = kind)
    <3>1. /\ \A k \in a..b : items[k] \in Within(items[a].at, items[b].at)
          /\ \A r \in Within(items[a].at, items[b].at) : \E k \in a..b : items[k] = r
      BY <2>1, WithinIs
    <3> QED
      BY <3>1
  <2>3. \A k \in (a+1)..b : k \in 2..n
    BY <1>0
  <2>4. Steps(v[1], v[2]) \cap Gaps = {} <=> \A k \in (a+1)..b : ~AfterGap(items, k)
    <3>1. /\ \A k \in (a+1)..b : Neighbours(items, k) \in Steps(v[1], v[2])
          /\ \A p \in Steps(v[1], v[2]) : \E k \in (a+1)..b : p = Neighbours(items, k)
      BY <2>1, StepsAre
    <3>2. \A k \in (a+1)..b : Neighbours(items, k) \in Gaps <=> AfterGap(items, k)
      BY <2>3, GapsAre
    <3> QED
      BY <3>1, <3>2
  <2> QED
    BY <2>2, <2>4 DEF Even
<1>2. ASSUME w \in Stretches(kind)
      PROVE  \E a, b \in 1..n : Even(items, kind, a, b) /\ w = <<items[a].at, items[b].at>>
  <2>1. /\ w = <<w[1], w[2]>> /\ w[1] \in At /\ w[2] \in At /\ w[1] <= w[2]
        /\ \A r \in Within(w[1], w[2]) : Kind(r) = kind
        /\ Steps(w[1], w[2]) \cap Gaps = {}
    BY <1>2 DEF Stretches
  <2>2. PICK a \in 1..n, b \in 1..n : w[1] = items[a].at /\ w[2] = items[b].at
    <3>1. PICK r \in readings, u \in readings : w[1] = r.at /\ w[2] = u.at
      BY <2>1 DEF At
    <3>2. PICK a \in 1..n, b \in 1..n : items[a] = r /\ items[b] = u
      BY DEF Timeline
    <3> QED
      BY <3>1, <3>2
  <2>3. a <= b
    BY <2>1, <2>2, TimesAscend
  <2>4. b \in a..n
    BY <1>0, <2>3
  <2>5. Even(items, kind, a, b)
    BY <1>1, <2>1, <2>2, <2>4
  <2> QED
    BY <2>1, <2>2, <2>5
<1>3. ASSUME NEW a \in 1..n, NEW b \in 1..n, Even(items, kind, a, b),
             w = <<items[a].at, items[b].at>>
      PROVE  w \in Stretches(kind)
  <2>1. b \in a..n /\ a <= b
    BY <1>0, <1>3 DEF Even
  <2>2. w[1] = items[a].at /\ w[2] = items[b].at
    BY <1>3
  <2>3. w \in At \X At
    <3>1. items[a] \in readings /\ items[b] \in readings
      BY DEF Timeline
    <3> QED
      BY <1>3, <3>1 DEF At
  <2>4. w[1] <= w[2]
    BY <2>1, <2>2, TimesAscend
  <2>5. /\ \A r \in Within(w[1], w[2]) : Kind(r) = kind
        /\ Steps(w[1], w[2]) \cap Gaps = {}
    BY <1>1, <1>3, <2>1, <2>2
  <2> QED
    BY <2>3, <2>4, <2>5 DEF Stretches
<1> QED
  BY <1>2, <1>3

\* The runs of one kind, each with its end.
Whole(items, kind, a, b) ==
  /\ Run(items, a, b) /\ ~Follows(items, b + 1) /\ Kind(items[a]) = kind

LEMMA RunsAreEven ==
  ASSUME NEW items, Timeline(items), NEW kind \in {"HIGH", "LOW"}, NEW a, NEW b
  PROVE  Whole(items, kind, a, b) <=>
           /\ Even(items, kind, a, b)
           /\ ~Even(items, kind, a - 1, b)
           /\ ~Even(items, kind, a, b + 1)
<1> DEFINE n == Len(items)
<1>0. n \in Nat
  BY DEF Timeline
<1>1. \A k : AfterGap(items, k) => k > 1
  BY DEF AfterGap
<1>2. ASSUME Even(items, kind, a, b)
      PROVE  /\ Even(items, kind, a - 1, b) <=> Follows(items, a)
             /\ Even(items, kind, a, b + 1) <=> Follows(items, b + 1)
             /\ Run(items, a, b) <=> ~Follows(items, a)
             /\ Kind(items[a]) = kind
  <2>1. /\ a \in 1..n /\ b \in a..n
        /\ \A k \in a..b : Kind(items[k]) = kind
        /\ \A k \in (a+1)..b : ~AfterGap(items, k)
    BY <1>2 DEF Even
  <2>2. a \in a..b /\ b \in a..b
    BY <1>0, <2>1
  <2>3. Even(items, kind, a - 1, b) <=> Follows(items, a)
    <3>1. ASSUME Even(items, kind, a - 1, b) PROVE Follows(items, a)
      <4>1. a - 1 \in 1..n /\ \A k \in (a-1)..b : Kind(items[k]) = kind
        BY <3>1 DEF Even
      <4>2. ~AfterGap(items, a)
        <5>1. a \in ((a-1)+1)..b
          BY <1>0, <2>1
        <5> QED
          BY <3>1, <5>1 DEF Even
      <4>3. a - 1 \in (a-1)..b /\ a \in 2..n
        BY <1>0, <2>1, <4>1
      <4> QED
        BY <2>1, <2>2, <4>1, <4>2, <4>3 DEF Follows
    <3>2. ASSUME Follows(items, a) PROVE Even(items, kind, a - 1, b)
      <4>1. a \in 2..n /\ ~AfterGap(items, a) /\ Kind(items[a-1]) = kind
        BY <2>1, <2>2, <3>2 DEF Follows
      <4>2. a - 1 \in 1..n /\ b \in (a-1)..n
        BY <1>0, <2>1, <4>1
      <4>3. \A k \in (a-1)..b : k = a - 1 \/ k \in a..b
        BY <1>0, <2>1
      <4>4. \A k \in ((a-1)+1)..b : k = a \/ k \in (a+1)..b
        BY <1>0, <2>1
      <4> QED
        BY <2>1, <4>1, <4>2, <4>3, <4>4 DEF Even
    <3> QED
      BY <3>1, <3>2
  <2>4. Even(items, kind, a, b + 1) <=> Follows(items, b + 1)
    <3>0. (b + 1) - 1 = b
      BY <1>0, <2>1
    <3>1. ASSUME Even(items, kind, a, b + 1) PROVE Follows(items, b + 1)
      <4>1. b + 1 \in a..n /\ \A k \in a..(b+1) : Kind(items[k]) = kind
        BY <3>1 DEF Even
      <4>2. b + 1 \in 2..n /\ b + 1 \in a..(b+1) /\ b + 1 \in (a+1)..(b+1)
        BY <1>0, <2>1, <4>1
      <4>3. ~AfterGap(items, b + 1)
        BY <3>1, <4>2 DEF Even
      <4> QED
        BY <2>1, <2>2, <3>0, <4>1, <4>2, <4>3 DEF Follows
    <3>2. ASSUME Follows(items, b + 1) PROVE Even(items, kind, a, b + 1)
      <4>1. b + 1 \in 2..n /\ ~AfterGap(items, b + 1) /\ Kind(items[b+1]) = kind
        BY <2>1, <2>2, <3>0, <3>2 DEF Follows
      <4>2. b + 1 \in a..n
        BY <1>0, <2>1, <4>1
      <4>3. \A k \in a..(b+1) : k = b + 1 \/ k \in a..b
        BY <1>0, <2>1
      <4>4. \A k \in (a+1)..(b+1) : k = b + 1 \/ k \in (a+1)..b
        BY <1>0, <2>1
      <4> QED
        BY <2>1, <4>1, <4>2, <4>3, <4>4 DEF Even
    <3> QED
      BY <3>1, <3>2
  <2>5. \A k \in (a+1)..b : Follows(items, k)
    <3>1. \A k \in (a+1)..b : k \in 2..n /\ k \in a..b /\ k - 1 \in a..b
      BY <1>0, <2>1
    <3> QED
      BY <2>1, <3>1 DEF Follows
  <2>6. Kind(items[a]) = kind /\ kind # "NORMAL"
    BY <2>1, <2>2
  <2>7. Run(items, a, b) <=> ~Follows(items, a)
    BY <2>1, <2>5, <2>6 DEF Run
  <2> QED
    BY <2>3, <2>4, <2>6, <2>7
<1>3. ASSUME Whole(items, kind, a, b) PROVE Even(items, kind, a, b)
  BY <1>3 DEF Whole, Run, Even, Follows
<1> QED
  BY <1>2, <1>3 DEF Whole

LEMMA MaximalAreRuns ==
  ASSUME NEW items, Timeline(items), NEW kind \in {"HIGH", "LOW"}, NEW w
  PROVE  w \in Maximal(Stretches(kind)) <=>
           \E a, b \in 1..Len(items) :
             Whole(items, kind, a, b) /\ w = <<items[a].at, items[b].at>>
<1> DEFINE n == Len(items)
           Span(a, b) == <<items[a].at, items[b].at>>
<1>0. n \in Nat
  BY DEF Timeline
<1>1. \A v : v \in Stretches(kind) <=>
               \E a, b \in 1..n : Even(items, kind, a, b) /\ v = Span(a, b)
  BY StretchesAreEven
<1>2. \A a, b, c, d \in 1..n :
        /\ Span(c, d)[1] <= Span(a, b)[1] <=> c <= a
        /\ Span(a, b)[2] <= Span(c, d)[2] <=> b <= d
        /\ Span(a, b) = Span(c, d) => a = c /\ b = d
  BY TimesAscend
<1> HIDE DEF Span
<1>3. ASSUME w \in Maximal(Stretches(kind))
      PROVE  \E a, b \in 1..n : Whole(items, kind, a, b) /\ w = Span(a, b)
  <2>1. /\ w \in Stretches(kind)
        /\ \A v \in Stretches(kind) : v[1] <= w[1] /\ w[2] <= v[2] => v = w
    BY <1>3 DEF Maximal
  <2>2. PICK a \in 1..n, b \in 1..n : Even(items, kind, a, b) /\ w = Span(a, b)
    BY <1>1, <2>1
  <2>3. ASSUME NEW c \in 1..n, NEW d \in 1..n, Even(items, kind, c, d), c <= a, b <= d
        PROVE  c = a /\ d = b
    <3>1. Span(c, d) \in Stretches(kind)
      BY <1>1, <2>3
    <3>2. Span(c, d) = w
      BY <1>2, <2>1, <2>2, <2>3, <3>1
    <3> QED
      BY <1>2, <2>2, <3>2
  <2>4. ~Even(items, kind, a - 1, b)
    <3>1. Even(items, kind, a - 1, b) => a - 1 \in 1..n
      BY DEF Even
    <3> QED
      BY <1>0, <2>3, <3>1
  <2>5. ~Even(items, kind, a, b + 1)
    <3>1. Even(items, kind, a, b + 1) => b + 1 \in 1..n
      BY <1>0 DEF Even
    <3> QED
      BY <1>0, <2>3, <3>1
  <2>6. Whole(items, kind, a, b)
    BY <2>2, <2>4, <2>5, RunsAreEven
  <2> QED
    BY <2>2, <2>6
<1>4. ASSUME NEW a \in 1..n, NEW b \in 1..n, Whole(items, kind, a, b), w = Span(a, b)
      PROVE  w \in Maximal(Stretches(kind))
  <2>1. Even(items, kind, a, b)
    BY <1>4, RunsAreEven
  <2>2. w \in Stretches(kind)
    BY <1>1, <1>4, <2>1
  <2>3. ASSUME NEW v \in Stretches(kind), v[1] <= w[1], w[2] <= v[2] PROVE v = w
    <3>1. PICK c \in 1..n, d \in 1..n : Even(items, kind, c, d) /\ v = Span(c, d)
      BY <1>1
    <3>2. c <= a /\ b <= d
      BY <1>2, <1>4, <2>3, <3>1
    <3>3. ~(c < a)
      <4>1. ASSUME c < a PROVE FALSE
        <5>1. /\ a \in 2..n /\ a - 1 \in c..d /\ a \in c..d /\ a \in (c+1)..d
              /\ b \in a..n
          BY <1>0, <2>1, <3>2, <4>1 DEF Even
        <5>2. Follows(items, a)
          BY <3>1, <5>1 DEF Even, Follows
        <5> QED
          BY <1>4, <5>2 DEF Whole, Run
      <4> QED
        BY <4>1
    <3>4. ~(b < d)
      <4>1. ASSUME b < d PROVE FALSE
        <5>1. /\ b + 1 \in 2..n /\ (b + 1) - 1 = b /\ b \in c..d /\ b + 1 \in c..d
              /\ b + 1 \in (c+1)..d
          BY <1>0, <2>1, <3>2, <4>1 DEF Even
        <5>2. Follows(items, b + 1)
          BY <3>1, <5>1 DEF Even, Follows
        <5> QED
          BY <1>4, <5>2 DEF Whole
      <4> QED
        BY <4>1
    <3>5. c = a /\ d = b
      BY <1>0, <3>2, <3>3, <3>4
    <3> QED
      BY <1>4, <3>1, <3>5
  <2> QED
    BY <2>2, <2>3 DEF Maximal
<1>5. w \in Maximal(Stretches(kind)) <=>
        \E a, b \in 1..n : Whole(items, kind, a, b) /\ w = Span(a, b)
  BY <1>3, <1>4
<1> QED
  BY <1>5 DEF Span

----------------------------------------------------------------------------
(* The segments are the gaps and the stretches of ReadingStream.           *)

LEMMA ExtremesAre ==
  ASSUME NEW S, S \subseteq Int, NEW m \in S
  PROVE  /\ (\A y \in S : y <= m) => Max(S) = m
         /\ (\A y \in S : m <= y) => Min(S) = m
<1>1. m \in Int /\ \A y \in S : y \in Int
  OBVIOUS
<1>2. ASSUME \A y \in S : y <= m PROVE Max(S) = m
  <2>1. \A y \in S : m >= y
    BY <1>1, <1>2
  <2>2. Max(S) \in S /\ \A y \in S : Max(S) >= y
    BY <2>1 DEF Max
  <2> DEFINE x == Max(S)
  <2> HIDE DEF x
  <2>3. x \in S /\ x >= m /\ x <= m
    BY <1>2, <2>2 DEF x
  <2>4. x = m
    BY <1>1, <2>3
  <2> QED
    BY <2>4 DEF x
<1>3. ASSUME \A y \in S : m <= y PROVE Min(S) = m
  <2>1. Min(S) \in S /\ \A y \in S : Min(S) <= y
    BY <1>3 DEF Min
  <2> DEFINE x == Min(S)
  <2> HIDE DEF x
  <2>2. x \in S /\ x <= m /\ m <= x
    BY <1>3, <2>1 DEF x
  <2>3. x = m
    BY <1>1, <2>2
  <2> QED
    BY <2>3 DEF x
<1> QED
  BY <1>2, <1>3

LEMMA PeakIs ==
  ASSUME NEW items, Timeline(items), NEW p, NEW s, NEW a, NEW b, IsRun(items, p, s, a, b)
  PROVE  Peak(s.kind, <<items[a].at, items[b].at>>) = s.peak
<1> DEFINE n == Len(items)
           w == <<items[a].at, items[b].at>>
           temps == {r.c : r \in Within(w[1], w[2])}
<1>1. /\ n \in Nat /\ a \in 1..n /\ b \in 1..n /\ \A k \in a..b : k \in 1..n
      /\ \E k \in a..b : s.peak = items[k].c
      /\ \A k \in a..b : Extreme(s, items[k].c)
      /\ s.kind = Kind(items[a]) /\ Kind(items[a]) # "NORMAL"
  BY DEF IsRun, Run, Timeline
<1>2. s.kind \in {"HIGH", "LOW"}
  BY <1>1 DEF Kind
<1>3. /\ \A k \in a..b : items[k] \in Within(items[a].at, items[b].at)
      /\ \A r \in Within(items[a].at, items[b].at) : \E k \in a..b : items[k] = r
  BY <1>1, WithinIs
<1>4. \A k \in a..b : items[k].c \in Int
  <2>1. Sorted(items)
    BY DEF Timeline
  <2> QED
    BY <1>1, <2>1, ReadingTypes
<1>5. temps \subseteq Int /\ s.peak \in temps /\ \A y \in temps : Extreme(s, y)
  BY <1>1, <1>3, <1>4
<1> HIDE DEF temps
<1>6. CASE s.kind = "HIGH"
  <2>1. Max(temps) = s.peak
    BY <1>5, <1>6, ExtremesAre DEF Extreme
  <2> QED
    BY <1>6, <2>1 DEF Peak, temps
<1>7. CASE s.kind = "LOW"
  <2>1. Min(temps) = s.peak
    BY <1>5, <1>7, ExtremesAre DEF Extreme
  <2> QED
    BY <1>7, <2>1 DEF Peak, temps
<1> QED
  BY <1>2, <1>6, <1>7

LEMMA ExposureIs ==
  ASSUME NEW items, Timeline(items), NEW p, Accrues(items, p),
         NEW a \in 1..Len(items), NEW b \in a..Len(items)
  PROVE  ExposureIn(<<items[a].at, items[b].at>>) = p[b] - p[a]
<1> DEFINE n == Len(items)
           m == b - a
           D == Steps(items[a].at, items[b].at)
           e == [i \in 1..m |-> Neighbours(items, a + i)]
           f == [x \in D |-> Delta(x[2]) * (x[2].at - x[1].at)]
           sum == [i \in 0..m |-> p[a+i] - p[a]]
<1>1. /\ n \in Nat /\ m \in Nat /\ a \in 1..n /\ b \in 1..n
      /\ \A i \in 0..m : a + i \in 1..n
      /\ \A i \in 1..m : a + i \in 2..n /\ a + i \in (a+1)..b
      /\ \A i \in 1..m : (a + i) - 1 \in 1..n /\ (a + i) - 1 = a + (i - 1)
      /\ \A k \in (a+1)..b : k - a \in 1..m /\ a + (k - a) = k
  BY DEF Timeline
<1>2. /\ \A k \in (a+1)..b : Neighbours(items, k) \in D
      /\ \A x \in D : \E k \in (a+1)..b : x = Neighbours(items, k)
  BY StepsAre
<1>3. \A k \in 1..n : items[k].at \in Nat /\ Delta(items[k]) \in Int /\ p[k] \in Int
  <2>1. Sorted(items)
    BY DEF Timeline
  <2> QED
    BY <2>1, ReadingTypes DEF Accrues
<1>4. \A k \in 2..n : p[k] = p[k-1] + Delta(items[k]) * (items[k].at - items[k-1].at)
  BY DEF Accrues
<1> HIDE DEF n, m, D
<1>5. ASSUME NEW i \in 1..m, NEW j \in 1..m, e[i] = e[j] PROVE i = j
  <2>1. items[a+i].at = items[a+j].at
    BY <1>5 DEF Neighbours
  <2>2. a + i \in 1..Len(items) /\ a + j \in 1..Len(items)
    BY <1>1 DEF n
  <2>3. a + i = a + j
    BY <2>1, <2>2, TimesAscend
  <2> QED
    BY <1>1, <2>3
<1>6. ASSUME NEW x \in D PROVE \E i \in 1..m : x = e[i]
  <2>1. PICK k \in (a+1)..b : x = Neighbours(items, k)
    BY <1>2
  <2>2. k - a \in 1..m /\ a + (k - a) = k
    BY <1>1
  <2>3. x = e[k-a]
    BY <2>1, <2>2
  <2> QED
    BY <2>2, <2>3
<1>7. \A i \in 1..m : e[i] \in D
  BY <1>1, <1>2
<1>8. f \in [D -> Int]
  <2>1. ASSUME NEW x \in D PROVE Delta(x[2]) * (x[2].at - x[1].at) \in Int
    <3>1. PICK i \in 1..m : x = Neighbours(items, a + i)
      BY <1>6
    <3>2. /\ x[2] = items[a+i] /\ x[1] = items[(a+i)-1]
          /\ a + i \in 1..n /\ (a + i) - 1 \in 1..n
      BY <1>1, <3>1 DEF Neighbours
    <3>3. Delta(x[2]) \in Int /\ x[2].at \in Int /\ x[1].at \in Int
      BY <1>3, <3>2
    <3> QED
      BY <3>3
  <2> QED
    BY <2>1
<1>9. sum \in [0..m -> Int] /\ sum[0] = 0
  BY <1>1, <1>3
<1>10. ASSUME NEW i \in 1..m
       PROVE  sum[i] = sum[i-1] + (IF e[i] \in D THEN f[e[i]] ELSE 0)
  <2>1. e[i] \in D /\ e[i][2] = items[a+i] /\ e[i][1] = items[(a+i)-1]
    BY <1>7 DEF Neighbours
  <2>2. f[e[i]] = Delta(items[a+i]) * (items[a+i].at - items[(a+i)-1].at)
    BY <2>1
  <2>3. p[a+i] = p[(a+i)-1] + f[e[i]]
    BY <1>1, <1>4, <2>2
  <2>4. sum[i] = p[a+i] - p[a] /\ sum[i-1] = p[(a+i)-1] - p[a]
    BY <1>1
  <2>5. p[a+i] \in Int /\ p[(a+i)-1] \in Int /\ p[a] \in Int
    <3>1. a + i \in 1..n /\ (a + i) - 1 \in 1..n /\ a \in 1..n
      BY <1>1
    <3> QED
      BY <1>3, <3>1
  <2>6. f[e[i]] \in Int
    BY <1>8, <2>1
  <2> HIDE DEF sum, f, e
  <2> QED
    BY <2>1, <2>3, <2>4, <2>5, <2>6
<1> HIDE DEF e, f, sum
<1>11. SumFunction(f) = sum[m]
  <2>1. ListsOnce(e, m, D)
    BY <1>5, <1>6 DEF ListsOnce
  <2>2. SumsUp(sum, f, e, m, D)
    BY <1>9, <1>10 DEF SumsUp
  <2> QED
    BY <1>1, <1>8, <1>9, <2>1, <2>2, SumOfList
<1>12. sum[m] = p[b] - p[a]
  BY <1>1 DEF sum, m
<1> QED
  BY <1>11, <1>12 DEF ExposureIn, f, D

\* A run's segment is that of the stretch it covers.
LEMMA RunSegment ==
  ASSUME NEW items, Timeline(items), NEW p, Accrues(items, p), NEW s \in AnySegment,
         NEW a, NEW b, IsRun(items, p, s, a, b)
  PROVE  /\ s.kind \in {"HIGH", "LOW"} /\ s.kind = Kind(items[a])
         /\ LET w == <<items[a].at, items[b].at>>
            IN s = Segment(s.kind, w[1], w[2], Peak(s.kind, w), ExposureIn(w))
<1> DEFINE w == <<items[a].at, items[b].at>>
<1>1. /\ s.kind = Kind(items[a]) /\ Kind(items[a]) # "NORMAL"
      /\ s.start = items[a].at /\ s.end = items[b].at /\ s.exposure = p[b] - p[a]
      /\ a \in 1..Len(items) /\ b \in a..Len(items)
  BY DEF IsRun, Run
<1>2. s.kind \in {"HIGH", "LOW"}
  BY <1>1 DEF Kind
<1>3. Peak(s.kind, w) = s.peak
  BY PeakIs
<1>4. ExposureIn(w) = s.exposure
  BY <1>1, ExposureIs
<1>5. s = [kind |-> s.kind, start |-> s.start, end |-> s.end, peak |-> s.peak,
           exposure |-> s.exposure]
  BY DEF AnySegment
<1>6. w[1] = s.start /\ w[2] = s.end
  BY <1>1
<1> HIDE DEF w
<1>7. s = Segment(s.kind, w[1], w[2], Peak(s.kind, w), ExposureIn(w))
  BY <1>3, <1>4, <1>5, <1>6, Zenon DEF Segment
<1> QED
  BY <1>1, <1>2, <1>7 DEF w

LEMMA OutOfRangeAre ==
  ASSUME NEW items, Timeline(items), NEW p, Accrues(items, p), NEW q,
         Listed(items, p, Len(items), Len(items), q)
  PROVE  /\ \A l \in 1..Len(q) : q[l].kind # "GAP" => q[l] \in OutOfRange
         /\ \A s \in OutOfRange : \E l \in 1..Len(q) : s = q[l] /\ q[l].kind # "GAP"
<1> DEFINE n == Len(items)
           Stretch(kind, w) == Segment(kind, w[1], w[2], Peak(kind, w), ExposureIn(w))
<1>1. \A l \in 1..Len(q) : q[l] \in AnySegment
  BY DEF Listed
<1>2. \A s : s \in OutOfRange <=>
        \E kind \in {"HIGH", "LOW"} : \E w \in Maximal(Stretches(kind)) : s = Stretch(kind, w)
  BY DEF OutOfRange
<1> HIDE DEF Stretch
<1>3. ASSUME NEW l \in 1..Len(q), q[l].kind # "GAP" PROVE q[l] \in OutOfRange
  <2>1. PICK x \in 1..n, y \in 1..n : IsRun(items, p, q[l], x, y) /\ ~Follows(items, y + 1)
    <3>1. \A k : ~IsGap(items, q[l], k)
      BY <1>3 DEF IsGap, Segment
    <3> QED
      BY <3>1 DEF Listed
  <2> DEFINE w == <<items[x].at, items[y].at>>
  <2>2. /\ q[l].kind \in {"HIGH", "LOW"} /\ q[l].kind = Kind(items[x])
        /\ q[l] = Stretch(q[l].kind, w)
    BY <1>1, <2>1, RunSegment DEF Stretch
  <2>3. Whole(items, q[l].kind, x, y)
    BY <2>1, <2>2 DEF Whole, IsRun
  <2>4. w \in Maximal(Stretches(q[l].kind))
    BY <2>2, <2>3, MaximalAreRuns
  <2> QED
    BY <1>2, <2>2, <2>4
<1>4. ASSUME NEW s \in OutOfRange
      PROVE  \E l \in 1..Len(q) : s = q[l] /\ q[l].kind # "GAP"
  <2>0. PICK kind \in {"HIGH", "LOW"} :
          \E w \in Maximal(Stretches(kind)) : s = Stretch(kind, w)
    BY <1>2
  <2>1. PICK w \in Maximal(Stretches(kind)) : s = Stretch(kind, w)
    BY <2>0
  <2>2. PICK a \in 1..n, b \in 1..n :
          Whole(items, kind, a, b) /\ w = <<items[a].at, items[b].at>>
    BY MaximalAreRuns
  <2>3. PICK l \in 1..Len(q) : IsRun(items, p, q[l], a, b)
    BY <2>2 DEF Listed, Whole
  <2>4. q[l].kind = kind /\ q[l] = Stretch(q[l].kind, w)
    BY <1>1, <2>2, <2>3, RunSegment DEF Whole, Stretch
  <2> QED
    BY <2>1, <2>4
<1> QED
  BY <1>3, <1>4

GapOf(p) == Segment("GAP", p[1].at, p[2].at, p[2].at - p[1].at, 0)

LEMMA GapSegmentsAre ==
  ASSUME NEW items, Timeline(items), NEW p, NEW q,
         Listed(items, p, Len(items), Len(items), q)
  PROVE  /\ \A l \in 1..Len(q) : q[l].kind = "GAP" => \E g \in Gaps : q[l] = GapOf(g)
         /\ \A g \in Gaps : \E l \in 1..Len(q) : GapOf(g) = q[l] /\ q[l].kind = "GAP"
<1>1. ASSUME NEW k \in 2..Len(items), NEW s, IsGap(items, s, k)
      PROVE  s = GapOf(Neighbours(items, k)) /\ s.kind = "GAP"
  BY <1>1 DEF IsGap, GapOf, Neighbours, Segment
<1>2. ASSUME NEW l \in 1..Len(q), q[l].kind = "GAP" PROVE \E g \in Gaps : q[l] = GapOf(g)
  <2>1. \A x, y : ~IsRun(items, p, q[l], x, y)
    BY <1>2 DEF IsRun, Kind
  <2>2. PICK k \in 2..Len(items) : IsGap(items, q[l], k)
    BY <2>1 DEF Listed
  <2>3. Neighbours(items, k) \in Gaps
    BY <2>2, GapsAre DEF IsGap
  <2> QED
    BY <1>1, <2>2, <2>3
<1>3. ASSUME NEW g \in Gaps PROVE \E l \in 1..Len(q) : GapOf(g) = q[l] /\ q[l].kind = "GAP"
  <2>1. PICK k \in 2..Len(items) : g = Neighbours(items, k)
    BY AdjacentAre DEF Gaps
  <2>2. AfterGap(items, k)
    BY <2>1, GapsAre
  <2>3. PICK l \in 1..Len(q) : IsGap(items, q[l], k)
    BY <2>2 DEF Listed
  <2> QED
    BY <1>1, <2>1, <2>3
<1> QED
  BY <1>2, <1>3

----------------------------------------------------------------------------
(* The scan finds the stretches.                                           *)

\* The segments out of range occur once each in the list.
LEMMA RunsListedOnce ==
  ASSUME NEW items, Timeline(items), NEW p, Accrues(items, p), NEW q,
         Listed(items, p, Len(items), Len(items), q), Chain(q)
  PROVE  ListsOnce(q, Len(q), OutOfRange)
<1>1. /\ \A l \in 1..Len(q) : q[l].kind # "GAP" => q[l] \in OutOfRange
      /\ \A s \in OutOfRange : \E l \in 1..Len(q) : s = q[l] /\ q[l].kind # "GAP"
  BY OutOfRangeAre
<1>2. ASSUME NEW l \in 1..Len(q), NEW m \in 1..Len(q), q[l] \in OutOfRange, q[l] = q[m], l < m
      PROVE  FALSE
  <2>1. q[l].kind # "GAP" /\ q[m].kind # "GAP"
    BY <1>1, <1>2
  <2>2. q[l].end < q[m].start
    BY <1>2, <2>1 DEF Listed, Ahead, Timeline
  <2>3. q[l].start <= q[l].end /\ q[l].start \in Nat /\ q[l].end \in Nat
    <3>1. q[l] \in AnySegment
      BY DEF Listed
    <3> QED
      BY <3>1 DEF AnySegment, Chain
  <2> QED
    BY <1>2, <2>2, <2>3
<1>3. \A l, m \in 1..Len(q) : q[l] \in OutOfRange /\ q[l] = q[m] => l = m
  <2>1. Len(q) \in Nat
    BY DEF Chain
  <2> QED
    BY <1>2, <2>1
<1> QED
  BY <1>1, <1>3 DEF ListsOnce

\* What the tally adds up is the sum over the stretches.
LEMMA TotalsAre ==
  ASSUME NEW items, Timeline(items), NEW p, Accrues(items, p), NEW q,
         Listed(items, p, Len(items), Len(items), q), Chain(q)
  PROVE  LET t == Tally(q)[Len(q)]
         IN /\ t.total = SumFunction([s \in OutOfRange |-> Duration(s)])
            /\ t.exposure = SumFunction([s \in OutOfRange |-> s.exposure])
            /\ (\A l \in 1..Len(q) : ~Lasting(q[l])) => t.total = 0
<1> DEFINE n == Len(q)
           D == OutOfRange
           h == Tally(q)
           f == [s \in D |-> Duration(s)]
           g == [s \in D |-> s.exposure]
           total == [k \in 0..n |-> h[k].total]
           exposure == [k \in 0..n |-> h[k].exposure]
           zero == [k \in 0..n |-> 0]
<1>1. q \in Seq(AnySegment) /\ n \in Nat /\ \A l \in 1..n : q[l] \in AnySegment
  BY DEF Chain
<1>2. ListsOnce(q, n, D)
  BY RunsListedOnce
<1>3. /\ \A l \in 1..n : q[l].kind # "GAP" <=> q[l] \in D
      /\ \A s \in D : \E l \in 1..n : s = q[l]
  <2>1. /\ \A l \in 1..n : q[l].kind # "GAP" => q[l] \in D
        /\ \A s \in D : \E l \in 1..n : s = q[l] /\ q[l].kind # "GAP"
    BY OutOfRangeAre
  <2> HIDE DEF D
  <2> QED
    BY <2>1
<1>4. /\ h[0] = NoTally
      /\ \A k \in 0..n : h[k] \in AnyTally
      /\ \A k \in 1..n : h[k] = Collect(h[k-1], q[k])
  BY <1>1, TallySteps
<1> HIDE DEF n, D, h
<1>5. \A s \in AnySegment : Duration(s) \in Int /\ s.exposure \in Int
  BY DEF AnySegment, Duration
<1>6. f \in [D -> Int] /\ g \in [D -> Int]
  BY <1>1, <1>3, <1>5
<1>7. total \in [0..n -> Int] /\ exposure \in [0..n -> Int]
  <2>1. \A k \in 0..n : h[k].total \in Int /\ h[k].exposure \in Int
    BY <1>4 DEF AnyTally
  <2> QED
    BY <2>1
<1>8. total[0] = 0 /\ exposure[0] = 0
  BY <1>1, <1>4 DEF NoTally
<1>9. ASSUME NEW k \in 1..n
      PROVE  /\ total[k] = total[k-1] + (IF q[k] \in D THEN f[q[k]] ELSE 0)
             /\ exposure[k] = exposure[k-1] + (IF q[k] \in D THEN g[q[k]] ELSE 0)
  <2>1. k \in 0..n /\ k - 1 \in 0..n
    BY <1>1
  <2>2. h[k] = Collect(h[k-1], q[k]) /\ h[k-1] \in AnyTally /\ q[k] \in AnySegment
    BY <1>1, <1>4, <2>1
  <2>3. /\ q[k].kind = "GAP" => h[k].total = h[k-1].total /\ h[k].exposure = h[k-1].exposure
        /\ q[k].kind # "GAP" => /\ h[k].total = h[k-1].total + Duration(q[k])
                                /\ h[k].exposure = h[k-1].exposure + q[k].exposure
    BY <2>2, CollectIs
  <2>4. h[k-1].total \in Int /\ h[k-1].exposure \in Int
    BY <2>2 DEF AnyTally
  <2>5. /\ total[k] = h[k].total /\ total[k-1] = h[k-1].total
        /\ exposure[k] = h[k].exposure /\ exposure[k-1] = h[k-1].exposure
    BY <2>1
  <2>6. q[k] \in D => f[q[k]] = Duration(q[k]) /\ g[q[k]] = q[k].exposure
    OBVIOUS
  <2> HIDE DEF total, exposure, f, g
  <2>7. CASE q[k] \in D
    BY <1>3, <2>3, <2>5, <2>6, <2>7
  <2>8. CASE q[k] \notin D
    BY <1>3, <2>3, <2>4, <2>5, <2>8
  <2> QED
    BY <2>7, <2>8
<1>10. ASSUME \A l \in 1..n : ~Lasting(q[l])
       PROVE  zero \in [0..n -> Int] /\ SumsUp(zero, f, q, n, D) /\ zero[n] = 0
  <2>1. ASSUME NEW k \in 1..n, q[k] \in D PROVE f[q[k]] = 0
    <3>1. q[k].kind # "GAP"
      BY <1>3, <2>1
    <3>2. ~(Duration(q[k]) > 0)
      BY <1>10, <3>1 DEF Lasting
    <3>3. q[k].start <= q[k].end /\ q[k].start \in Nat /\ q[k].end \in Nat
      BY <1>1 DEF AnySegment, Chain, n
    <3>4. Duration(q[k]) = 0
      BY <3>2, <3>3 DEF Duration
    <3> QED
      BY <2>1, <3>4
  <2> HIDE DEF f
  <2>2. n \in 0..n /\ 0 \in 0..n /\ \A k \in 1..n : k \in 0..n /\ k - 1 \in 0..n
    BY <1>1
  <2> QED
    BY <2>1, <2>2 DEF SumsUp
<1> HIDE DEF f, g, total, exposure, zero
<1>11. SumsUp(total, f, q, n, D) /\ SumsUp(exposure, g, q, n, D)
  BY <1>8, <1>9 DEF SumsUp
<1>12. SumFunction(f) = total[n] /\ SumFunction(g) = exposure[n]
  BY <1>1, <1>2, <1>6, <1>7, <1>11, SumOfList
<1>13. (\A l \in 1..n : ~Lasting(q[l])) => SumFunction(f) = 0
  <2>1. ASSUME \A l \in 1..n : ~Lasting(q[l]) PROVE SumFunction(f) = 0
    <3>1. zero \in [0..n -> Int] /\ SumsUp(zero, f, q, n, D) /\ zero[n] = 0
      BY <1>10, <2>1
    <3>2. f \in [D -> Int] /\ n \in Nat
      BY <1>1, <1>6
    <3>3. SumFunction(f) = zero[n]
      BY <1>2, <3>1, <3>2, SumOfList
    <3> QED
      BY <3>1, <3>3
  <2> QED
    BY <2>1
<1>14. total[n] = h[n].total /\ exposure[n] = h[n].exposure
  <2>1. n \in 0..n
    BY <1>1
  <2> QED
    BY <2>1 DEF total, exposure
<1> QED
  BY <1>12, <1>13, <1>14 DEF f, g, h, n, D

\* From the first stretch that took time to the last.
LEMMA LastingAre ==
  ASSUME NEW items, Timeline(items), NEW p, Accrues(items, p), NEW q,
         Listed(items, p, Len(items), Len(items), q), Chain(q),
         NEW t, TallyInv(q, Len(q), t), \E l \in 1..Len(q) : Lasting(q[l])
  PROVE  LET lasting == {s \in OutOfRange : Duration(s) > 0}
         IN /\ t.start = Min({s.start : s \in lasting})
            /\ t.end = Max({s.end : s \in lasting})
<1> DEFINE n == Len(q)
           lasting == {s \in OutOfRange : Duration(s) > 0}
<1>1. /\ \A l \in 1..n : Lasting(q[l]) => q[l] \in lasting
      /\ \A s \in lasting : \E l \in 1..n : s = q[l] /\ Lasting(q[l])
  <2>1. /\ \A l \in 1..n : q[l].kind # "GAP" => q[l] \in OutOfRange
        /\ \A s \in OutOfRange : \E l \in 1..n : s = q[l] /\ q[l].kind # "GAP"
    BY OutOfRangeAre
  <2> QED
    BY <2>1 DEF Lasting
<1> HIDE DEF lasting
<1>2. \A l \in 1..n : q[l].start \in Int /\ q[l].end \in Int
  <2>1. \A l \in 1..n : q[l] \in AnySegment
    BY DEF Chain
  <2> QED
    BY <2>1 DEF AnySegment
<1>3. /\ \E l \in 1..n : Lasting(q[l]) /\ t.start = q[l].start
      /\ \E l \in 1..n : Lasting(q[l]) /\ t.end = q[l].end
      /\ \A l \in 1..n : Lasting(q[l]) => t.start <= q[l].start /\ q[l].end <= t.end
  BY DEF TallyInv
<1> DEFINE starts == {s.start : s \in lasting}
           ends == {s.end : s \in lasting}
<1>4. starts \subseteq Int /\ t.start \in starts /\ \A y \in starts : t.start <= y
  BY <1>1, <1>2, <1>3
<1>5. ends \subseteq Int /\ t.end \in ends /\ \A y \in ends : y <= t.end
  BY <1>1, <1>2, <1>3
<1> HIDE DEF starts, ends
<1>6. Min(starts) = t.start /\ Max(ends) = t.end
  BY <1>4, <1>5, ExtremesAre
<1> QED
  BY <1>6 DEF starts, ends, lasting

\* When no two readings have one time, the findings are those of ReadingStream.
LEMMA FindingsAre ==
  ASSUME AllStored, TieFree
  PROVE  ToSet(Found(readings)) = Expected
<1> DEFINE items == InOrder(readings)
           q == Segments(readings)
           t == Total(readings)
           D == OutOfRange
           gaps == {GapOf(g) : g \in Gaps}
           long == {s \in D : Duration(s) >= Continuous}
           sum == SumFunction([s \in D |-> Duration(s)])
           lasting == {s \in D : Duration(s) > 0}
           more == Segment("CUMULATIVE", Min({s.start : s \in lasting}),
                           Max({s.end : s \in lasting}), sum,
                           SumFunction([s \in D |-> s.exposure]))
<1>1. Stored(readings) /\ Timeline(items)
  BY TimelineOfStream DEF AllStored
<1>2. PICK p : Accrues(items, p)
  BY <1>1, SomethingAccrues DEF Timeline
<1>3. Listed(items, p, Len(items), Len(items), q) /\ Chain(q)
  BY <1>1, <1>2, SegmentsListed, SegmentsFollow
<1>4. /\ t \in AnyTally /\ TallyInv(q, Len(q), t)
      /\ Found(readings) = IF t.total < Cumulative THEN t.result
                           ELSE Append(t.result, Cumulated(t))
  BY <1>1, FoundIs
<1>5. /\ \A l \in 1..Len(q) : q[l].kind # "GAP" => q[l] \in D
      /\ \A s \in D : \E l \in 1..Len(q) : s = q[l] /\ q[l].kind # "GAP"
  BY <1>1, <1>2, <1>3, OutOfRangeAre
<1>6. /\ \A l \in 1..Len(q) : q[l].kind = "GAP" => \E g \in Gaps : q[l] = GapOf(g)
      /\ \A g \in Gaps : \E l \in 1..Len(q) : GapOf(g) = q[l] /\ q[l].kind = "GAP"
  BY <1>1, <1>3, GapSegmentsAre
<1>7. /\ t.total = sum
      /\ t.exposure = SumFunction([s \in D |-> s.exposure])
      /\ (\A l \in 1..Len(q) : ~Lasting(q[l])) => t.total = 0
  BY <1>1, <1>2, <1>3, TotalsAre DEF Total
<1>8. Expected = gaps \cup long \cup (IF sum < Cumulative THEN {} ELSE {more})
  BY DEF Expected, GapOf
<1>9. ASSUME ~(t.total < Cumulative) PROVE Cumulated(t) = more
  <2>1. t.total # 0
    BY <1>9, PolicyTypes
  <2>2. \E l \in 1..Len(q) : Lasting(q[l])
    BY <1>7, <2>1
  <2>3. t.start = Min({s.start : s \in lasting}) /\ t.end = Max({s.end : s \in lasting})
    BY <1>1, <1>2, <1>3, <1>4, <2>2, LastingAre
  <2> HIDE DEF sum, lasting, D, t
  <2> QED
    BY <1>7, <2>3, Zenon DEF Cumulated
<1> HIDE DEF items, q, t, D, gaps, sum, more
<1>10. t.result \in Seq(AnySegment)
  BY <1>4 DEF AnyTally
<1>11. ToSet(t.result) = gaps \cup long
  <2>1. ASSUME NEW s \in ToSet(t.result) PROVE s \in gaps \cup long
    <3>1. PICK m \in 1..Len(t.result) : s = t.result[m]
      BY <1>10 DEF ToSet
    <3>2. PICK l \in 1..Len(q) : Kept(q[l]) /\ s = q[l]
      BY <1>4, <3>1 DEF TallyInv
    <3> QED
      BY <1>5, <1>6, <3>2 DEF Kept, LongEnough, gaps
  <2>2. ASSUME NEW s \in gaps \cup long PROVE s \in ToSet(t.result)
    <3>1. \E l \in 1..Len(q) : s = q[l] /\ Kept(q[l])
      <4>1. CASE s \in gaps
        BY <1>6, <4>1 DEF Kept, gaps
      <4>2. CASE s \in long
        BY <1>5, <4>2 DEF Kept, LongEnough
      <4> QED
        BY <4>1, <4>2
    <3>2. \E m \in 1..Len(t.result) : t.result[m] = s
      BY <1>4, <3>1 DEF TallyInv
    <3> QED
      BY <1>10, <3>2 DEF ToSet
  <2> QED
    BY <2>1, <2>2
<1> HIDE DEF long
<1>12. CASE t.total < Cumulative
  BY <1>4, <1>7, <1>8, <1>11, <1>12
<1>13. CASE ~(t.total < Cumulative)
  <2>1. Found(readings) = Append(t.result, more)
    BY <1>4, <1>9, <1>13
  <2>2. ToSet(Append(t.result, more)) = ToSet(t.result) \cup {more}
    BY <1>10 DEF ToSet
  <2> QED
    BY <1>7, <1>8, <1>11, <1>13, <2>1, <2>2
<1> QED
  BY <1>12, <1>13

\* Whatever order and IDs the readings came with, the scan finds exactly the
\* gaps, the maximal stretches out of range and their total, when no two
\* readings have the same time (evaluate.go:18-102).
THEOREM FindingsAreTheStretches == Spec => []ScanFindsStretches
<1>1. AllStored => ScanFindsStretches
  BY FindingsAre DEF ScanFindsStretches
<1> QED
  BY <1>1, AlwaysStored, PTL

----------------------------------------------------------------------------
(* What LotCase assumes of the evaluation.                                 *)

\* The excursions evaluateState makes of the findings, as LotCase has them.
Findings(R) ==
  {[fp |-> Fingerprint(s), gap |-> s.kind = "GAP", sev |-> Severity(s)] : s \in ToSet(Found(R))}

\* Whatever is stored of a lot, its findings are what LotAssumption asks of Calc:
\* none without readings, and no two with one fingerprint; their severity is
\* one of the three.
THEOREM FindingsFitTheCase ==
  /\ Findings({}) = {}
  /\ \A R : Stored(R) =>
       /\ \A d, e \in Findings(R) : d.fp = e.fp => d = e
       /\ \A e \in Findings(R) : e.sev \in {"MINOR", "MAJOR", "CRITICAL"} /\ e.gap \in BOOLEAN
<1>1. Found({}) = <<>>
  <2>1. Stored({})
    BY FS_EmptySet DEF Stored
  <2>2. Segments({}) \in Seq(AnySegment)
    BY <2>1, SegmentsFollow DEF Chain
  <2>3. Len(InOrder({})) = 0
    <3>1. \A i \in 1..Len(InOrder({})) : InOrder({})[i] \in {}
      BY <2>1, InOrderSorts
    <3>2. Len(InOrder({})) \in Nat
      BY <2>1, InOrderSorts DEF Sorted
    <3> QED
      BY <3>1, <3>2
  <2>4. Scan(InOrder({}))[0] = [done |-> <<>>, current |-> None]
    BY <2>1, InOrderSorts, ScanSteps
  <2>5. Segments({}) = <<>>
    BY <2>3, <2>4 DEF Segments, Flush
  <2>6. Total({}) = NoTally
    <3>1. <<>> \in Seq(AnySegment) /\ Len(<<>>) = 0
      OBVIOUS
    <3> QED
      BY <2>5, <3>1, TallySteps DEF Total
  <2>7. 0 < Cumulative
    BY PolicyTypes
  <2> QED
    BY <2>1, <2>6, <2>7, FoundIs DEF NoTally
<1>2. ASSUME NEW R, Stored(R), NEW d \in Findings(R), NEW e \in Findings(R), d.fp = e.fp
      PROVE  d = e
  <2>1. PICK i \in DOMAIN Found(R) :
          d = [fp |-> Fingerprint(Found(R)[i]), gap |-> Found(R)[i].kind = "GAP",
               sev |-> Severity(Found(R)[i])]
    BY DEF Findings, ToSet
  <2>2. PICK j \in DOMAIN Found(R) :
          e = [fp |-> Fingerprint(Found(R)[j]), gap |-> Found(R)[j].kind = "GAP",
               sev |-> Severity(Found(R)[j])]
    BY DEF Findings, ToSet
  <2>3. Fingerprint(Found(R)[i]) = Fingerprint(Found(R)[j])
    BY <1>2, <2>1, <2>2
  <2>4. i = j
    BY <1>2, <2>3, FindingsDiffer
  <2> QED
    BY <2>1, <2>2, <2>4
<1>3. \A s : Severity(s) \in {"MINOR", "MAJOR", "CRITICAL"}
  BY DEF Severity
<1>4. ASSUME NEW R, NEW e \in Findings(R)
      PROVE  e.sev \in {"MINOR", "MAJOR", "CRITICAL"} /\ e.gap \in BOOLEAN
  <2>1. PICK s \in ToSet(Found(R)) :
          e = [fp |-> Fingerprint(s), gap |-> s.kind = "GAP", sev |-> Severity(s)]
    BY DEF Findings
  <2>2. e.sev = Severity(s)
    BY <2>1
  <2>3. e.gap \in BOOLEAN
    BY <2>1, Zenon
  <2> QED
    BY <1>3, <2>2, <2>3
<1>5. Findings({}) = {}
  BY <1>1 DEF Findings, ToSet
<1> QED
  BY <1>2, <1>4, <1>5

=============================================================================
