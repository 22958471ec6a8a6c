------------------------------ MODULE AALemmas ------------------------------
(***************************************************************************)
(* Facts about numbers and finite sets that the proofs of several           *)
(* components need.  Induction is done here by minimal counterexamples: the *)
(* library's induction theorems take the induction hypothesis as a          *)
(* parameter, which the provers cannot instantiate, but its theorem that    *)
(* the natural numbers are well founded is about one fixed relation.        *)
(***************************************************************************)
EXTENDS SequencesExt, FiniteSetTheorems, SequenceTheorems, TLAPS

(* The order of the natural numbers, as a set of pairs.                     *)
NatLess == {ss \in Nat \X Nat : ss[1] < ss[2]}

(* It is well founded.                                                      *)
LEMMA NatLessWellFounded == IsWellFoundedOn(NatLess, Nat)
  BY NatLessThanWellFounded DEF OpToRel, NatLess

(* A set of natural numbers that is not empty has a least element.          *)
LEMMA LeastNatural ==
    ASSUME NEW T \in SUBSET Nat, T # {}
    PROVE  \E x \in T : \A y \in T : x <= y
<1>1. \E x \in T : \A y \in T : <<y, x>> \notin NatLess
  BY WFMin, NatLessWellFounded
<1>2. ASSUME NEW x \in T, NEW y \in T, <<y, x>> \notin NatLess
      PROVE  x <= y
  <2>1. x \in Nat /\ y \in Nat
    OBVIOUS
  <2>2. <<y, x>> \in Nat \X Nat /\ <<y, x>>[1] = y /\ <<y, x>>[2] = x
    BY <2>1
  <2>3. ~(y < x)
    BY <1>2, <2>2, Zenon DEF NatLess
  <2> QED
    BY <2>1, <2>3
<1> QED
  BY <1>1, <1>2

(* The library's Min is that element.                                       *)
LEMMA MinIsLeast ==
    ASSUME NEW T \in SUBSET Nat, T # {}
    PROVE  Min(T) \in T /\ \A y \in T : Min(T) <= y
  BY LeastNatural, Zenon DEF Min

(* The smaller of two numbers, as the library computes it.                  *)
LEMMA MinOfTwo ==
    ASSUME NEW a \in Nat, NEW b \in Nat
    PROVE  Min({a, b}) = IF a <= b THEN a ELSE b
<1>1. {a, b} \in SUBSET Nat /\ {a, b} # {}
  OBVIOUS
<1> DEFINE m == Min({a, b})
<1>2. m \in {a, b} /\ \A y \in {a, b} : m <= y
  BY <1>1, MinIsLeast
<1> HIDE DEF m
<1>3. m = IF a <= b THEN a ELSE b
  BY <1>2
<1> QED
  BY <1>3 DEF m

LEMMA MinOfThree ==
    ASSUME NEW a \in Nat, NEW b \in Nat, NEW c \in Nat
    PROVE  Min({a, b, c}) = Min({a, Min({b, c})})
<1> DEFINE n == Min({b, c})
<1>0. n = IF b <= c THEN b ELSE c
  BY MinOfTwo
<1>1. {a, b, c} \in SUBSET Nat /\ {a, b, c} # {}
  OBVIOUS
<1> DEFINE m == Min({a, b, c})
<1>2. m \in {a, b, c} /\ \A y \in {a, b, c} : m <= y
  BY <1>1, MinIsLeast
<1> HIDE DEF m, n
<1>3. n \in Nat
  BY <1>0
<1>4. Min({a, n}) = IF a <= n THEN a ELSE n
  BY <1>3, MinOfTwo
<1>5. m = IF a <= n THEN a ELSE n
  BY <1>0, <1>2
<1> QED
  BY <1>4, <1>5 DEF m, n

(* Induction over a set of numbers: one that holds 0 and every successor    *)
(* of its elements holds all.                                               *)
LEMMA AllNaturals ==
    ASSUME NEW T, 0 \in T, \A n \in Nat : n \in T => n + 1 \in T
    PROVE  \A n \in Nat : n \in T
<1> DEFINE Out == Nat \ T
<1>1. SUFFICES ASSUME Out # {} PROVE FALSE
  OBVIOUS
<1>2. PICK x \in Out : \A y \in Out : x <= y
  BY <1>1, LeastNatural
<1>3. x \in Nat /\ x # 0
  BY <1>2
<1>4. x - 1 \in Nat /\ x - 1 \notin Out
  BY <1>2, <1>3
<1> QED
  BY <1>2, <1>3, <1>4

(* The elements of a finite set of numbers can be listed in their order.    *)
LEMMA Enumeration ==
    ASSUME NEW S \in SUBSET Nat, IsFiniteSet(S)
    PROVE  \E f \in [1 .. Cardinality(S) -> S] :
              \A c, d \in 1 .. Cardinality(S) : c < d => f[c] < f[d]
<1> DEFINE Listed(s, n) == \E f \in [1 .. n -> s] :
                             \A c, d \in 1 .. n : c < d => f[c] < f[d]
           T == {n \in Nat : \A s \in SUBSET S : Cardinality(s) = n => Listed(s, n)}
<1>1. \A s \in SUBSET S : IsFiniteSet(s) /\ Cardinality(s) \in Nat
  BY FS_Subset, FS_CardinalityType
<1>2. 0 \in T
  <2>1. ASSUME NEW s \in SUBSET S, Cardinality(s) = 0
        PROVE  Listed(s, 0)
    <3> DEFINE f == [c \in 1 .. 0 |-> 0]
    <3>1. f \in [1 .. 0 -> s]
      OBVIOUS
    <3>2. \A c, d \in 1 .. 0 : c < d => f[c] < f[d]
      OBVIOUS
    <3> HIDE DEF f
    <3> QED
      BY <3>1, <3>2
  <2> QED
    BY <2>1
<1>3. ASSUME NEW n \in Nat, n \in T PROVE n + 1 \in T
  <2>1. ASSUME NEW s \in SUBSET S, Cardinality(s) = n + 1
        PROVE  Listed(s, n + 1)
    <3>1. s # {} /\ s \in SUBSET Nat
      BY <2>1, FS_EmptySet
    <3>2. PICK x \in s : \A y \in s : x <= y
      BY <3>1, LeastNatural
    <3> DEFINE r == s \ {x}
    <3>3. Cardinality(r) = n
      <4>1. Cardinality(s \ {x}) = Cardinality(s) - 1
        BY <1>1, FS_RemoveElement
      <4> QED
        BY <4>1, <2>1
    <3>4. r \in SUBSET S
      OBVIOUS
    <3>5. PICK f \in [1 .. n -> r] : \A c, d \in 1 .. n : c < d => f[c] < f[d]
      <4>1. Listed(r, n)
        BY <1>3, <3>3, <3>4
      <4> QED
        BY <4>1
    <3> DEFINE g == [c \in 1 .. n + 1 |-> IF c = 1 THEN x ELSE f[c - 1]]
    <3>6. ASSUME NEW c \in 1 .. n + 1, c # 1
          PROVE  /\ c - 1 \in 1 .. n /\ g[c] = f[c - 1]
                 /\ g[c] \in s /\ g[c] # x
      <4>1. c - 1 \in 1 .. n
        BY <3>6
      <4>2. g[c] = f[c - 1]
        BY <3>6
      <4> QED
        BY <4>1, <4>2
    <3>7. g[1] = x
      OBVIOUS
    <3>8. g \in [1 .. n + 1 -> s]
      <4>1. \A c \in 1 .. n + 1 : g[c] \in s
        BY <3>6, <3>7
      <4> QED
        BY <4>1
    <3> HIDE DEF g
    <3>9. ASSUME NEW c \in 1 .. n + 1, NEW d \in 1 .. n + 1, c < d
          PROVE  g[c] < g[d]
      <4>1. d # 1
        BY <3>9
      <4>2. CASE c = 1
        <5>1. g[d] \in s /\ g[d] # x
          BY <4>1, <3>6
        <5>2. x <= g[d] /\ g[d] \in Nat /\ x \in Nat
          BY <5>1, <3>1, <3>2
        <5> QED
          BY <4>2, <5>1, <5>2, <3>7
      <4>3. CASE c # 1
        <5>1. c - 1 < d - 1
          BY <3>9
        <5> QED
          BY <4>1, <4>3, <5>1, <3>5, <3>6
      <4> QED
        BY <4>2, <4>3
    <3> QED
      BY <3>8, <3>9
  <2> QED
    BY <2>1
<1> HIDE DEF T
<1>4. \A n \in Nat : n \in T
  BY <1>2, <1>3, AllNaturals
<1>5. Cardinality(S) \in T
  BY <1>4, FS_CardinalityType
<1> QED
  BY <1>5 DEF T

(* Such a list misses no element.                                           *)
LEMMA EnumerationIsOnto ==
    ASSUME NEW S \in SUBSET Nat, IsFiniteSet(S),
           NEW f \in [1 .. Cardinality(S) -> S],
           \A c, d \in 1 .. Cardinality(S) : c < d => f[c] < f[d]
    PROVE  \A e \in S : \E c \in 1 .. Cardinality(S) : f[c] = e
<1> DEFINE n == Cardinality(S)
<1>1. n \in Nat
  BY FS_CardinalityType
<1> HIDE DEF n
<1>2. ASSUME NEW c \in 1 .. n, NEW d \in 1 .. n, f[c] = f[d]
      PROVE  c = d
  <2>1. f[c] \in Nat /\ f[d] \in Nat
    BY DEF n
  <2>2. ~(c < d) /\ ~(d < c)
    BY <1>2, <2>1 DEF n
  <2> QED
    BY <2>2, <1>1
<1>3. f \in Injection(1 .. n, S)
  BY <1>2 DEF n, Injection, IsInjective
<1>4. Cardinality(1 .. n) = n
  BY <1>1, FS_Interval
<1>5. f \in Surjection(1 .. n, S)
  BY <1>3, <1>4, FS_Injection DEF n
<1> QED
  BY <1>5 DEF n, Surjection

(* Sets whose elements correspond have the same size.                       *)
LEMMA SameSize ==
    ASSUME NEW S, IsFiniteSet(S), NEW T, NEW f \in [S -> T],
           \A c, d \in S : f[c] = f[d] => c = d,
           \A e \in T : \E c \in S : f[c] = e
    PROVE  IsFiniteSet(T) /\ Cardinality(T) = Cardinality(S)
<1>1. f \in Bijection(S, T)
  BY DEF Bijection, Injection, Surjection, IsInjective
<1>2. ExistsBijection(S, T)
  BY <1>1 DEF ExistsBijection
<1> QED
  BY <1>2, FS_Bijection

(* In every place of such a list there is the element that has as many      *)
(* smaller ones as there are places before it.                              *)
LEMMA Ranks ==
    ASSUME NEW S \in SUBSET Nat, IsFiniteSet(S), NEW c \in 1 .. Cardinality(S)
    PROVE  \E e \in S : Cardinality({d \in S : d < e}) = c - 1
<1> DEFINE n == Cardinality(S)
<1>1. n \in Nat
  BY FS_CardinalityType
<1> HIDE DEF n
<1>2. PICK f \in [1 .. n -> S] : \A a, b \in 1 .. n : a < b => f[a] < f[b]
  BY Enumeration DEF n
<1>3. \A e \in S : \E a \in 1 .. n : f[a] = e
  BY <1>2, EnumerationIsOnto DEF n
<1>4. c \in 1 .. n /\ c - 1 \in Nat
  BY <1>1 DEF n
<1> DEFINE D == 1 .. c - 1
           T == {d \in S : d < f[c]}
           g == [a \in D |-> f[a]]
<1>5. \A a \in D : a \in 1 .. n /\ a < c
  BY <1>1, <1>4
<1>6. g \in [D -> T]
  BY <1>2, <1>4, <1>5
<1>7. \A a, b \in 1 .. n : f[a] = f[b] => a = b
  <2> TAKE a, b \in 1 .. n
  <2>1. f[a] \in Nat /\ f[b] \in Nat
    BY <1>2
  <2> QED
    BY <2>1, <1>2
<1>8. \A a, b \in D : g[a] = g[b] => a = b
  BY <1>5, <1>7
<1>9. ASSUME NEW e \in T PROVE \E a \in D : g[a] = e
  <2>1. PICK a \in 1 .. n : f[a] = e
    BY <1>3
  <2>2. e \in Nat /\ f[c] \in Nat /\ e < f[c]
    BY <1>2, <1>4
  <2>3. ~(c < a) /\ a # c
    BY <2>1, <2>2, <1>2, <1>4
  <2>4. a \in D
    BY <2>3, <1>4
  <2> QED
    BY <2>1, <2>4
<1>10. IsFiniteSet(D) /\ Cardinality(D) = c - 1
  BY <1>4, FS_Interval
<1> HIDE DEF g, D
<1>11. Cardinality(T) = c - 1
  BY <1>6, <1>8, <1>9, <1>10, SameSize
<1> QED
  BY <1>2, <1>4, <1>11
-----------------------------------------------------------------------------
(* What is left of a list without one of its elements.                      *)
LEMMA RemoveAtKeeps ==
    ASSUME NEW S, NEW s \in Seq(S), NEW i \in 1 .. Len(s)
    PROVE  /\ RemoveAt(s, i) \in Seq(S)
           /\ Len(RemoveAt(s, i)) = Len(s) - 1
           /\ \A k \in 1 .. Len(s) - 1 :
                 RemoveAt(s, i)[k] = IF k < i THEN s[k] ELSE s[k + 1]
<1> DEFINE a == SubSeq(s, 1, i - 1)
           b == SubSeq(s, i + 1, Len(s))
<1>1. /\ a \in Seq(S) /\ Len(a) = i - 1
      /\ \A k \in 1 .. i - 1 : a[k] = s[k]
  BY SubSeqProperties
<1>2. /\ b \in Seq(S) /\ Len(b) = Len(s) - i
      /\ \A k \in 1 .. Len(s) - i : b[k] = s[k + i]
  BY SubSeqProperties
<1> HIDE DEF a, b
<1>3. /\ a \o b \in Seq(S)
      /\ Len(a \o b) = Len(a) + Len(b)
      /\ \A k \in 1 .. Len(a) + Len(b) :
            (a \o b)[k] = IF k <= Len(a) THEN a[k] ELSE b[k - Len(a)]
  BY <1>1, <1>2, ConcatProperties
<1>4. \A k \in 1 .. Len(s) - 1 : (a \o b)[k] = IF k < i THEN s[k] ELSE s[k + 1]
  <2> TAKE k \in 1 .. Len(s) - 1
  <2>1. CASE k < i
    BY <2>1, <1>1, <1>2, <1>3
  <2>2. CASE ~(k < i)
    <3>1. b[k - Len(a)] = s[(k - Len(a)) + i]
      BY <2>2, <1>1, <1>2
    <3>2. (k - Len(a)) + i = k + 1
      BY <1>1
    <3> QED
      BY <2>2, <3>1, <3>2, <1>1, <1>2, <1>3
  <2> QED
    BY <2>1, <2>2
<1>5. /\ a \o b \in Seq(S)
      /\ Len(a \o b) = Len(s) - 1
  BY <1>1, <1>2, <1>3
<1>6. RemoveAt(s, i) = a \o b
  BY DEF RemoveAt, a, b
<1> QED
  BY <1>4, <1>5, <1>6, Zenon

LEMMA RemoveAtLeaves ==
    ASSUME NEW S, NEW s \in Seq(S), NEW i \in 1 .. Len(s), NEW m \in 1 .. Len(s), m # i
    PROVE  \E k \in DOMAIN RemoveAt(s, i) : RemoveAt(s, i)[k] = s[m]
<1> DEFINE r == RemoveAt(s, i)
<1>1. /\ r \in Seq(S) /\ Len(r) = Len(s) - 1
      /\ \A k \in 1 .. Len(s) - 1 : r[k] = IF k < i THEN s[k] ELSE s[k + 1]
  BY RemoveAtKeeps
<1> HIDE DEF r
<1>2. CASE m < i
  <2>1. m \in DOMAIN r /\ r[m] = s[m]
    BY <1>1, <1>2
  <2> QED
    BY <2>1 DEF r
<1>3. CASE m > i
  <2>1. m - 1 \in DOMAIN r /\ r[m - 1] = s[m]
    BY <1>1, <1>3
  <2> QED
    BY <2>1 DEF r
<1> QED
  BY <1>2, <1>3

(* A list of the same length is a list.                                     *)
LEMMA SameLength ==
    ASSUME NEW S, NEW T, NEW s \in Seq(S), NEW f \in [DOMAIN s -> T]
    PROVE  f \in Seq(T) /\ DOMAIN f = DOMAIN s
  OBVIOUS
-----------------------------------------------------------------------------
(* Remainders.                                                              *)
LEMMA Digits ==
    ASSUME NEW n \in Nat, NEW r \in Nat, r < n, NEW q \in Nat
    PROVE  (r + q * n) % n = r /\ (r + q * n) \div n = q
<1>1. (r + q * n) % n = r
  BY Z3T(30)
<1>2. (r + q * n) \div n = q
  BY Z3T(30)
<1> QED
  BY <1>1, <1>2

(* A number that fits is its own remainder.                                 *)
LEMMA Fits ==
    ASSUME NEW n \in Nat, NEW r \in Nat, r < n
    PROVE  r % n = r
<1>1. (r + 0 * n) % n = r /\ r + 0 * n = r
  BY Digits
<1> QED
  BY <1>1

(* A remainder fits, and is what is left of whole wraps.                    *)
LEMMA Remainder ==
    ASSUME NEW n \in Nat \ {0}, NEW a \in Nat
    PROVE  /\ a % n \in 0 .. n - 1
           /\ \E q \in Nat : a = (a % n) + q * n
<1>1. a % n \in Nat /\ a % n < n
  BY Z3T(30)
<1>2. a \div n \in Nat /\ a = (a % n) + (a \div n) * n
  BY Z3T(30)
<1>3. \E q \in Nat : a = (a % n) + q * n
  BY <1>2, Zenon
<1> DEFINE r == a % n
<1> HIDE DEF r
<1>4. r \in 0 .. n - 1
  BY <1>1 DEF r
<1> QED
  BY <1>3, <1>4, Zenon DEF r

(* A sum may be wrapped before it is complete.                              *)
LEMMA WrapEarly ==
    ASSUME NEW n \in Nat \ {0}, NEW a \in Nat, NEW b \in Nat
    PROVE  ((a % n) + b) % n = (a + b) % n
<1>1. PICK q \in Nat : a = (a % n) + q * n
  BY Remainder
<1>2. a % n \in Nat
  BY Remainder
<1> DEFINE m == a % n
           c == m + b
<1>3. PICK k \in Nat : c = (c % n) + k * n
  <2>1. c \in Nat
    BY <1>2
  <2> HIDE DEF c
  <2> QED
    BY <2>1, Remainder, Zenon
<1> DEFINE r == c % n
<1>4. r \in Nat /\ r < n
  BY <1>2, Remainder
<1>5. a + b = r + (q + k) * n
  <2>1. a = m + q * n /\ c = m + b /\ c = r + k * n
    BY <1>1, <1>3
  <2> HIDE DEF m, c, r
  <2>2. (q + k) * n = q * n + k * n /\ q * n \in Nat /\ k * n \in Nat
    BY Z3
  <2>3. m \in Nat
    BY <1>2 DEF m
  <2> QED
    BY <2>1, <2>2, <2>3, <1>4
<1> HIDE DEF m, c, r
<1>6. (r + (q + k) * n) % n = r
  BY <1>4, Digits
<1> QED
  BY <1>5, <1>6 DEF r, c, m
-----------------------------------------------------------------------------
(* What the fold of a sum computes, said of a function.                     *)
Chosen(s) == CHOOSE x \in s : TRUE
IsSum(g, f, S) ==
    g = [s \in SUBSET S |-> IF s = {} THEN 0 ELSE f[Chosen(s)] + g[s \ {Chosen(s)}]]
SumBy(f, S) == CHOOSE g : IsSum(g, f, S)
SumOf(f, S) == SumBy(f, S)[S]

LEMMA SumIsFold ==
    ASSUME NEW f, NEW S
    PROVE  MapThenSumSet(LAMBDA p : f[p], S) = SumOf(f, S)
  BY DEF MapThenSumSet, MapThenFoldSet, SumOf, SumBy, IsSum, Chosen

LEMMA ChosenIsIn == \A s : s # {} => Chosen(s) \in s
  BY DEF Chosen

(* There is such a function: by induction on the size up to which it sums.  *)
LEMMA SumExists ==
    ASSUME NEW S, IsFiniteSet(S), NEW f, \A x \in S : f[x] \in Nat
    PROVE  \E g \in [SUBSET S -> Nat] : IsSum(g, f, S)
<1> DEFINE next(g, s) == IF s = {} THEN 0 ELSE f[Chosen(s)] + g[s \ {Chosen(s)}]
           UpTo(n) == {g \in [SUBSET S -> Nat] :
                         \A s \in SUBSET S : Cardinality(s) < n => g[s] = next(g, s)}
           T == {n \in Nat : UpTo(n) # {}}
<1>1. \A s \in SUBSET S : IsFiniteSet(s) /\ Cardinality(s) \in Nat
  BY FS_Subset, FS_CardinalityType
<1>2. 0 \in T
  <2>1. [s \in SUBSET S |-> 0] \in UpTo(0)
    BY <1>1
  <2> QED
    BY <2>1
<1>3. ASSUME NEW n \in Nat, n \in T PROVE n + 1 \in T
  <2>1. PICK g \in [SUBSET S -> Nat] :
          \A s \in SUBSET S : Cardinality(s) < n => g[s] = next(g, s)
    BY <1>3
  <2> DEFINE h == [s \in SUBSET S |-> next(g, s)]
  <2>2. \A s \in SUBSET S : next(g, s) \in Nat
    BY ChosenIsIn
  <2>3. h \in [SUBSET S -> Nat]
    BY <2>2
  <2>4. ASSUME NEW s \in SUBSET S, Cardinality(s) < n + 1
        PROVE  h[s] = next(h, s)
    <3>1. CASE s = {}
      BY <3>1
    <3>2. CASE s # {}
      <4> DEFINE x == Chosen(s)
                 r == s \ {x}
      <4>1. x \in s /\ r \in SUBSET S
        BY <3>2, ChosenIsIn
      <4>2. Cardinality(r) = Cardinality(s) - 1
        BY <4>1, <1>1, FS_RemoveElement
      <4>3. Cardinality(r) < n
        BY <4>2, <2>4, <1>1
      <4>4. g[r] = next(g, r)
        BY <2>1, <4>1, <4>3
      <4>5. h[r] = next(g, r)
        BY <4>1
      <4> HIDE DEF r, x
      <4>6. h[s] = f[x] + g[r]
        BY <3>2 DEF r, x
      <4>7. next(h, s) = f[x] + h[r]
        BY <3>2 DEF r, x
      <4> QED
        BY <4>4, <4>5, <4>6, <4>7
    <3> QED
      BY <3>1, <3>2
  <2> HIDE DEF h, next
  <2>5. h \in UpTo(n + 1)
    BY <2>3, <2>4
  <2> QED
    BY <2>5
<1> HIDE DEF T
<1>4. \A n \in Nat : n \in T
  BY <1>2, <1>3, AllNaturals
<1>5. PICK g \in [SUBSET S -> Nat] :
        \A s \in SUBSET S : Cardinality(s) < Cardinality(S) + 1 => g[s] = next(g, s)
  <2>1. Cardinality(S) + 1 \in T
    BY <1>4, FS_CardinalityType
  <2> QED
    BY <2>1 DEF T
<1>6. \A s \in SUBSET S : Cardinality(s) < Cardinality(S) + 1
  BY FS_Subset, FS_CardinalityType
<1>7. \A s \in SUBSET S : g[s] = next(g, s)
  BY <1>5, <1>6
<1>8. g = [s \in SUBSET S |-> g[s]]
  OBVIOUS
<1>9. IsSum(g, f, S)
  BY <1>7, <1>8 DEF IsSum
<1> QED
  BY <1>9

(* The sum of a set is that of a function on all its subsets.               *)
LEMMA SumByIsSum ==
    ASSUME NEW S, IsFiniteSet(S), NEW f, \A x \in S : f[x] \in Nat
    PROVE  \A s \in SUBSET S :
              SumBy(f, S)[s] = IF s = {} THEN 0
                               ELSE f[Chosen(s)] + SumBy(f, S)[s \ {Chosen(s)}]
<1>1. \E g \in [SUBSET S -> Nat] : IsSum(g, f, S)
  BY SumExists
<1>2. IsSum(SumBy(f, S), f, S)
  BY <1>1 DEF SumBy
<1> DEFINE g == SumBy(f, S)
<1>3. g = [s \in SUBSET S |-> IF s = {} THEN 0 ELSE f[Chosen(s)] + g[s \ {Chosen(s)}]]
  BY <1>2 DEF IsSum
<1> HIDE DEF g
<1>4. \A s \in SUBSET S : g[s] = IF s = {} THEN 0 ELSE f[Chosen(s)] + g[s \ {Chosen(s)}]
  BY <1>3
<1> QED
  BY <1>4 DEF g

(* Two functions that are equal on a set have the same sum there, whatever  *)
(* else they sum.                                                           *)
LEMMA SumsAgree ==
    ASSUME NEW S, IsFiniteSet(S), NEW f, \A x \in S : f[x] \in Nat,
           NEW R, IsFiniteSet(R), NEW e, \A x \in R : e[x] \in Nat,
           NEW s \in SUBSET S, s \subseteq R, \A x \in s : f[x] = e[x]
    PROVE  SumBy(f, S)[s] = SumBy(e, R)[s]
<1> DEFINE Same(n) == \A r \in SUBSET s :
                         Cardinality(r) = n => SumBy(f, S)[r] = SumBy(e, R)[r]
           T == {n \in Nat : Same(n)}
<1>1. \A r \in SUBSET s : IsFiniteSet(r) /\ Cardinality(r) \in Nat
  BY FS_Subset, FS_CardinalityType
<1>2. ASSUME NEW r \in SUBSET s
      PROVE  /\ SumBy(f, S)[r] = IF r = {} THEN 0
                                 ELSE f[Chosen(r)] + SumBy(f, S)[r \ {Chosen(r)}]
             /\ SumBy(e, R)[r] = IF r = {} THEN 0
                                 ELSE e[Chosen(r)] + SumBy(e, R)[r \ {Chosen(r)}]
  <2>1. r \in SUBSET S /\ r \in SUBSET R
    OBVIOUS
  <2>2. SumBy(f, S)[r] = IF r = {} THEN 0
                         ELSE f[Chosen(r)] + SumBy(f, S)[r \ {Chosen(r)}]
    BY <2>1, SumByIsSum, Zenon
  <2>3. SumBy(e, R)[r] = IF r = {} THEN 0
                         ELSE e[Chosen(r)] + SumBy(e, R)[r \ {Chosen(r)}]
    BY <2>1, SumByIsSum, Zenon
  <2> QED
    BY <2>2, <2>3, Zenon
<1>3. 0 \in T
  <2>1. \A r \in SUBSET s : Cardinality(r) = 0 => r = {}
    BY <1>1, FS_EmptySet
  <2> QED
    BY <2>1, <1>2
<1>4. ASSUME NEW n \in Nat, n \in T PROVE n + 1 \in T
  <2>1. ASSUME NEW r \in SUBSET s, Cardinality(r) = n + 1
        PROVE  SumBy(f, S)[r] = SumBy(e, R)[r]
    <3>1. r # {}
      BY <2>1, FS_EmptySet
    <3>2. Chosen(r) \in r /\ r \ {Chosen(r)} \in SUBSET s
      BY <3>1, ChosenIsIn
    <3>3. Cardinality(r \ {Chosen(r)}) = n
      BY <2>1, <3>2, <1>1, FS_RemoveElement
    <3>4. SumBy(f, S)[r \ {Chosen(r)}] = SumBy(e, R)[r \ {Chosen(r)}]
      BY <3>2, <3>3, <1>4
    <3>5. f[Chosen(r)] = e[Chosen(r)]
      BY <3>2
    <3> QED
      BY <3>1, <3>4, <3>5, <1>2
  <2> QED
    BY <2>1
<1> HIDE DEF T
<1>5. \A n \in Nat : n \in T
  BY <1>3, <1>4, AllNaturals
<1>6. Cardinality(s) \in T
  BY <1>1, <1>5
<1> QED
  BY <1>6 DEF T

(* The sum of a set, one chosen element at a time, ...                      *)
LEMMA SumOfStep ==
    ASSUME NEW S, IsFiniteSet(S), NEW f, \A x \in S : f[x] \in Nat
    PROVE  SumOf(f, S) = IF S = {} THEN 0 ELSE f[Chosen(S)] + SumOf(f, S \ {Chosen(S)})
<1> DEFINE R == S \ {Chosen(S)}
<1>1. SumBy(f, S)[S] = IF S = {} THEN 0 ELSE f[Chosen(S)] + SumBy(f, S)[R]
  BY SumByIsSum
<1>2. R \subseteq S /\ R \subseteq R /\ IsFiniteSet(R)
  BY FS_Subset
<1>3. SumBy(f, S)[R] = SumBy(f, R)[R]
  BY <1>2, SumsAgree
<1> HIDE DEF R
<1>4. SumOf(f, S) = IF S = {} THEN 0 ELSE f[Chosen(S)] + SumOf(f, R)
  BY <1>1, <1>3 DEF SumOf
<1> QED
  BY <1>4 DEF R

(* is a number, ...                                                         *)
LEMMA SumOfType ==
    ASSUME NEW S, IsFiniteSet(S), NEW f, \A x \in S : f[x] \in Nat
    PROVE  SumOf(f, S) \in Nat
<1> DEFINE h == SumBy(f, S)
           T == {n \in Nat : \A s \in SUBSET S : Cardinality(s) = n => h[s] \in Nat}
<1>3. \A s \in SUBSET S : h[s] = IF s = {} THEN 0 ELSE f[Chosen(s)] + h[s \ {Chosen(s)}]
  BY SumByIsSum
<1>4. \A s \in SUBSET S : IsFiniteSet(s) /\ Cardinality(s) \in Nat
  BY FS_Subset, FS_CardinalityType
<1> HIDE DEF h
<1>5. 0 \in T
  <2>1. \A s \in SUBSET S : Cardinality(s) = 0 => s = {}
    BY <1>4, FS_EmptySet
  <2>2. \A s \in SUBSET S : Cardinality(s) = 0 => h[s] = 0
    BY <2>1, <1>3
  <2> QED
    BY <2>2
<1>6. ASSUME NEW n \in Nat, n \in T PROVE n + 1 \in T
  <2>1. ASSUME NEW s \in SUBSET S, Cardinality(s) = n + 1 PROVE h[s] \in Nat
    <3>1. s # {}
      BY <2>1, FS_EmptySet
    <3>2. Chosen(s) \in s /\ s \ {Chosen(s)} \in SUBSET S
      BY <3>1, ChosenIsIn
    <3>3. Cardinality(s \ {Chosen(s)}) = n
      <4>1. \A y \in s : Cardinality(s \ {y}) = Cardinality(s) - 1
        BY <1>4, FS_RemoveElement
      <4>2. Cardinality(s \ {Chosen(s)}) = Cardinality(s) - 1
        BY <4>1, <3>2
      <4> QED
        BY <4>2, <2>1
    <3>4. h[s \ {Chosen(s)}] \in Nat /\ f[Chosen(s)] \in Nat
      BY <3>2, <3>3, <1>6
    <3>5. h[s] = f[Chosen(s)] + h[s \ {Chosen(s)}]
      BY <3>1, <1>3
    <3> QED
      BY <3>4, <3>5
  <2> QED
    BY <2>1
<1> HIDE DEF T
<1>7. \A n \in Nat : n \in T
  BY <1>5, <1>6, AllNaturals
<1>8. Cardinality(S) \in T
  BY <1>7, FS_CardinalityType
<1> QED
  BY <1>8 DEF T, SumOf, h

(* and does not depend on which element is taken first.                     *)
LEMMA SumOfRemove ==
    ASSUME NEW S, IsFiniteSet(S), NEW f, \A x \in S : f[x] \in Nat, NEW p \in S
    PROVE  SumOf(f, S) = f[p] + SumOf(f, S \ {p})
<1> DEFINE Removes(s) == \A q \in s : SumOf(f, s) = f[q] + SumOf(f, s \ {q})
           T == {n \in Nat : \A s \in SUBSET S : Cardinality(s) = n => Removes(s)}
<1>1. \A s \in SUBSET S : /\ IsFiniteSet(s) /\ Cardinality(s) \in Nat
                          /\ \A x \in s : f[x] \in Nat
  BY FS_Subset, FS_CardinalityType
<1>2. \A s \in SUBSET S : SumOf(f, s) = IF s = {} THEN 0
                                         ELSE f[Chosen(s)] + SumOf(f, s \ {Chosen(s)})
  BY <1>1, SumOfStep
<1>3. \A s \in SUBSET S : SumOf(f, s) \in Nat
  BY <1>1, SumOfType
<1>4. 0 \in T
  <2>1. \A s \in SUBSET S : Cardinality(s) = 0 => s = {}
    BY <1>1, FS_EmptySet
  <2> QED
    BY <2>1
<1>5. ASSUME NEW n \in Nat, n \in T PROVE n + 1 \in T
  <2>1. ASSUME NEW s \in SUBSET S, Cardinality(s) = n + 1, NEW q \in s
        PROVE  SumOf(f, s) = f[q] + SumOf(f, s \ {q})
    <3> DEFINE x == Chosen(s)
               without(y) == s \ {y}
               both == (s \ {x}) \ {q}
    <3>1. x \in s
      BY ChosenIsIn
    <3>2. SumOf(f, s) = f[x] + SumOf(f, without(x))
      BY <1>2
    <3>3. CASE q = x
      BY <3>2, <3>3
    <3>4. CASE q # x
      <4>1. /\ without(x) \in SUBSET S /\ without(q) \in SUBSET S /\ both \in SUBSET S
            /\ q \in without(x) /\ x \in without(q)
            /\ without(x) \ {q} = both /\ without(q) \ {x} = both
        BY <3>1, <3>4
      <4>2. Cardinality(without(x)) = n /\ Cardinality(without(q)) = n
        <5>1. \A y \in s : Cardinality(s \ {y}) = Cardinality(s) - 1
          BY <1>1, FS_RemoveElement
        <5>2. \A y \in s : Cardinality(s \ {y}) = n
          BY <5>1, <2>1
        <5> QED
          BY <5>2, <3>1
      <4>3. SumOf(f, without(x)) = f[q] + SumOf(f, both)
        BY <1>5, <4>1, <4>2
      <4>4. SumOf(f, without(q)) = f[x] + SumOf(f, both)
        BY <1>5, <4>1, <4>2
      <4>5. f[x] \in Nat /\ f[q] \in Nat /\ SumOf(f, both) \in Nat
        BY <1>3, <3>1, <4>1
      <4> HIDE DEF x, both, without
      <4> QED
        <5>1. SumOf(f, s) = f[q] + SumOf(f, without(q))
          BY <3>2, <4>3, <4>4, <4>5
        <5> QED
          BY <5>1 DEF without
    <3> QED
      BY <3>3, <3>4
  <2> QED
    BY <2>1
<1> HIDE DEF T
<1>6. \A n \in Nat : n \in T
  BY <1>4, <1>5, AllNaturals
<1>7. Cardinality(S) \in T
  BY <1>6, FS_CardinalityType
<1> QED
  BY <1>7 DEF T

(* It depends on what is summed only.                                       *)
LEMMA SumOfSame ==
    ASSUME NEW S, IsFiniteSet(S), NEW f, \A x \in S : f[x] \in Nat,
           NEW e, \A x \in S : f[x] = e[x]
    PROVE  SumOf(f, S) = SumOf(e, S)
<1>1. \A x \in S : e[x] \in Nat
  OBVIOUS
<1> QED
  BY <1>1, SumsAgree DEF SumOf
=============================================================================
