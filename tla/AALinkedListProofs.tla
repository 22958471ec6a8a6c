------------------------- MODULE AALinkedListProofs -------------------------
(***************************************************************************)
(* The pointers make a list.  The proof names the list that they stand for: *)
(* a sequence of nodes, of which the head is the first, the links lead to   *)
(* the neighbours, and the keys increase.  An addition puts a node into     *)
(* this sequence and a deletion takes one out, wherever it is; what the     *)
(* loops visit from the head is the sequence.                               *)
(***************************************************************************)
EXTENDS AALinkedList, AALemmas

Linked(s) ==
    /\ s \in Seq(Node)
    /\ \A i, j \in DOMAIN s : s[i] = s[j] => i = j
    /\ head = IF Len(s) = 0 THEN NULL ELSE s[1]
    /\ \A i \in DOMAIN s :
          /\ next[s[i]] = IF i = Len(s) THEN NULL ELSE s[i + 1]
          /\ prev[s[i]] = IF i = 1 THEN NULL ELSE s[i - 1]

Holds(s) ==
    /\ allocated = {s[i] : i \in DOMAIN s}
    /\ count = Len(s) /\ Len(s) <= MaxCount

Ordered(s) ==
    /\ \A i \in DOMAIN s : key[s[i]] \in Key
    /\ \A i, j \in DOMAIN s : i < j => Less(key[s[i]], key[s[j]])

Lists(s) == Linked(s) /\ Holds(s) /\ Ordered(s)

FieldsTyped ==
    /\ next \in [Node -> Node \cup {NULL}]
    /\ prev \in [Node -> Node \cup {NULL}]
    /\ key \in [Node -> Key \cup {First}]

(* The walk: what it has got is behind it, and what is there all the time   *)
(* is in the list, and before it unless it has got it.                      *)
WalkInv ==
    /\ walk \in [at : Key \cup {First}, seen : SUBSET Key, present : SUBSET Key,
                 again : BOOLEAN]
    /\ \A k \in walk.seen : k = walk.at \/ Less(k, walk.at)
    /\ \A k \in walk.present : /\ \E n \in allocated : k = key[n]
                               /\ Less(walk.at, k) \/ k \in walk.seen
    /\ NextIsStrict => ~walk.again

IsList == \E s \in Seq(Node) : Lists(s)

ListInv == FieldsTyped /\ IsList /\ WalkInv
-----------------------------------------------------------------------------
(* The order of the keys.                                                   *)
Triple == Nat \X Nat \X Nat

LEMMA LessByParts ==
    ASSUME NEW a, NEW b
    PROVE  Less(a, b) <=> \/ a[1] < b[1]
                          \/ a[1] = b[1] /\ a[2] < b[2]
                          \/ a[1] = b[1] /\ a[2] = b[2] /\ a[3] < b[3]
<1>1. 1 .. 1 - 1 = {} /\ 1 .. 2 - 1 = {1} /\ 1 .. 3 - 1 = {1, 2} /\ 1 .. 3 = {1, 2, 3}
  OBVIOUS
<1>2. Less(a, b) <=> \E f \in {1, 2, 3} :
                        a[f] < b[f] /\ \A g \in 1 .. f - 1 : a[g] = b[g]
  BY <1>1 DEF Less
<1> QED
  BY <1>1, <1>2

LEMMA LessOrders ==
    /\ \A a \in Triple : ~Less(a, a)
    /\ \A a, b, c \in Triple : Less(a, b) /\ Less(b, c) => Less(a, c)
    /\ \A a, b \in Triple : a = b \/ Less(a, b) \/ Less(b, a)
<1>1. \A a \in Triple : a[1] \in Nat /\ a[2] \in Nat /\ a[3] \in Nat
  BY DEF Triple
<1>2. \A a, b \in Triple : a[1] = b[1] /\ a[2] = b[2] /\ a[3] = b[3] => a = b
  BY DEF Triple
<1>3. \A a \in Triple : ~Less(a, a)
  BY <1>1, LessByParts
<1>4. \A a, b, c \in Triple : Less(a, b) /\ Less(b, c) => Less(a, c)
  BY <1>1, LessByParts
<1>5. \A a, b \in Triple : a = b \/ Less(a, b) \/ Less(b, a)
  BY <1>1, <1>2, LessByParts
<1> QED
  BY <1>3, <1>4, <1>5

LEMMA KeysAreOrdered ==
    /\ Key \cup {First} \subseteq Triple
    /\ \A k \in Key : Less(First, k)
<1>1. Key \cup {First} \subseteq Triple
  BY KeyAssumption DEF KeyAssumption, Triple, First
<1>2. ASSUME NEW k \in Key PROVE Less(First, k)
  <2>1. k[1] \in Nat \ {0} /\ First[1] = 0
    BY KeyAssumption DEF KeyAssumption, First
  <2> QED
    BY <2>1, LessByParts
<1> QED
  BY <1>1, <1>2
-----------------------------------------------------------------------------
(* What the loops visit.                                                    *)
LEMMA FewerThanNodes ==
    ASSUME NEW s \in Seq(Node), \A i, j \in DOMAIN s : s[i] = s[j] => i = j
    PROVE  /\ Cardinality(Node) \in Nat /\ Len(s) <= Cardinality(Node)
           /\ Cardinality({s[i] : i \in DOMAIN s}) = Len(s)
<1> DEFINE D == 1 .. Len(s)
           R == {s[i] : i \in DOMAIN s}
<1>1. IsFiniteSet(D) /\ Cardinality(D) = Len(s)
  <2> DEFINE l == Len(s)
  <2>1. 1 \in Int /\ l \in Int /\ (1 > l => l = 0)
    OBVIOUS
  <2> HIDE DEF l
  <2>2. IsFiniteSet(1 .. l) /\ Cardinality(1 .. l) = IF 1 > l THEN 0 ELSE l - 1 + 1
    BY <2>1, FS_Interval
  <2> QED
    BY <2>1, <2>2 DEF l
<1>2. s \in Injection(D, R) /\ s \in Surjection(D, R)
  BY DEF Injection, Surjection, IsInjective
<1>3. Cardinality(R) = Len(s) /\ R \in SUBSET Node
  BY <1>1, <1>2, FS_Surjection
<1> QED
  BY <1>3, ListAssumption, FS_CardinalityType, FS_Subset DEF ListAssumption

LEMMA NodesBound ==
    ASSUME NEW s, Linked(s)
    PROVE  /\ Cardinality(Node) \in Nat /\ Len(s) \in Nat /\ Len(s) <= Cardinality(Node)
           /\ Cardinality({s[i] : i \in DOMAIN s}) = Len(s)
<1>1. s \in Seq(Node) /\ \A i, j \in DOMAIN s : s[i] = s[j] => i = j
  BY DEF Linked
<1> QED
  BY <1>1, FewerThanNodes

LEMMA VisitIs ==
    ASSUME FieldsTyped, NEW s, Linked(s)
    PROVE  \A m \in 0 .. Cardinality(Node) : Visit[m] = IF m < Len(s) THEN s[m + 1] ELSE NULL
<1> DEFINE N == Cardinality(Node)
           f == [m \in 0 .. N |-> IF m < Len(s) THEN s[m + 1] ELSE NULL]
           Visits(at) == at = [m \in 0 .. N |->
                                 IF m = 0 THEN head
                                 ELSE IF at[m - 1] = NULL THEN NULL ELSE next[at[m - 1]]]
<1>1. N \in Nat
  BY NodesBound
<1>2. Visits(f)
  <2>1. ASSUME NEW m \in 0 .. N
        PROVE  f[m] = IF m = 0 THEN head
                      ELSE IF f[m - 1] = NULL THEN NULL ELSE next[f[m - 1]]
    <3>1. CASE m = 0
      BY <3>1, <1>1 DEF Linked
    <3>2. CASE m # 0 /\ m - 1 < Len(s)
      <4>1. m \in DOMAIN s /\ f[m - 1] = s[m]
        BY <3>2, <1>1 DEF Linked
      <4>2. f[m - 1] # NULL
        BY <4>1, ListAssumption DEF ListAssumption, Linked
      <4>3. next[s[m]] = IF m = Len(s) THEN NULL ELSE s[m + 1]
        BY <4>1 DEF Linked
      <4>4. f[m] = IF m = Len(s) THEN NULL ELSE s[m + 1]
        BY <3>2, <4>1 DEF Linked
      <4> HIDE DEF f
      <4> QED
        BY <3>2, <4>1, <4>2, <4>3, <4>4
    <3>3. CASE m # 0 /\ ~(m - 1 < Len(s))
      BY <3>3, <1>1 DEF Linked
    <3> QED
      BY <3>1, <3>2, <3>3
  <2> HIDE DEF N
  <2> QED
    BY <2>1
<1>3. Visits(Visit)
  <2>1. Visit = CHOOSE at : Visits(at)
    BY DEF Visit
  <2> HIDE DEF Visits
  <2> QED
    BY <1>2, <2>1
<1> DEFINE T == {m \in Nat : m <= N => Visit[m] = f[m]}
<1>4. 0 \in T
  <2>1. PICK z \in 0 .. N : z = 0
    BY <1>1
  <2>2. Visit[z] = head
    BY <1>3, <2>1
  <2>3. f[z] = head
    <3> HIDE DEF f
    <3> QED
      BY <1>2, <2>1
  <2> HIDE DEF f
  <2> QED
    BY <2>1, <2>2, <2>3
<1>5. ASSUME NEW m \in Nat, m \in T PROVE m + 1 \in T
  <2> SUFFICES ASSUME m + 1 <= N PROVE Visit[m + 1] = f[m + 1]
    OBVIOUS
  <2>1. Visit[m] = f[m]
    BY <1>1, <1>5
  <2>2. m + 1 \in 0 .. N /\ m + 1 # 0 /\ (m + 1) - 1 = m
    BY <1>1
  <2>3. Visit[m + 1] = IF Visit[m] = NULL THEN NULL ELSE next[Visit[m]]
    BY <1>3, <2>2
  <2>4. f[m + 1] = IF f[m] = NULL THEN NULL ELSE next[f[m]]
    <3> HIDE DEF f
    <3> QED
      BY <1>2, <2>2
  <2> QED
    BY <2>1, <2>3, <2>4
<1> HIDE DEF T
<1>6. \A m \in Nat : m \in T
  BY <1>4, <1>5, AllNaturals
<1>7. \A m \in 0 .. N : Visit[m] = f[m]
  <2> HIDE DEF f
  <2> QED
    BY <1>1, <1>6 DEF T
<1> QED
  BY <1>7

LEMMA ChainIs ==
    ASSUME FieldsTyped, NEW s, Linked(s)
    PROVE  Chain = s
<1> DEFINE N == Cardinality(Node)
           visits == {m \in 1 .. N + 1 : Visit[m - 1] # NULL}
<1>1. N \in Nat /\ Len(s) \in Nat /\ Len(s) <= N
  BY NodesBound
<1>2. \A m \in 1 .. N + 1 : Visit[m - 1] = IF m <= Len(s) THEN s[m] ELSE NULL
  <2> TAKE m \in 1 .. N + 1
  <2>1. m - 1 \in 0 .. N /\ (m - 1) + 1 = m /\ (m - 1 < Len(s) <=> m <= Len(s))
    BY <1>1
  <2> QED
    BY <2>1, VisitIs
<1>3. \A m \in 1 .. Len(s) : s[m] # NULL
  BY ListAssumption DEF ListAssumption, Linked
<1> HIDE DEF N
<1>4. visits = 1 .. Len(s)
  <2>1. \A m \in 1 .. N + 1 : Visit[m - 1] # NULL <=> m \in 1 .. Len(s)
    BY <1>1, <1>2, <1>3
  <2>2. 1 .. Len(s) \subseteq 1 .. N + 1
    BY <1>1
  <2> QED
    BY <2>1, <2>2
<1>5. \A m \in visits : Visit[m - 1] = s[m]
  BY <1>1, <1>2, <1>4
<1>6. Chain = [m \in visits |-> Visit[m - 1]]
  BY DEF Chain, N
<1> HIDE DEF visits
<1>7. Chain = [m \in 1 .. Len(s) |-> s[m]]
  BY <1>4, <1>5, <1>6
<1> QED
  BY <1>7 DEF Linked

(* Where a loop stops.                                                      *)
LEMMA FirstInIs ==
    ASSUME FieldsTyped, NEW s, Linked(s), NEW T
    PROVE  \/ /\ FirstIn(T) = NULL
              /\ \A i \in DOMAIN s : s[i] \notin T
           \/ \E m \in DOMAIN s :
                 /\ FirstIn(T) = s[m] /\ s[m] \in T /\ s[m] # NULL
                 /\ \A i \in DOMAIN s : i < m => s[i] \notin T
<1> DEFINE stops == {m \in DOMAIN s : s[m] \in T}
<1>1. FirstIn(T) = IF stops = {} THEN NULL ELSE s[Min(stops)]
  BY ChainIs DEF FirstIn
<1>2. CASE stops = {}
  BY <1>1, <1>2
<1>3. CASE stops # {}
  <2> DEFINE m == Min(stops)
  <2>1. stops \in SUBSET Nat
    BY DEF Linked
  <2>2. m \in stops /\ \A i \in stops : m <= i
    BY <1>3, <2>1, MinIsLeast
  <2>3. s[m] # NULL
    BY <2>2, ListAssumption DEF ListAssumption, Linked
  <2>4. FirstIn(T) = s[m]
    BY <1>1, <1>3
  <2> HIDE DEF m
  <2>5. \A i \in DOMAIN s : i < m => s[i] \notin T
    BY <2>1, <2>2
  <2> QED
    BY <2>2, <2>3, <2>4, <2>5
<1> QED
  BY <1>2, <1>3

LEMMA FindExactIs ==
    ASSUME FieldsTyped, NEW s, Lists(s), NEW k
    PROVE  \/ FindExact(k) = NULL /\ \A i \in DOMAIN s : key[s[i]] # k
           \/ \E m \in DOMAIN s : FindExact(k) = s[m] /\ key[s[m]] = k /\ s[m] # NULL
<1> DEFINE T == {n \in Node : key[n] = k}
<1>1. \A i \in DOMAIN s : s[i] \in T <=> key[s[i]] = k
  BY DEF Lists, Linked
<1>2. CASE count = 0
  <2>1. FindExact(k) = NULL
    BY <1>2 DEF FindExact
  <2>2. s \in Seq(Node) /\ Len(s) = 0
    BY <1>2 DEF Lists, Linked, Holds
  <2> QED
    BY <2>1, <2>2
<1>3. CASE count # 0
  <2>1. FindExact(k) = FirstIn(T)
    BY <1>3 DEF FindExact
  <2> HIDE DEF T
  <2> QED
    BY <1>1, <2>1, FirstInIs DEF Lists
<1> QED
  BY <1>2, <1>3

LEMMA FindNextIs ==
    ASSUME FieldsTyped, NEW s, Lists(s), NEW k
    PROVE  \/ FindNext(k) = NULL /\ \A i \in DOMAIN s : ~Less(k, key[s[i]])
           \/ \E m \in DOMAIN s :
                 /\ FindNext(k) = s[m] /\ s[m] # NULL
                 /\ Less(k, key[s[m]]) \/ (~NextIsStrict /\ k = key[s[m]])
                 /\ \A i \in DOMAIN s : i < m => ~Less(k, key[s[i]])
<1> DEFINE T == {n \in Node : Less(k, key[n]) \/ (~NextIsStrict /\ k = key[n])}
<1>1. \A i \in DOMAIN s :
         s[i] \in T <=> Less(k, key[s[i]]) \/ (~NextIsStrict /\ k = key[s[i]])
  BY DEF Lists, Linked
<1>2. CASE count = 0
  <2>1. FindNext(k) = NULL
    BY <1>2 DEF FindNext
  <2>2. s \in Seq(Node) /\ Len(s) = 0
    BY <1>2 DEF Lists, Linked, Holds
  <2> QED
    BY <2>1, <2>2
<1>3. CASE count # 0
  <2>1. FindNext(k) = FirstIn(T)
    BY <1>3 DEF FindNext
  <2> HIDE DEF T
  <2> QED
    BY <1>1, <2>1, FirstInIs DEF Lists
<1> QED
  BY <1>2, <1>3

LEMMA StopForIs ==
    ASSUME FieldsTyped, NEW s, Lists(s), head # NULL, NEW k
    PROVE  \E m \in DOMAIN s :
              /\ StopFor(k) = s[m]
              /\ Less(k, key[s[m]]) \/ k = key[s[m]] \/ m = Len(s)
              /\ \A i \in DOMAIN s : i < m => ~Less(k, key[s[i]]) /\ k # key[s[i]]
<1> DEFINE T == {n \in Node : Less(k, key[n]) \/ k = key[n] \/ next[n] = NULL}
<1>1. \A i \in DOMAIN s :
         s[i] \in T <=> Less(k, key[s[i]]) \/ k = key[s[i]] \/ i = Len(s)
  <2> TAKE i \in DOMAIN s
  <2>1. next[s[i]] = NULL <=> i = Len(s)
    <3>1. i # Len(s) => s[i + 1] \in Node
      BY DEF Lists, Linked
    <3> QED
      BY <3>1, ListAssumption DEF ListAssumption, Lists, Linked
  <2> QED
    BY <2>1 DEF Lists, Linked
<1>2. Len(s) \in DOMAIN s
  BY DEF Lists, Linked
<1>3. StopFor(k) = FirstIn(T)
  BY DEF StopFor
<1> HIDE DEF T
<1>4. s[Len(s)] \in T
  BY <1>1, <1>2
<1> QED
  BY <1>1, <1>2, <1>3, <1>4, FirstInIs DEF Lists
-----------------------------------------------------------------------------
(* A node comes into the list at one place, or goes.                        *)
With(s, m, n) ==
    [i \in 1 .. Len(s) + 1 |-> IF i < m THEN s[i] ELSE IF i = m THEN n ELSE s[i - 1]]

Without(s, m) == [i \in 1 .. Len(s) - 1 |-> IF i < m THEN s[i] ELSE s[i + 1]]

LEMMA WithIs ==
    ASSUME NEW s \in Seq(Node), NEW m \in 1 .. Len(s) + 1, NEW n \in Node
    PROVE  /\ With(s, m, n) \in Seq(Node) /\ Len(With(s, m, n)) = Len(s) + 1
           /\ \A i \in 1 .. Len(s) + 1 :
                 With(s, m, n)[i] = IF i < m THEN s[i] ELSE IF i = m THEN n ELSE s[i - 1]
<1> DEFINE t == With(s, m, n)
           at(i) == IF i < m THEN s[i] ELSE IF i = m THEN n ELSE s[i - 1]
<1>1. t = [i \in 1 .. Len(s) + 1 |-> at(i)]
  BY DEF With
<1>2. \A i \in 1 .. Len(s) + 1 : at(i) \in Node
  OBVIOUS
<1>3. t \in [1 .. Len(s) + 1 -> Node]
  <2> HIDE DEF at, t
  <2> QED
    BY <1>1, <1>2
<1>4. \A i \in 1 .. Len(s) + 1 : t[i] = at(i)
  <2> HIDE DEF at, t
  <2> QED
    BY <1>1
<1> HIDE DEF t
<1>5. t \in Seq(Node) /\ Len(t) = Len(s) + 1
  <2>1. Len(s) + 1 \in Nat
    OBVIOUS
  <2> QED
    BY <1>3, <2>1
<1> QED
  BY <1>4, <1>5 DEF t

LEMMA WithHolds ==
    ASSUME NEW s \in Seq(Node), NEW m \in 1 .. Len(s) + 1, NEW n \in Node
    PROVE  {With(s, m, n)[i] : i \in DOMAIN With(s, m, n)} = {s[i] : i \in DOMAIN s} \cup {n}
<1> DEFINE t == With(s, m, n)
<1>1. /\ t \in Seq(Node) /\ Len(t) = Len(s) + 1
      /\ \A i \in 1 .. Len(s) + 1 :
            t[i] = IF i < m THEN s[i] ELSE IF i = m THEN n ELSE s[i - 1]
  BY WithIs
<1> HIDE DEF t
<1>2. \A i \in DOMAIN s : \E j \in 1 .. Len(s) + 1 : t[j] = s[i]
  <2> TAKE i \in DOMAIN s
  <2>1. CASE i < m
    <3>1. i \in 1 .. Len(s) + 1 /\ t[i] = s[i]
      BY <1>1, <2>1
    <3> QED
      BY <3>1
  <2>2. CASE ~(i < m)
    <3>1. i + 1 \in 1 .. Len(s) + 1 /\ t[i + 1] = s[i]
      BY <1>1, <2>2
    <3> QED
      BY <3>1
  <2> QED
    BY <2>1, <2>2
<1>3. \A i \in 1 .. Len(s) + 1 : t[i] = n \/ \E j \in DOMAIN s : t[i] = s[j]
  <2> TAKE i \in 1 .. Len(s) + 1
  <2>1. i < m => i \in DOMAIN s
    OBVIOUS
  <2>2. ~(i < m) /\ i # m => i - 1 \in DOMAIN s
    OBVIOUS
  <2> QED
    BY <1>1, <2>1, <2>2
<1>4. m \in 1 .. Len(s) + 1 /\ t[m] = n /\ DOMAIN t = 1 .. Len(s) + 1
  BY <1>1
<1>5. {t[i] : i \in DOMAIN t} = {s[i] : i \in DOMAIN s} \cup {n}
  <2> DEFINE D == 1 .. Len(s) + 1
  <2>1. DOMAIN t = D /\ m \in D
    BY <1>4
  <2>2. \A i \in DOMAIN s : \E j \in D : t[j] = s[i]
    BY <1>2
  <2>3. \A i \in D : t[i] = n \/ \E j \in DOMAIN s : t[i] = s[j]
    BY <1>3
  <2> HIDE DEF D
  <2>4. t[m] = n
    BY <1>4
  <2>5. ASSUME NEW x \in {t[i] : i \in DOMAIN t}
        PROVE  x \in {s[i] : i \in DOMAIN s} \cup {n}
    BY <2>1, <2>3
  <2>6. ASSUME NEW x \in {s[i] : i \in DOMAIN s}
        PROVE  x \in {t[i] : i \in DOMAIN t}
    <3>1. PICK i \in DOMAIN s : x = s[i]
      OBVIOUS
    <3>2. PICK j \in D : t[j] = x
      BY <2>2, <3>1
    <3> QED
      BY <2>1, <3>2
  <2>7. n \in {t[i] : i \in DOMAIN t}
    BY <2>1, <2>4
  <2> QED
    BY <2>5, <2>6, <2>7
<1> QED
  BY <1>5 DEF t

LEMMA WithoutIs ==
    ASSUME NEW s \in Seq(Node), NEW m \in DOMAIN s
    PROVE  /\ Without(s, m) \in Seq(Node) /\ Len(Without(s, m)) = Len(s) - 1
           /\ \A i \in 1 .. Len(s) - 1 :
                 Without(s, m)[i] = IF i < m THEN s[i] ELSE s[i + 1]
<1> DEFINE t == Without(s, m)
           at(i) == IF i < m THEN s[i] ELSE s[i + 1]
<1>1. t = [i \in 1 .. Len(s) - 1 |-> at(i)]
  BY DEF Without
<1>2. \A i \in 1 .. Len(s) - 1 : at(i) \in Node
  OBVIOUS
<1>3. t \in [1 .. Len(s) - 1 -> Node]
  <2> HIDE DEF at, t
  <2> QED
    BY <1>1, <1>2
<1>4. \A i \in 1 .. Len(s) - 1 : t[i] = at(i)
  <2> HIDE DEF at, t
  <2> QED
    BY <1>1
<1> HIDE DEF t
<1>5. t \in Seq(Node) /\ Len(t) = Len(s) - 1
  <2>1. Len(s) - 1 \in Nat
    OBVIOUS
  <2> QED
    BY <1>3, <2>1
<1> QED
  BY <1>4, <1>5 DEF t

LEMMA WithoutHolds ==
    ASSUME NEW s \in Seq(Node), NEW m \in DOMAIN s,
           \A i, j \in DOMAIN s : s[i] = s[j] => i = j
    PROVE  {Without(s, m)[i] : i \in DOMAIN Without(s, m)} = {s[i] : i \in DOMAIN s} \ {s[m]}
<1> DEFINE t == Without(s, m)
<1>1. /\ t \in Seq(Node) /\ Len(t) = Len(s) - 1
      /\ \A i \in 1 .. Len(s) - 1 : t[i] = IF i < m THEN s[i] ELSE s[i + 1]
  BY WithoutIs
<1> HIDE DEF t
<1>2. \A i \in DOMAIN s : i # m => \E j \in 1 .. Len(s) - 1 : t[j] = s[i]
  <2> SUFFICES ASSUME NEW i \in DOMAIN s, i # m
               PROVE  \E j \in 1 .. Len(s) - 1 : t[j] = s[i]
    OBVIOUS
  <2>1. CASE i < m
    <3>1. i \in 1 .. Len(s) - 1 /\ t[i] = s[i]
      BY <1>1, <2>1
    <3> QED
      BY <3>1
  <2>2. CASE ~(i < m)
    <3>1. i - 1 \in 1 .. Len(s) - 1 /\ t[i - 1] = s[i]
      BY <1>1, <2>2
    <3> QED
      BY <3>1
  <2> QED
    BY <2>1, <2>2
<1>3. \A i \in 1 .. Len(s) - 1 : \E j \in DOMAIN s : j # m /\ t[i] = s[j]
  <2> TAKE i \in 1 .. Len(s) - 1
  <2>1. i < m => i \in DOMAIN s /\ i # m
    OBVIOUS
  <2>2. ~(i < m) => i + 1 \in DOMAIN s /\ i + 1 # m
    OBVIOUS
  <2> QED
    BY <1>1, <2>1, <2>2
<1>4. {t[i] : i \in DOMAIN t} = {s[i] : i \in DOMAIN s} \ {s[m]}
  <2> DEFINE D == 1 .. Len(s) - 1
  <2>1. DOMAIN t = D
    BY <1>1
  <2>2. \A i \in DOMAIN s : i # m => \E j \in D : t[j] = s[i]
    BY <1>2
  <2>3. \A i \in D : \E j \in DOMAIN s : j # m /\ t[i] = s[j]
    BY <1>3
  <2> HIDE DEF D
  <2>4. ASSUME NEW x \in {t[i] : i \in DOMAIN t}
        PROVE  x \in {s[i] : i \in DOMAIN s} \ {s[m]}
    <3>1. PICK i \in D : x = t[i]
      BY <2>1
    <3>2. PICK j \in DOMAIN s : j # m /\ x = s[j]
      BY <2>3, <3>1
    <3> QED
      BY <3>2
  <2>5. ASSUME NEW x \in {s[i] : i \in DOMAIN s} \ {s[m]}
        PROVE  x \in {t[i] : i \in DOMAIN t}
    <3>1. PICK i \in DOMAIN s : x = s[i] /\ i # m
      OBVIOUS
    <3>2. PICK j \in D : t[j] = x
      BY <2>2, <3>1
    <3> QED
      BY <2>1, <3>2
  <2> QED
    BY <2>4, <2>5
<1> QED
  BY <1>4 DEF t

(* An addition where the keys say.                                          *)
AddedAt(s, m, n, k) ==
    /\ m \in 1 .. Len(s) + 1 /\ n \in Node \ allocated /\ k \in Key /\ count < MaxCount
    /\ \A i \in DOMAIN s : i < m => Less(key[s[i]], k)
    /\ \A i \in DOMAIN s : i >= m => Less(k, key[s[i]])
    /\ allocated' = allocated \cup {n} /\ key' = [key EXCEPT ![n] = k]
    /\ count' = count + 1 /\ head' = IF m = 1 THEN n ELSE head
    /\ next' \in [Node -> Node \cup {NULL}] /\ prev' \in [Node -> Node \cup {NULL}]
    /\ \A x \in Node :
          /\ next'[x] = IF x = n THEN (IF m = Len(s) + 1 THEN NULL ELSE s[m])
                        ELSE IF m > 1 /\ x = s[m - 1] THEN n ELSE next[x]
          /\ prev'[x] = IF x = n THEN (IF m = 1 THEN NULL ELSE s[m - 1])
                        ELSE IF m <= Len(s) /\ x = s[m] THEN n ELSE prev[x]

LEMMA Inserted ==
    ASSUME FieldsTyped, NEW s, Lists(s), NEW m, NEW n, NEW k, AddedAt(s, m, n, k)
    PROVE  FieldsTyped' /\ IsList'
<1> USE DEF AddedAt
<1> DEFINE t == With(s, m, n)
           l == Len(s)
<1>1. /\ s \in Seq(Node) /\ l \in Nat /\ DOMAIN s = 1 .. l
      /\ \A i \in DOMAIN s : s[i] \in Node /\ s[i] # n
  BY DEF Lists, Linked, Holds
<1>2. /\ t \in Seq(Node) /\ Len(t) = l + 1
      /\ \A i \in 1 .. l + 1 : t[i] = IF i < m THEN s[i] ELSE IF i = m THEN n ELSE s[i - 1]
  <2>1. s \in Seq(Node) /\ m \in 1 .. Len(s) + 1 /\ n \in Node
    BY <1>1
  <2>2. /\ With(s, m, n) \in Seq(Node) /\ Len(With(s, m, n)) = Len(s) + 1
        /\ \A i \in 1 .. Len(s) + 1 :
              With(s, m, n)[i] = IF i < m THEN s[i] ELSE IF i = m THEN n ELSE s[i - 1]
    BY <2>1, WithIs
  <2> QED
    BY <2>2, Zenon
<1>3. DOMAIN t = 1 .. l + 1
  BY <1>1, <1>2
<1>4. FieldsTyped'
  BY DEF FieldsTyped
<1> HIDE DEF t
<1>5. \A i, j \in DOMAIN t : t[i] = t[j] => i = j
  <2>1. \A i, j \in DOMAIN s : s[i] = s[j] => i = j
    BY DEF Lists, Linked
  <2>2. ASSUME NEW i \in DOMAIN t, NEW j \in DOMAIN t, i < j
        PROVE  t[i] # t[j]
    <3>1. t[i] = IF i < m THEN s[i] ELSE IF i = m THEN n ELSE s[i - 1]
      BY <1>2, <1>3
    <3>2. t[j] = IF j < m THEN s[j] ELSE IF j = m THEN n ELSE s[j - 1]
      BY <1>2, <1>3
    <3>3. /\ i < m => i \in DOMAIN s
          /\ i > m => i - 1 \in DOMAIN s
          /\ j < m => j \in DOMAIN s
          /\ j > m => j - 1 \in DOMAIN s
          /\ i \in Int /\ j \in Int
      BY <1>1, <1>3
    <3> HIDE DEF t
    <3> QED
      BY <1>1, <2>1, <2>2, <3>1, <3>2, <3>3
  <2>3. \A i, j \in DOMAIN t : i < j \/ j < i \/ i = j
    BY <1>1, <1>3
  <2> QED
    BY <2>2, <2>3
<1>6. head' = IF Len(t) = 0 THEN NULL ELSE t[1]
  <2>1. m # 1 => head = s[1]
    BY <1>1 DEF Lists, Linked
  <2> QED
    BY <1>1, <1>2, <2>1
<1>7. ASSUME NEW i \in DOMAIN s
      PROVE  /\ next[s[i]] = IF i = l THEN NULL ELSE s[i + 1]
             /\ prev[s[i]] = IF i = 1 THEN NULL ELSE s[i - 1]
             /\ \A j \in DOMAIN s : s[i] = s[j] => i = j
  BY DEF Lists, Linked
<1>8. ASSUME NEW i \in DOMAIN t
      PROVE  next'[t[i]] = IF i = Len(t) THEN NULL ELSE t[i + 1]
  <2>1. CASE i = m
    BY <1>1, <1>2, <1>3, <2>1
  <2>2. CASE i < m
    <3>1. i \in DOMAIN s /\ t[i] = s[i] /\ s[i] \in Node /\ s[i] # n
      BY <1>1, <1>2, <1>3, <2>2
    <3>2. (m > 1 /\ s[i] = s[m - 1]) <=> i = m - 1
      BY <1>1, <1>7, <2>2, <3>1
    <3>3. next'[s[i]] = IF i = m - 1 THEN n ELSE next[s[i]]
      BY <3>1, <3>2
    <3> QED
      BY <1>1, <1>2, <1>3, <1>7, <2>2, <3>1, <3>3
  <2>3. CASE i > m
    <3>1. i - 1 \in DOMAIN s /\ t[i] = s[i - 1] /\ s[i - 1] \in Node /\ s[i - 1] # n
      BY <1>1, <1>2, <1>3, <2>3
    <3>2. ~(m > 1 /\ s[i - 1] = s[m - 1])
      <4>1. m > 1 => m - 1 \in DOMAIN s /\ m - 1 # i - 1
        BY <1>1, <1>3, <2>3
      <4> QED
        BY <1>7, <3>1, <4>1
    <3>3. next'[s[i - 1]] = next[s[i - 1]]
      BY <3>1, <3>2
    <3>4. next[s[i - 1]] = IF i - 1 = l THEN NULL ELSE s[(i - 1) + 1]
      BY <1>7, <3>1
    <3> QED
      BY <1>1, <1>2, <1>3, <2>3, <3>1, <3>3, <3>4
  <2> QED
    BY <1>1, <1>3, <2>1, <2>2, <2>3
<1>9. ASSUME NEW i \in DOMAIN t
      PROVE  prev'[t[i]] = IF i = 1 THEN NULL ELSE t[i - 1]
  <2>1. CASE i = m
    BY <1>1, <1>2, <1>3, <2>1
  <2>2. CASE i < m
    <3>1. i \in DOMAIN s /\ t[i] = s[i] /\ s[i] \in Node /\ s[i] # n
      BY <1>1, <1>2, <1>3, <2>2
    <3>2. ~(m <= l /\ s[i] = s[m])
      <4>1. m <= l => m \in DOMAIN s /\ m # i
        BY <1>1, <2>2
      <4> QED
        BY <1>7, <3>1, <4>1
    <3>3. prev'[s[i]] = prev[s[i]]
      BY <3>1, <3>2
    <3> QED
      BY <1>1, <1>2, <1>3, <1>7, <2>2, <3>1, <3>3
  <2>3. CASE i > m
    <3>1. i - 1 \in DOMAIN s /\ t[i] = s[i - 1] /\ s[i - 1] \in Node /\ s[i - 1] # n
      BY <1>1, <1>2, <1>3, <2>3
    <3>2. (m <= l /\ s[i - 1] = s[m]) <=> i - 1 = m
      BY <1>1, <1>7, <2>3, <3>1
    <3>3. prev'[s[i - 1]] = IF i - 1 = m THEN n ELSE prev[s[i - 1]]
      BY <3>1, <3>2
    <3>4. prev[s[i - 1]] = IF i - 1 = 1 THEN NULL ELSE s[(i - 1) - 1]
      BY <1>7, <3>1
    <3> QED
      BY <1>1, <1>2, <1>3, <2>3, <3>1, <3>3, <3>4
  <2> QED
    BY <1>1, <1>3, <2>1, <2>2, <2>3
<1>10. Linked(t)'
  BY <1>2, <1>5, <1>6, <1>8, <1>9 DEF Linked
<1>11. Holds(t)'
  <2>1. allocated = {s[i] : i \in DOMAIN s} /\ count = l
    BY DEF Lists, Holds
  <2>2. allocated' = {t[i] : i \in DOMAIN t}
    <3>1. s \in Seq(Node) /\ m \in 1 .. Len(s) + 1 /\ n \in Node
      BY <1>1
    <3>2. {t[i] : i \in DOMAIN t} = {s[i] : i \in DOMAIN s} \cup {n}
      BY <3>1, WithHolds DEF t
    <3> QED
      BY <2>1, <3>2
  <2>3. count' = Len(t) /\ Len(t) <= MaxCount
    BY <1>1, <1>2, <2>1, ListAssumption DEF ListAssumption
  <2> QED
    BY <2>2, <2>3 DEF Holds
<1>12. key'[n] = k /\ \A i \in DOMAIN s : key'[s[i]] = key[s[i]]
  BY <1>1 DEF FieldsTyped
<1>13. /\ \A i \in DOMAIN s : key[s[i]] \in Key
       /\ \A i, j \in DOMAIN s : i < j => Less(key[s[i]], key[s[j]])
  BY DEF Lists, Ordered
<1>14. \A i \in DOMAIN t :
          key'[t[i]] = IF i < m THEN key[s[i]] ELSE IF i = m THEN k ELSE key[s[i - 1]]
  BY <1>1, <1>2, <1>3, <1>12
<1>15. \A i \in DOMAIN t : (i < m => i \in DOMAIN s) /\ (i > m => i - 1 \in DOMAIN s)
  BY <1>1, <1>3
<1>16. \A i \in DOMAIN t : key'[t[i]] \in Key
  BY <1>1, <1>3, <1>13, <1>14, <1>15
<1>17. ASSUME NEW i \in DOMAIN t, NEW j \in DOMAIN t, i < j
       PROVE  Less(key'[t[i]], key'[t[j]])
  <2>1. CASE j < m
    BY <1>3, <1>13, <1>14, <1>15, <1>17, <2>1
  <2>2. CASE j = m
    BY <1>3, <1>14, <1>15, <1>17, <2>2
  <2>3. CASE i < m /\ j > m
    <3>1. i \in DOMAIN s /\ j - 1 \in DOMAIN s /\ i < j - 1
      BY <1>1, <1>3, <1>15, <2>3
    <3>2. key'[t[i]] = key[s[i]] /\ key'[t[j]] = key[s[j - 1]]
      BY <1>3, <1>14, <2>3
    <3> QED
      BY <1>13, <3>1, <3>2
  <2>4. CASE i = m /\ j > m
    <3>1. j - 1 \in DOMAIN s /\ j - 1 >= m
      BY <1>1, <1>3, <1>15, <2>4
    <3>2. key'[t[i]] = k /\ key'[t[j]] = key[s[j - 1]]
      BY <1>3, <1>14, <2>4
    <3> QED
      BY <3>1, <3>2
  <2>5. CASE i > m /\ j > m
    <3>1. i - 1 \in DOMAIN s /\ j - 1 \in DOMAIN s /\ i - 1 < j - 1
      BY <1>1, <1>3, <1>15, <1>17, <2>5
    <3>2. key'[t[i]] = key[s[i - 1]] /\ key'[t[j]] = key[s[j - 1]]
      BY <1>3, <1>14, <2>5
    <3> QED
      BY <1>13, <3>1, <3>2
  <2> QED
    BY <1>3, <1>17, <2>1, <2>2, <2>3, <2>4, <2>5
<1>18. Ordered(t)'
  BY <1>16, <1>17 DEF Ordered
<1> QED
  BY <1>2, <1>4, <1>10, <1>11, <1>18 DEF IsList, Lists

(* A deletion, wherever it is.                                              *)
RemovedAt(s, m) ==
    /\ m \in DOMAIN s
    /\ allocated' = allocated \ {s[m]} /\ key' = [key EXCEPT ![s[m]] = First]
    /\ count' = count - 1
    /\ head' = IF m = 1 THEN (IF m = Len(s) THEN NULL ELSE s[m + 1]) ELSE head
    /\ next' \in [Node -> Node \cup {NULL}] /\ prev' \in [Node -> Node \cup {NULL}]
    /\ \A x \in Node :
          /\ next'[x] = IF x = s[m] THEN NULL
                        ELSE IF m > 1 /\ x = s[m - 1]
                             THEN (IF m = Len(s) THEN NULL ELSE s[m + 1])
                        ELSE next[x]
          /\ prev'[x] = IF x = s[m] THEN NULL
                        ELSE IF m < Len(s) /\ x = s[m + 1]
                             THEN (IF m = 1 THEN NULL ELSE s[m - 1])
                        ELSE prev[x]

LEMMA Removed ==
    ASSUME FieldsTyped, NEW s, Lists(s), NEW m, RemovedAt(s, m)
    PROVE  FieldsTyped' /\ IsList'
<1> USE DEF RemovedAt
<1> DEFINE t == Without(s, m)
           l == Len(s)
<1>1. /\ s \in Seq(Node) /\ l \in Nat /\ DOMAIN s = 1 .. l
      /\ m \in 1 .. l /\ \A i \in DOMAIN s : s[i] \in Node
  BY DEF Lists, Linked
<1>2. /\ t \in Seq(Node) /\ Len(t) = l - 1
      /\ \A i \in 1 .. l - 1 : t[i] = IF i < m THEN s[i] ELSE s[i + 1]
  <2>1. s \in Seq(Node) /\ m \in DOMAIN s
    BY <1>1
  <2> QED
    BY <2>1, WithoutIs
<1>3. DOMAIN t = 1 .. l - 1
  BY <1>1, <1>2
<1>4. FieldsTyped'
  BY DEF FieldsTyped
<1> HIDE DEF t
<1>5. ASSUME NEW i \in DOMAIN s
      PROVE  /\ next[s[i]] = IF i = l THEN NULL ELSE s[i + 1]
             /\ prev[s[i]] = IF i = 1 THEN NULL ELSE s[i - 1]
             /\ \A j \in DOMAIN s : s[i] = s[j] => i = j
  BY DEF Lists, Linked
<1>6. \A i \in DOMAIN t : /\ i < m => i \in DOMAIN s /\ t[i] = s[i]
                          /\ ~(i < m) => i + 1 \in DOMAIN s /\ t[i] = s[i + 1]
                          /\ i \in Int
  BY <1>1, <1>2, <1>3
<1>7. \A i, j \in DOMAIN t : t[i] = t[j] => i = j
  <2>1. \A i, j \in DOMAIN s : s[i] = s[j] => i = j
    BY <1>5
  <2>2. ASSUME NEW i \in DOMAIN t, NEW j \in DOMAIN t, t[i] = t[j]
        PROVE  i = j
    <3>1. CASE i < m /\ j < m
      BY <1>6, <2>1, <2>2, <3>1
    <3>2. CASE i < m /\ ~(j < m)
      <4>1. i = j + 1
        BY <1>6, <2>1, <2>2, <3>2
      <4> QED
        BY <1>1, <1>6, <3>2, <4>1
    <3>3. CASE ~(i < m) /\ j < m
      <4>1. i + 1 = j
        BY <1>6, <2>1, <2>2, <3>3
      <4> QED
        BY <1>1, <1>6, <3>3, <4>1
    <3>4. CASE ~(i < m) /\ ~(j < m)
      <4>1. i + 1 = j + 1
        BY <1>6, <2>1, <2>2, <3>4
      <4> QED
        BY <1>6, <4>1
    <3> QED
      BY <3>1, <3>2, <3>3, <3>4
  <2> QED
    BY <2>2
<1>8. head' = IF Len(t) = 0 THEN NULL ELSE t[1]
  <2>1. m # 1 => head = s[1]
    BY <1>1 DEF Lists, Linked
  <2> QED
    BY <1>1, <1>2, <2>1
<1>9. ASSUME NEW i \in DOMAIN t
      PROVE  next'[t[i]] = IF i = Len(t) THEN NULL ELSE t[i + 1]
  <2>0. i \in 1 .. l - 1
    BY <1>3
  <2>1. CASE i < m
    <3>1. i \in DOMAIN s /\ t[i] = s[i] /\ s[i] \in Node
      BY <1>1, <1>6, <2>1
    <3>2. s[i] # s[m]
      BY <1>1, <1>5, <2>1, <3>1
    <3>3. (m > 1 /\ s[i] = s[m - 1]) <=> i = m - 1
      <4>1. m > 1 => m - 1 \in DOMAIN s
        BY <1>1
      <4> QED
        BY <1>1, <1>5, <2>0, <2>1, <3>1, <4>1
    <3>4. next'[s[i]] = IF i = m - 1 THEN (IF m = l THEN NULL ELSE s[m + 1]) ELSE next[s[i]]
      BY <3>1, <3>2, <3>3
    <3>5. next[s[i]] = s[i + 1]
      BY <1>1, <1>5, <2>0, <2>1, <3>1
    <3>6. CASE i = m - 1
      <4>1. i + 1 = m /\ (i = Len(t) <=> m = l)
        BY <1>1, <1>2, <2>0, <3>6
      <4>2. m # l => m \in 1 .. l - 1 /\ ~(m < m)
        BY <1>1
      <4>3. m # l => t[m] = s[m + 1]
        BY <1>2, <4>2
      <4> QED
        BY <3>1, <3>4, <3>6, <4>1, <4>3
    <3>7. CASE i # m - 1
      <4>1. i + 1 \in 1 .. l - 1 /\ i + 1 < m /\ i # Len(t)
        BY <1>1, <1>2, <2>0, <2>1, <3>7
      <4>2. t[i + 1] = s[i + 1]
        BY <1>2, <4>1
      <4> QED
        BY <3>1, <3>4, <3>5, <3>7, <4>1, <4>2
    <3> QED
      BY <3>6, <3>7
  <2>2. CASE ~(i < m)
    <3>1. i + 1 \in DOMAIN s /\ t[i] = s[i + 1] /\ s[i + 1] \in Node
      BY <1>1, <1>6, <2>2
    <3>2. s[i + 1] # s[m]
      <4>1. i + 1 # m
        BY <1>1, <2>0, <2>2
      <4> QED
        BY <1>1, <1>5, <3>1, <4>1
    <3>3. ~(m > 1 /\ s[i + 1] = s[m - 1])
      <4>1. m > 1 => m - 1 \in DOMAIN s /\ i + 1 # m - 1
        BY <1>1, <2>0, <2>2
      <4> QED
        BY <1>5, <3>1, <4>1
    <3>4. next'[s[i + 1]] = next[s[i + 1]]
      BY <3>1, <3>2, <3>3
    <3>5. next[s[i + 1]] = IF i + 1 = l THEN NULL ELSE s[(i + 1) + 1]
      BY <1>5, <3>1
    <3>6. i + 1 = l <=> i = Len(t)
      BY <1>1, <1>2, <2>0
    <3>7. i # Len(t) => i + 1 \in 1 .. l - 1 /\ ~(i + 1 < m)
      BY <1>1, <1>2, <2>0, <2>2
    <3>8. i # Len(t) => t[i + 1] = s[(i + 1) + 1]
      BY <1>2, <3>7
    <3> QED
      BY <3>1, <3>4, <3>5, <3>6, <3>8
  <2> QED
    BY <2>1, <2>2
<1>10. ASSUME NEW i \in DOMAIN t
       PROVE  prev'[t[i]] = IF i = 1 THEN NULL ELSE t[i - 1]
  <2>0. i \in 1 .. l - 1
    BY <1>3
  <2>1. CASE i < m
    <3>1. i \in DOMAIN s /\ t[i] = s[i] /\ s[i] \in Node
      BY <1>1, <1>6, <2>1
    <3>2. s[i] # s[m]
      BY <1>1, <1>5, <2>1, <3>1
    <3>3. ~(m < l /\ s[i] = s[m + 1])
      <4>1. m < l => m + 1 \in DOMAIN s /\ i # m + 1
        BY <1>1, <2>0, <2>1
      <4> QED
        BY <1>5, <3>1, <4>1
    <3>4. prev'[s[i]] = prev[s[i]]
      BY <3>1, <3>2, <3>3
    <3>5. prev[s[i]] = IF i = 1 THEN NULL ELSE s[i - 1]
      BY <1>5, <3>1
    <3>6. i # 1 => i - 1 \in 1 .. l - 1 /\ i - 1 < m
      BY <1>1, <2>0, <2>1
    <3>7. i # 1 => t[i - 1] = s[i - 1]
      BY <1>2, <3>6
    <3> QED
      BY <3>1, <3>4, <3>5, <3>7
  <2>2. CASE ~(i < m)
    <3>1. i + 1 \in DOMAIN s /\ t[i] = s[i + 1] /\ s[i + 1] \in Node
      BY <1>1, <1>6, <2>2
    <3>2. s[i + 1] # s[m]
      <4>1. i + 1 # m
        BY <1>1, <2>0, <2>2
      <4> QED
        BY <1>1, <1>5, <3>1, <4>1
    <3>3. (m < l /\ s[i + 1] = s[m + 1]) <=> i = m
      <4>1. m < l => m + 1 \in DOMAIN s
        BY <1>1
      <4>2. i = m => m < l
        BY <1>1, <2>0
      <4>3. i + 1 = m + 1 <=> i = m
        BY <1>1, <2>0
      <4> QED
        BY <1>5, <3>1, <4>1, <4>2, <4>3
    <3>4. prev'[s[i + 1]] = IF i = m THEN (IF m = 1 THEN NULL ELSE s[m - 1]) ELSE prev[s[i + 1]]
      BY <3>1, <3>2, <3>3
    <3>5. CASE i = m
      <4>1. m # 1 => i - 1 \in 1 .. l - 1 /\ i - 1 < m
        BY <1>1, <2>0, <3>5
      <4>2. m # 1 => t[i - 1] = s[m - 1]
        BY <1>2, <3>5, <4>1
      <4> QED
        BY <3>1, <3>4, <3>5, <4>2
    <3>6. CASE i # m
      <4>1. i + 1 # 1 /\ (i + 1) - 1 = i /\ i # 1
        BY <1>1, <2>0, <2>2, <3>6
      <4>2. prev[s[i + 1]] = s[i]
        BY <1>5, <3>1, <4>1
      <4>3. i - 1 \in 1 .. l - 1 /\ ~(i - 1 < m) /\ (i - 1) + 1 = i
        BY <1>1, <2>0, <2>2, <3>6
      <4>4. t[i - 1] = s[i]
        BY <1>2, <4>3
      <4> QED
        BY <3>1, <3>4, <3>6, <4>1, <4>2, <4>4
    <3> QED
      BY <3>5, <3>6
  <2> QED
    BY <2>1, <2>2
<1>11. Linked(t)'
  BY <1>2, <1>7, <1>8, <1>9, <1>10 DEF Linked
<1>12. Holds(t)'
  <2>1. allocated = {s[i] : i \in DOMAIN s} /\ count = l /\ l <= MaxCount
    BY DEF Lists, Holds
  <2>2. allocated' = {t[i] : i \in DOMAIN t}
    <3>1. s \in Seq(Node) /\ m \in DOMAIN s /\ \A i, j \in DOMAIN s : s[i] = s[j] => i = j
      BY <1>1, <1>5
    <3>2. {t[i] : i \in DOMAIN t} = {s[i] : i \in DOMAIN s} \ {s[m]}
      BY <3>1, WithoutHolds DEF t
    <3> QED
      BY <2>1, <3>2
  <2>3. count' = Len(t) /\ Len(t) <= MaxCount
    BY <1>1, <1>2, <2>1, ListAssumption DEF ListAssumption
  <2> QED
    BY <2>2, <2>3 DEF Holds
<1>13. \A i \in DOMAIN s : i # m => key'[s[i]] = key[s[i]]
  BY <1>1, <1>5 DEF FieldsTyped
<1>14. \A i \in DOMAIN t : /\ i < m => key'[t[i]] = key[s[i]]
                           /\ ~(i < m) => key'[t[i]] = key[s[i + 1]]
  <2> TAKE i \in DOMAIN t
  <2>1. ~(i < m) => i + 1 # m
    BY <1>1, <1>6
  <2> QED
    BY <1>1, <1>6, <1>13, <2>1
<1>15. /\ \A i \in DOMAIN s : key[s[i]] \in Key
       /\ \A i, j \in DOMAIN s : i < j => Less(key[s[i]], key[s[j]])
  BY DEF Lists, Ordered
<1>16. \A i \in DOMAIN t : key'[t[i]] \in Key
  BY <1>6, <1>14, <1>15
<1>17. ASSUME NEW i \in DOMAIN t, NEW j \in DOMAIN t, i < j
       PROVE  Less(key'[t[i]], key'[t[j]])
  <2>0. i \in Int /\ j \in Int /\ m \in Int
    BY <1>1, <1>6
  <2>1. CASE j < m
    <3>1. i < m /\ i \in DOMAIN s /\ j \in DOMAIN s
      BY <1>6, <1>17, <2>0, <2>1
    <3> QED
      BY <1>14, <1>15, <1>17, <2>1, <3>1
  <2>2. CASE i < m /\ ~(j < m)
    <3>1. i \in DOMAIN s /\ j + 1 \in DOMAIN s /\ i < j + 1
      BY <1>6, <1>17, <2>0, <2>2
    <3> QED
      BY <1>14, <1>15, <2>2, <3>1
  <2>3. CASE ~(i < m) /\ ~(j < m)
    <3>1. i + 1 \in DOMAIN s /\ j + 1 \in DOMAIN s /\ i + 1 < j + 1
      BY <1>6, <1>17, <2>0, <2>3
    <3> QED
      BY <1>14, <1>15, <2>3, <3>1
  <2> QED
    BY <1>17, <2>0, <2>1, <2>2, <2>3
<1>18. Ordered(t)'
  BY <1>16, <1>17 DEF Ordered
<1> QED
  BY <1>2, <1>4, <1>11, <1>12, <1>18 DEF IsList, Lists
-----------------------------------------------------------------------------
(* Initially the list is empty.                                             *)
LEMMA InitList ==
    ASSUME Init
    PROVE  ListInv
<1> DEFINE s == << >>
<1>1. s \in Seq(Node) /\ Len(s) = 0 /\ DOMAIN s = {}
  OBVIOUS
<1>2. FieldsTyped
  BY DEF Init, FieldsTyped
<1> HIDE DEF s
<1>3. Linked(s)
  BY <1>1 DEF Init, Linked
<1>4. Holds(s) /\ Ordered(s)
  BY <1>1, ListAssumption DEF Init, Holds, Ordered, ListAssumption
<1>5. WalkInv
  BY DEF Init, WalkInv
<1> QED
  BY <1>1, <1>2, <1>3, <1>4, <1>5 DEF ListInv, IsList, Lists

(* Additions: where the loop stops is where the keys say.                   *)
LEMMA CreateKeepsList ==
    ASSUME ListInv, NEW k \in Key, NEW n \in Node, Create(k, n)
    PROVE  FieldsTyped' /\ IsList'
<1>1. PICK s \in Seq(Node) : Lists(s)
  BY DEF ListInv, IsList
<1> DEFINE l == Len(s)
<1>2. /\ FieldsTyped /\ n \in Node \ allocated /\ count < MaxCount
      /\ allocated' = allocated \cup {n} /\ key' = [key EXCEPT ![n] = k]
      /\ next \in [Node -> Node \cup {NULL}] /\ prev \in [Node -> Node \cup {NULL}]
  BY DEF ListInv, Create, FieldsTyped
<1>3. /\ l \in Nat /\ DOMAIN s = 1 .. l
      /\ \A i \in DOMAIN s : s[i] \in Node /\ s[i] # n /\ s[i] # NULL
      /\ head = IF l = 0 THEN NULL ELSE s[1]
  BY <1>1, <1>2, ListAssumption DEF ListAssumption, Lists, Linked, Holds
<1>4. \A i \in DOMAIN s : /\ prev[s[i]] = IF i = 1 THEN NULL ELSE s[i - 1]
                          /\ next[s[i]] = IF i = l THEN NULL ELSE s[i + 1]
                          /\ \A j \in DOMAIN s : s[i] = s[j] => i = j
  BY <1>1 DEF Lists, Linked
<1>5. /\ \A i \in DOMAIN s : key[s[i]] \in Triple
      /\ \A i, j \in DOMAIN s : i < j => Less(key[s[i]], key[s[j]])
      /\ k \in Triple
  BY <1>1, KeysAreOrdered DEF Lists, Ordered
<1>6. \A i \in DOMAIN s : key[s[i]] # k
  <2>1. FindExact(k) = NULL
    BY DEF Create
  <2>2. \/ \A i \in DOMAIN s : key[s[i]] # k
        \/ \E m \in DOMAIN s : NULL = s[m]
    BY <1>1, <1>2, <2>1, FindExactIs
  <2> QED
    BY <1>3, <2>2
<1>7. CASE LinkFirst(n)
  <2>1. head = NULL /\ head' = n /\ next' = [next EXCEPT ![n] = NULL]
        /\ prev' = [prev EXCEPT ![n] = NULL] /\ count' = count + 1
    BY <1>7 DEF LinkFirst
  <2>2. l = 0
    BY <1>3, <2>1
  <2> QED
    <3>1. PICK m \in 1 .. l + 1 : m = 1
      BY <2>2
    <3>2. \A x \in Node :
             /\ next'[x] = IF x = n THEN NULL ELSE next[x]
             /\ prev'[x] = IF x = n THEN NULL ELSE prev[x]
      BY <1>2, <2>1
    <3>3. \A x \in Node :
            /\ next'[x] = IF x = n THEN (IF m = l + 1 THEN NULL ELSE s[m])
                          ELSE IF m > 1 /\ x = s[m - 1] THEN n ELSE next[x]
            /\ prev'[x] = IF x = n THEN (IF m = 1 THEN NULL ELSE s[m - 1])
                          ELSE IF m <= l /\ x = s[m] THEN n ELSE prev[x]
      BY <2>2, <3>1, <3>2
    <3>4. DOMAIN s = {}
      BY <1>3, <2>2
    <3>5. next' \in [Node -> Node \cup {NULL}] /\ prev' \in [Node -> Node \cup {NULL}]
      BY <1>2, <2>1
    <3>6. head' = IF m = 1 THEN n ELSE head
      BY <2>1, <3>1
    <3>7. AddedAt(s, m, n, k)
      BY <1>2, <2>1, <3>3, <3>4, <3>5, <3>6 DEF AddedAt
    <3> QED
      BY <1>1, <1>2, <3>7, Inserted
<1>8. CASE LinkBefore(n, k)
  <2>1. PICK m \in DOMAIN s :
           /\ StopFor(k) = s[m]
           /\ \A i \in DOMAIN s : i < m => ~Less(k, key[s[i]]) /\ k # key[s[i]]
    BY <1>1, <1>2, <1>8, StopForIs DEF LinkBefore
  <2>2. Less(k, key[s[m]]) /\ count' = count + 1
    BY <1>8, <2>1 DEF LinkBefore
  <2>3. \A i \in DOMAIN s : i < m => Less(key[s[i]], k)
    BY <1>5, <1>6, <2>1, LessOrders
  <2>4. \A i \in DOMAIN s : i >= m => Less(k, key[s[i]])
    <3> SUFFICES ASSUME NEW i \in DOMAIN s, i >= m PROVE Less(k, key[s[i]])
      OBVIOUS
    <3>1. i = m \/ m < i
      BY <1>3
    <3> QED
      BY <1>5, <2>2, <3>1, LessOrders
  <2>5. s[m] = head <=> m = 1
    <3>1. l # 0 /\ 1 \in DOMAIN s
      BY <1>3
    <3> QED
      BY <1>3, <1>4, <3>1
  <2>6. /\ head' = IF m = 1 THEN n ELSE head
        /\ next' = IF m = 1 THEN [next EXCEPT ![n] = s[m]]
                   ELSE [next EXCEPT ![prev[s[m]]] = n, ![n] = s[m]]
        /\ prev' = IF m = 1 THEN [prev EXCEPT ![n] = NULL, ![s[m]] = n]
                   ELSE [prev EXCEPT ![n] = prev[s[m]], ![s[m]] = n]
    BY <1>8, <2>1, <2>5 DEF LinkBefore
  <2>7. s[m] \in Node /\ s[m] # n /\ (m # 1 => prev[s[m]] = s[m - 1] /\ m - 1 \in DOMAIN s
                                               /\ s[m - 1] \in Node /\ s[m - 1] # n)
    <3>1. m # 1 => m - 1 \in DOMAIN s
      BY <1>3
    <3> QED
      BY <1>3, <1>4, <3>1
  <2>8. next' \in [Node -> Node \cup {NULL}] /\ prev' \in [Node -> Node \cup {NULL}]
    BY <1>2, <2>6, <2>7
  <2>9. m \in 1 .. l + 1 /\ m # l + 1 /\ m <= l /\ (m > 1 <=> m # 1)
    BY <1>3
  <2>10. \A x \in Node :
            /\ next'[x] = IF x = n THEN s[m] ELSE IF m # 1 /\ x = s[m - 1] THEN n ELSE next[x]
            /\ prev'[x] = IF x = n THEN (IF m = 1 THEN NULL ELSE s[m - 1])
                          ELSE IF x = s[m] THEN n ELSE prev[x]
    BY <1>2, <2>6, <2>7
  <2>11. \A x \in Node :
            /\ next'[x] = IF x = n THEN (IF m = l + 1 THEN NULL ELSE s[m])
                          ELSE IF m > 1 /\ x = s[m - 1] THEN n ELSE next[x]
            /\ prev'[x] = IF x = n THEN (IF m = 1 THEN NULL ELSE s[m - 1])
                          ELSE IF m <= l /\ x = s[m] THEN n ELSE prev[x]
    BY <2>9, <2>10
  <2>12. head' = IF m = 1 THEN n ELSE head
    BY <2>6
  <2>13. AddedAt(s, m, n, k)
    BY <1>2, <2>2, <2>3, <2>4, <2>8, <2>9, <2>11, <2>12 DEF AddedAt
  <2> QED
    BY <1>1, <1>2, <2>13, Inserted
<1>9. CASE LinkLast(n, k)
  <2>1. PICK p \in DOMAIN s :
           /\ StopFor(k) = s[p]
           /\ Less(k, key[s[p]]) \/ k = key[s[p]] \/ p = l
           /\ \A i \in DOMAIN s : i < p => ~Less(k, key[s[i]]) /\ k # key[s[i]]
    BY <1>1, <1>2, <1>9, StopForIs DEF LinkLast
  <2>2. Less(key[s[p]], k) /\ count' = count + 1 /\ head' = head /\ head # NULL
    BY <1>9, <2>1 DEF LinkLast
  <2>3. p = l /\ l \in DOMAIN s
    BY <1>5, <2>1, <2>2, LessOrders
  <2>4. next' = [next EXCEPT ![s[l]] = n, ![n] = NULL] /\ prev' = [prev EXCEPT ![n] = s[l]]
    BY <1>9, <2>1, <2>3 DEF LinkLast
  <2>5. \A i \in DOMAIN s : Less(key[s[i]], k)
    <3> TAKE i \in DOMAIN s
    <3>1. i = l \/ i < l
      BY <1>3
    <3> QED
      BY <1>5, <2>2, <2>3, <3>1, LessOrders
  <2>6. s[l] \in Node /\ s[l] # n
    BY <1>3, <2>3
  <2>7. \A x \in Node :
           /\ next'[x] = IF x = n THEN NULL ELSE IF x = s[l] THEN n ELSE next[x]
           /\ prev'[x] = IF x = n THEN s[l] ELSE prev[x]
    BY <1>2, <2>4, <2>6
  <2>8. PICK m \in 1 .. l + 1 : m = l + 1
    BY <1>3
  <2>9. m > 1 /\ m # 1 /\ ~(m <= l) /\ m - 1 = l /\ \A i \in DOMAIN s : ~(i >= m)
    BY <1>3, <2>3, <2>8
  <2>10. \A x \in Node :
            /\ next'[x] = IF x = n THEN (IF m = l + 1 THEN NULL ELSE s[m])
                          ELSE IF m > 1 /\ x = s[m - 1] THEN n ELSE next[x]
            /\ prev'[x] = IF x = n THEN (IF m = 1 THEN NULL ELSE s[m - 1])
                          ELSE IF m <= l /\ x = s[m] THEN n ELSE prev[x]
    BY <2>7, <2>8, <2>9
  <2>11. next' \in [Node -> Node \cup {NULL}] /\ prev' \in [Node -> Node \cup {NULL}]
    BY <1>2, <2>4, <2>6
  <2>12. head' = IF m = 1 THEN n ELSE head
    BY <2>2, <2>9
  <2>13. /\ \A i \in DOMAIN s : i < m => Less(key[s[i]], k)
         /\ \A i \in DOMAIN s : i >= m => Less(k, key[s[i]])
    BY <2>5, <2>9
  <2>14. AddedAt(s, m, n, k)
    BY <1>2, <2>2, <2>10, <2>11, <2>12, <2>13 DEF AddedAt
  <2> QED
    BY <1>1, <1>2, <2>14, Inserted
<1> QED
  BY <1>7, <1>8, <1>9 DEF Create

(* Deletions, of the head, of the last or in between.                       *)
LEMMA DeleteKeepsList ==
    ASSUME ListInv, NEW k \in Key, Delete(k)
    PROVE  FieldsTyped' /\ IsList'
<1>1. PICK s \in Seq(Node) : Lists(s)
  BY DEF ListInv, IsList
<1> DEFINE l == Len(s)
<1>2. /\ FieldsTyped
      /\ next \in [Node -> Node \cup {NULL}] /\ prev \in [Node -> Node \cup {NULL}]
  BY DEF ListInv, FieldsTyped
<1>3. /\ l \in Nat /\ DOMAIN s = 1 .. l
      /\ \A i \in DOMAIN s : s[i] \in Node /\ s[i] # NULL
      /\ head = IF l = 0 THEN NULL ELSE s[1]
  BY <1>1, ListAssumption DEF ListAssumption, Lists, Linked
<1>4. \A i \in DOMAIN s : /\ prev[s[i]] = IF i = 1 THEN NULL ELSE s[i - 1]
                          /\ next[s[i]] = IF i = l THEN NULL ELSE s[i + 1]
                          /\ \A j \in DOMAIN s : s[i] = s[j] => i = j
  BY <1>1 DEF Lists, Linked
<1>5. PICK m \in DOMAIN s : FindExact(k) = s[m]
  BY <1>1, <1>2, FindExactIs DEF Delete
<1>6. /\ Unlink(s[m]) /\ key' = [key EXCEPT ![s[m]] = First]
      /\ count' = count - 1 /\ allocated' = allocated \ {s[m]}
  BY <1>5 DEF Delete
<1>7. s[m] = head <=> m = 1
  <2>1. l # 0 /\ 1 \in DOMAIN s
    BY <1>3
  <2> QED
    BY <1>3, <1>4, <2>1
<1> DEFINE after == IF m = l THEN NULL ELSE s[m + 1]
           before == IF m = 1 THEN NULL ELSE s[m - 1]
<1>8. next[s[m]] = after /\ prev[s[m]] = before
  BY <1>4
<1>9. after \in Node \cup {NULL} /\ before \in Node \cup {NULL}
  <2>1. /\ m # l => m + 1 \in DOMAIN s
        /\ m # 1 => m - 1 \in DOMAIN s
    BY <1>3
  <2> QED
    BY <1>3, <2>1
<1> HIDE DEF after, before
<1>10. /\ head' = IF m = 1 THEN after ELSE head
       /\ next' = [x \in Node |-> IF x = s[m] THEN NULL
                                  ELSE IF m # 1 /\ x = before THEN after ELSE next[x]]
       /\ prev' = [x \in Node |-> IF x = s[m] THEN NULL
                                  ELSE IF x = after THEN (IF m = 1 THEN NULL ELSE before)
                                  ELSE prev[x]]
  BY <1>6, <1>7, <1>8 DEF Unlink
<1>11. next' \in [Node -> Node \cup {NULL}] /\ prev' \in [Node -> Node \cup {NULL}]
  BY <1>2, <1>9, <1>10
<1>12. \A x \in Node : /\ m # 1 /\ x = before <=> m > 1 /\ x = s[m - 1]
                       /\ x = after <=> m < l /\ x = s[m + 1]
  BY <1>3, ListAssumption DEF ListAssumption, before, after
<1>13. \A x \in Node :
          /\ next'[x] = IF x = s[m] THEN NULL
                        ELSE IF m > 1 /\ x = s[m - 1] THEN after ELSE next[x]
          /\ prev'[x] = IF x = s[m] THEN NULL
                        ELSE IF m < l /\ x = s[m + 1] THEN (IF m = 1 THEN NULL ELSE before)
                        ELSE prev[x]
  BY <1>10, <1>12
<1>14. \A x \in Node :
          /\ next'[x] = IF x = s[m] THEN NULL
                        ELSE IF m > 1 /\ x = s[m - 1]
                             THEN (IF m = l THEN NULL ELSE s[m + 1])
                        ELSE next[x]
          /\ prev'[x] = IF x = s[m] THEN NULL
                        ELSE IF m < l /\ x = s[m + 1]
                             THEN (IF m = 1 THEN NULL ELSE s[m - 1])
                        ELSE prev[x]
  BY <1>13 DEF before, after
<1>15. head' = IF m = 1 THEN (IF m = l THEN NULL ELSE s[m + 1]) ELSE head
  BY <1>10 DEF after
<1>16. RemovedAt(s, m)
  BY <1>6, <1>11, <1>14, <1>15 DEF RemovedAt
<1> QED
  BY <1>1, <1>2, <1>16, Removed
-----------------------------------------------------------------------------
(* The walk.                                                                *)
Walk == [at : Key \cup {First}, seen : SUBSET Key, present : SUBSET Key, again : BOOLEAN]

LEMMA CreateKeepsWalk ==
    ASSUME ListInv, NEW k \in Key, NEW n \in Node, Create(k, n)
    PROVE  WalkInv'
<1>1. /\ walk' = walk /\ allocated' = allocated \cup {n} /\ n \notin allocated
      /\ key' = [key EXCEPT ![n] = k]
  BY DEF Create
<1>2. PICK s \in Seq(Node) : allocated = {s[i] : i \in DOMAIN s}
  BY DEF ListInv, IsList, Lists, Holds
<1>3. \A o \in allocated : key'[o] = key[o]
  <2>1. allocated \subseteq Node
    BY <1>2
  <2> QED
    BY <1>1, <2>1 DEF ListInv, FieldsTyped
<1>4. WalkInv
  BY DEF ListInv
<1>5. \A c \in walk.present : \E o \in allocated : c = key[o]
  BY <1>4 DEF WalkInv
<1>6. \A c \in walk.present : \E o \in allocated' : c = key'[o]
  BY <1>1, <1>3, <1>5
<1> QED
  BY <1>1, <1>4, <1>6 DEF WalkInv

LEMMA DeleteKeepsWalk ==
    ASSUME ListInv, NEW k \in Key, Delete(k)
    PROVE  WalkInv'
<1>1. PICK s \in Seq(Node) : Lists(s)
  BY DEF ListInv, IsList
<1>2. PICK m \in DOMAIN s : FindExact(k) = s[m] /\ key[s[m]] = k
  BY <1>1, FindExactIs DEF Delete, ListInv
<1>3. /\ walk' = [walk EXCEPT !.present = walk.present \ {k}]
      /\ allocated' = allocated \ {s[m]} /\ key' = [key EXCEPT ![s[m]] = First]
  BY <1>2 DEF Delete
<1>4. WalkInv /\ walk \in Walk
  BY DEF ListInv, WalkInv, Walk
<1>5. /\ walk' \in Walk /\ walk'.at = walk.at /\ walk'.seen = walk.seen
      /\ walk'.again = walk.again /\ walk'.present = walk.present \ {k}
  BY <1>3, <1>4 DEF Walk
<1>6. allocated \subseteq Node
  BY <1>1 DEF Lists, Holds
<1>7. \A o \in allocated' : key'[o] = key[o]
  BY <1>3, <1>6 DEF ListInv, FieldsTyped
<1>8. \A c \in walk.present : c # k => \E o \in allocated' : c = key'[o]
  <2> SUFFICES ASSUME NEW c \in walk.present, c # k
               PROVE  \E o \in allocated' : c = key'[o]
    OBVIOUS
  <2>1. PICK o \in allocated : c = key[o]
    BY <1>4 DEF WalkInv
  <2>2. o \in allocated'
    BY <1>2, <1>3, <2>1
  <2> QED
    BY <1>7, <2>1, <2>2
<1>9. \A c \in walk'.present : \E o \in allocated' : c = key'[o]
  BY <1>5, <1>8
<1>10. \A c \in walk'.present : Less(walk'.at, c) \/ c \in walk'.seen
  BY <1>4, <1>5 DEF WalkInv
<1>11. (\A c \in walk'.seen : c = walk'.at \/ Less(c, walk'.at))
       /\ (NextIsStrict => ~walk'.again)
  BY <1>4, <1>5 DEF WalkInv
<1> QED
  BY <1>5, <1>9, <1>10, <1>11 DEF WalkInv, Walk

LEMMA WalkOnKeepsWalk ==
    ASSUME ListInv, WalkOn
    PROVE  WalkInv'
<1>1. PICK s \in Seq(Node) : Lists(s)
  BY DEF ListInv, IsList
<1>2. PICK m \in DOMAIN s :
         /\ FindNext(walk.at) = s[m]
         /\ Less(walk.at, key[s[m]]) \/ (~NextIsStrict /\ walk.at = key[s[m]])
         /\ \A i \in DOMAIN s : i < m => ~Less(walk.at, key[s[i]])
  BY <1>1, FindNextIs DEF WalkOn, ListInv
<1> DEFINE new == key[s[m]]
<1>3. new \in Key /\ \A i, j \in DOMAIN s : i < j => Less(key[s[i]], key[s[j]])
  BY <1>1 DEF Lists, Ordered
<1>4. WalkInv /\ walk \in Walk
  BY DEF ListInv, WalkInv, Walk
<1>5. walk' = [walk EXCEPT !.at = new, !.seen = walk.seen \cup {new}, !.again = new \in walk.seen]
      /\ allocated' = allocated /\ key' = key
  BY <1>2 DEF WalkOn, listVars
<1>6. Less(walk.at, new) \/ (~NextIsStrict /\ walk.at = new)
  BY <1>2
<1> HIDE DEF new
<1> DEFINE again == new \in walk.seen
<1>7. again \in BOOLEAN
  OBVIOUS
<1>8. again <=> new \in walk.seen
  OBVIOUS
<1> HIDE DEF again
<1>9. /\ walk' \in Walk /\ walk'.at = new /\ walk'.seen = walk.seen \cup {new}
      /\ walk'.again = again /\ walk'.present = walk.present
  <2>1. walk' = [walk EXCEPT !.at = new, !.seen = walk.seen \cup {new}, !.again = again]
    BY <1>5 DEF again
  <2> QED
    BY <1>3, <1>4, <1>7, <2>1 DEF Walk
<1>10. walk.at \in Triple /\ new \in Triple /\ walk.seen \subseteq Triple
       /\ \A i \in DOMAIN s : key[s[i]] \in Triple
  BY <1>1, <1>3, <1>4, KeysAreOrdered DEF Walk, Lists, Ordered
<1>11. \A c \in walk.seen : c = walk.at \/ Less(c, walk.at)
  BY <1>4 DEF WalkInv
<1>12. \A c \in walk'.seen : c = walk'.at \/ Less(c, walk'.at)
  BY <1>6, <1>9, <1>10, <1>11, LessOrders
<1>13. \A c \in walk'.present : Less(walk'.at, c) \/ c \in walk'.seen
  <2> SUFFICES ASSUME NEW c \in walk.present, c \notin walk.seen
               PROVE  Less(new, c) \/ c = new
    BY <1>9
  <2>1. Less(walk.at, c) /\ \E o \in allocated : c = key[o]
    BY <1>4 DEF WalkInv
  <2>2. PICK i \in DOMAIN s : c = key[s[i]]
    BY <1>1, <2>1 DEF Lists, Holds
  <2>3. ~(i < m)
    BY <1>2, <2>1, <2>2
  <2>4. i = m \/ m < i
    BY <1>1, <2>3 DEF Lists, Linked
  <2> QED
    BY <1>3, <2>2, <2>4 DEF new
<1>14. NextIsStrict => ~again
  BY <1>6, <1>8, <1>10, <1>11, LessOrders
<1>15. \A c \in walk'.present : \E o \in allocated' : c = key'[o]
  BY <1>4, <1>5, <1>9 DEF WalkInv
<1>16. NextIsStrict => ~walk'.again
  BY <1>9, <1>14
<1> QED
  BY <1>9, <1>12, <1>13, <1>15, <1>16 DEF WalkInv, Walk

LEMMA WalkEndsKeepsWalk ==
    ASSUME ListInv, WalkEnds
    PROVE  WalkInv' /\ walk.present \subseteq walk.seen
<1>1. PICK s \in Seq(Node) : Lists(s)
  BY DEF ListInv, IsList
<1>2. FieldsTyped /\ Linked(s) /\ WalkInv
  BY <1>1 DEF ListInv, Lists
<1>3. Members = {key[s[m]] : m \in DOMAIN s}
  BY <1>2, ChainIs DEF Members
<1>4. Members \subseteq Key /\ \A c \in Members : \E o \in allocated : c = key[o]
  BY <1>1, <1>3 DEF Lists, Holds, Ordered
<1>5. walk' = [at |-> First, seen |-> {}, present |-> Members, again |-> FALSE]
      /\ allocated' = allocated /\ key' = key
  BY DEF WalkEnds, listVars
<1>6. WalkInv'
  BY <1>4, <1>5, KeysAreOrdered DEF WalkInv
<1>7. \A i \in DOMAIN s : ~Less(walk.at, key[s[i]])
  <2>1. FindNext(walk.at) = NULL
    BY DEF WalkEnds
  <2> QED
    BY <1>1, <1>2, <2>1, FindNextIs
<1>8. ASSUME NEW c \in walk.present PROVE c \in walk.seen
  <2>1. (\E o \in allocated : c = key[o]) /\ (Less(walk.at, c) \/ c \in walk.seen)
    BY <1>2 DEF WalkInv
  <2>2. PICK i \in DOMAIN s : c = key[s[i]]
    BY <1>1, <2>1 DEF Lists, Holds
  <2> QED
    BY <1>7, <2>1, <2>2
<1> QED
  BY <1>6, <1>8
-----------------------------------------------------------------------------
LEMMA StepKeepsList == ListInv /\ [Next]_vars => ListInv'
<1> SUFFICES ASSUME ListInv, [Next]_vars PROVE ListInv'
  OBVIOUS
<1>1. ASSUME NEW k \in Key, NEW n \in Node, Create(k, n) PROVE ListInv'
  BY <1>1, CreateKeepsList, CreateKeepsWalk DEF ListInv
<1>2. ASSUME NEW k \in Key, Delete(k) PROVE ListInv'
  BY <1>2, DeleteKeepsList, DeleteKeepsWalk DEF ListInv
<1>3. CASE UNCHANGED listVars /\ WalkInv'
  BY <1>3 DEF ListInv, listVars, FieldsTyped, IsList, Lists, Linked, Holds, Ordered
<1>4. CASE WalkOn
  BY <1>3, <1>4, WalkOnKeepsWalk DEF WalkOn
<1>5. CASE WalkEnds
  BY <1>3, <1>5, WalkEndsKeepsWalk DEF WalkEnds
<1>6. CASE UNCHANGED vars
  <2>1. WalkInv'
    BY <1>6 DEF vars, listVars, ListInv, WalkInv
  <2>2. UNCHANGED listVars
    BY <1>6 DEF vars
  <2> QED
    BY <1>3, <2>1, <2>2
<1> QED
  BY <1>1, <1>2, <1>4, <1>5, <1>6 DEF Next

LEMMA AlwaysAList == Spec => []ListInv
<1>1. Init => ListInv
  BY InitList
<1> QED
  BY <1>1, StepKeepsList, PTL DEF Spec

(* The list is sorted: keys are unique and a search for the next key is     *)
(* right to stop at the first that is greater.                              *)
Sorted ==
    \A m \in 1 .. Len(Chain) - 1 : Less(key[Chain[m]], key[Chain[m + 1]])


(* What the list promises, in every state that has one.                     *)
LEMMA ListPromises ==
    ASSUME ListInv
    PROVE  TypeOK /\ NoLeakNoDangling /\ LinksMatch /\ Sorted /\ (NextIsStrict => WalkAdvances)
<1>1. PICK s \in Seq(Node) : Lists(s)
  BY DEF ListInv, IsList
<1>2. FieldsTyped /\ WalkInv /\ Linked(s) /\ Holds(s) /\ Ordered(s)
  BY <1>1 DEF ListInv, Lists
<1>3. Chain = s
  BY <1>2, ChainIs
<1>4. TypeOK
  <2>1. head \in Node \cup {NULL}
    BY <1>2 DEF Linked
  <2>2. count \in 0 .. MaxCount
    BY <1>2, ListAssumption DEF ListAssumption, Holds, Linked
  <2>3. allocated \subseteq Node
    BY <1>2 DEF Holds
  <2> QED
    BY <1>2, <2>1, <2>2, <2>3 DEF TypeOK, FieldsTyped, WalkInv
<1>5. NoLeakNoDangling
  <2>1. Cardinality({s[i] : i \in DOMAIN s}) = Len(s)
    BY <1>2, NodesBound
  <2> QED
    BY <1>2, <1>3, <2>1 DEF NoLeakNoDangling, Holds
<1>6. LinksMatch
  BY <1>2, <1>3 DEF LinksMatch, Linked
<1>7. Sorted
  <2>1. \A m \in 1 .. Len(s) - 1 : m \in DOMAIN s /\ m + 1 \in DOMAIN s /\ m < m + 1
    OBVIOUS
  <2> QED
    BY <1>2, <1>3, <2>1 DEF Sorted, Ordered
<1> QED
  BY <1>2, <1>4, <1>5, <1>6, <1>7 DEF WalkInv, WalkAdvances

(* Every variable has its type.                                             *)
THEOREM ListTypes == Spec => []TypeOK
  BY AlwaysAList, ListPromises, PTL

(* faRemoteIsidVlanAsgnAdd and faRemoteIsidVlanAsgnDelete, in whatever      *)
(* order they are called, leave a list that holds the allocated nodes, each *)
(* of them once, and whose length is the counter.                           *)
THEOREM ListHoldsTheAllocated == Spec => []NoLeakNoDangling
  BY AlwaysAList, ListPromises, PTL

(* They leave the links back right, at both ends and in between.            *)
THEOREM ListGoesBothWays == Spec => []LinksMatch
  BY AlwaysAList, ListPromises, PTL

(* They leave the list sorted, so that each key is there once.              *)
THEOREM ListIsSorted == Spec => []Sorted
  BY AlwaysAList, ListPromises, PTL

(* A client that goes through the list with faRemoteIsidVlanAsgnQuery gets  *)
(* nothing twice, however the list changes under it, when the comparison is *)
(* that of faRemoteIsidVlanAsgnFind, which looks for a greater key.         *)
THEOREM WalksAdvance ==
    ASSUME NextIsStrict
    PROVE  Spec => []WalkAdvances
<1>1. ListInv => WalkAdvances
  BY ListPromises
<1> QED
  BY <1>1, AlwaysAList, PTL

(* When such a walk ends it has seen all that was there all the time, with  *)
(* either comparison.                                                       *)
THEOREM WalksAreComplete == Spec => WalkIsComplete
<1> DEFINE Kept == WalkEnds => walk.present \subseteq walk.seen
<1>1. ListInv /\ [Next]_vars => [Kept]_vars
  BY WalkEndsKeepsWalk
<1> QED
  BY <1>1, AlwaysAList, PTL DEF Spec, WalkIsComplete
-----------------------------------------------------------------------------
(* The queries by interface, of a list that stands for a sorted sequence of *)
(* keys.                                                                    *)
Increases(keys) ==
    /\ keys \in Seq(Key)
    /\ \A i, j \in DOMAIN keys : i < j => Less(keys[i], keys[j])

KeysAt(keys, places) == {keys[p] : p \in places}

(* The places of an interface, and of what lies behind a key.               *)
PlacesOf(keys, ifc) == {p \in DOMAIN keys : keys[p][1] = ifc}
PlacesAfter(keys, k) == {p \in DOMAIN keys : Less(k, keys[p])}
Before(places, p) == {q \in places : q < p}

LEMMA KeyTriples ==
    ASSUME NEW keys, Increases(keys)
    PROVE  /\ Len(keys) \in Nat /\ DOMAIN keys = 1 .. Len(keys)
           /\ \A p \in DOMAIN keys :
                 /\ keys[p] \in Key /\ keys[p] \in Triple
                 /\ keys[p][1] \in Nat
           /\ \A p, q \in DOMAIN keys : /\ keys[p] = keys[q] => p = q
                                        /\ Less(keys[p], keys[q]) <=> p < q
<1>1. keys \in Seq(Key) /\ Len(keys) \in Nat /\ DOMAIN keys = 1 .. Len(keys)
  BY DEF Increases
<1>2. \A p \in DOMAIN keys : keys[p] \in Key /\ keys[p] \in Triple
  BY <1>1, KeysAreOrdered
<1>3. \A p \in DOMAIN keys : keys[p][1] \in Nat
  BY <1>2 DEF Triple
<1>4. ASSUME NEW p \in DOMAIN keys, NEW q \in DOMAIN keys
      PROVE  /\ keys[p] = keys[q] => p = q
             /\ Less(keys[p], keys[q]) <=> p < q
  <2>1. p \in Nat /\ q \in Nat
    BY <1>1
  <2>2. /\ p < q => Less(keys[p], keys[q])
        /\ q < p => Less(keys[q], keys[p])
    BY DEF Increases
  <2>3. /\ ~Less(keys[p], keys[p]) /\ ~Less(keys[q], keys[q])
        /\ Less(keys[p], keys[q]) /\ Less(keys[q], keys[p]) => Less(keys[p], keys[p])
    BY <1>2, LessOrders
  <2>4. p < q \/ q < p \/ p = q
    BY <2>1
  <2>5. p < q => ~(q < p) /\ p # q
    BY <2>1
  <2> QED
    BY <2>2, <2>3, <2>4, <2>5
<1> QED
  BY <1>1, <1>2, <1>3, <1>4

LEMMA KeysAtSize ==
    ASSUME NEW keys, Increases(keys), NEW places \in SUBSET DOMAIN keys
    PROVE  /\ IsFiniteSet(places) /\ Cardinality(places) \in Nat
           /\ Cardinality(KeysAt(keys, places)) = Cardinality(places)
<1>1. IsFiniteSet(places) /\ Cardinality(places) \in Nat
  <2>1. IsFiniteSet(1 .. Len(keys))
    BY KeyTriples, FS_Interval
  <2> QED
    BY <2>1, KeyTriples, FS_Subset, FS_CardinalityType
<1> DEFINE f == [p \in places |-> keys[p]]
<1>2. f \in [places -> KeysAt(keys, places)]
  BY DEF KeysAt
<1>3. \A p, q \in places : f[p] = f[q] => p = q
  BY KeyTriples
<1>4. \A e \in KeysAt(keys, places) : \E p \in places : f[p] = e
  BY DEF KeysAt
<1> HIDE DEF f
<1> QED
  BY <1>1, <1>2, <1>3, <1>4, SameSize

LEMMA KeysAtIs ==
    ASSUME NEW keys, NEW places, NEW k
    PROVE  k \in KeysAt(keys, places) <=> \E p \in places : keys[p] = k
  BY DEF KeysAt

(* What the first of a list are.                                            *)
LEMMA FirstOfIs ==
    ASSUME NEW S, NEW s \in Seq(S), NEW most \in Nat
    PROVE  /\ FirstOf(s, most) \in Seq(S)
           /\ Len(FirstOf(s, most)) = Min({most, Len(s)})
           /\ \A m \in DOMAIN FirstOf(s, most) :
                 m \in DOMAIN s /\ FirstOf(s, most)[m] = s[m]
<1> DEFINE l == Min({most, Len(s)})
<1>1. l \in Nat /\ l <= Len(s)
  <2>1. l = IF most <= Len(s) THEN most ELSE Len(s)
    BY MinOfTwo
  <2> QED
    BY <2>1
<1> HIDE DEF l
<1>2. FirstOf(s, most) = SubSeq(s, 1, l)
  BY DEF FirstOf, l
<1>3. /\ SubSeq(s, 1, l) \in Seq(S) /\ Len(SubSeq(s, 1, l)) = l
      /\ \A m \in 1 .. l : SubSeq(s, 1, l)[m] = s[m]
  BY <1>1, SubSeqProperties
<1>4. DOMAIN SubSeq(s, 1, l) = 1 .. l /\ 1 .. l \subseteq DOMAIN s
  BY <1>1, <1>3
<1> QED
  BY <1>2, <1>3, <1>4 DEF l

(* The m-th place in which a loop stops.                                    *)
LEMMA PlaceIs ==
    ASSUME NEW P \in SUBSET Nat, IsFiniteSet(P), NEW m \in 1 .. Cardinality(P)
    PROVE  /\ Place(P, m) \in P
           /\ Cardinality(Before(P, Place(P, m))) = m - 1
  BY Ranks, Zenon DEF Place, Before

(* The keys of an interface, in the order of the list.                      *)
LEMMA KeysInIs ==
    ASSUME NEW nodes, NEW keys, Increases(keys), DOMAIN nodes = DOMAIN keys,
           \A p \in DOMAIN keys : key[nodes[p]] = keys[p],
           NEW ifc
    PROVE  /\ KeysIn(nodes, ifc) \in Seq(Key)
           /\ Len(KeysIn(nodes, ifc)) = Cardinality(PlacesOf(keys, ifc))
           /\ \A m \in DOMAIN KeysIn(nodes, ifc) :
                 \E p \in PlacesOf(keys, ifc) :
                    /\ KeysIn(nodes, ifc)[m] = keys[p]
                    /\ Cardinality(Before(PlacesOf(keys, ifc), p)) = m - 1
<1> DEFINE P == PlacesOf(keys, ifc)
           n == Cardinality(P)
<1>1. P \in SUBSET DOMAIN keys
  BY DEF PlacesOf
<1>2. IsFiniteSet(P) /\ n \in Nat
  BY <1>1, KeysAtSize
<1>3. P \in SUBSET Nat
  BY <1>1, KeyTriples
<1>4. P = {p \in DOMAIN nodes : key[nodes[p]][1] = ifc}
  BY DEF PlacesOf
<1>5. KeysIn(nodes, ifc) = [m \in 1 .. n |-> key[nodes[Place(P, m)]]]
  BY <1>4 DEF KeysIn
<1> HIDE DEF P, n
<1>6. ASSUME NEW m \in 1 .. n
      PROVE  /\ Place(P, m) \in P
             /\ Cardinality(Before(P, Place(P, m))) = m - 1
             /\ key[nodes[Place(P, m)]] = keys[Place(P, m)]
             /\ keys[Place(P, m)] \in Key
  <2>1. /\ Place(P, m) \in P
        /\ Cardinality(Before(P, Place(P, m))) = m - 1
    BY <1>2, <1>3, PlaceIs DEF n
  <2> QED
    BY <2>1, <1>1, KeyTriples
<1>7. \A m \in 1 .. n : KeysIn(nodes, ifc)[m] = keys[Place(P, m)]
  BY <1>5, <1>6
<1>8. KeysIn(nodes, ifc) \in Seq(Key) /\ DOMAIN KeysIn(nodes, ifc) = 1 .. n
  <2>1. KeysIn(nodes, ifc) \in [1 .. n -> Key]
    BY <1>5, <1>6
  <2> QED
    BY <2>1, <1>2
<1>9. Len(KeysIn(nodes, ifc)) = n
  BY <1>8, <1>2
<1>10. \A m \in 1 .. n : \E p \in P :
          /\ KeysIn(nodes, ifc)[m] = keys[p]
          /\ Cardinality(Before(P, p)) = m - 1
  <2> TAKE m \in 1 .. n
  <2> DEFINE p == Place(P, m)
  <2>1. /\ p \in P /\ Cardinality(Before(P, p)) = m - 1
        /\ KeysIn(nodes, ifc)[m] = keys[p]
    BY <1>6, <1>7
  <2> HIDE DEF p
  <2> QED
    BY <2>1
<1> QED
  BY <1>8, <1>9, <1>10 DEF P, n

(* A sorted list splits at a key: what is greater lies behind one place.    *)
LEMMA SplitsAt ==
    ASSUME NEW keys, Increases(keys), NEW k \in Triple
    PROVE  \E b \in 0 .. Len(keys) :
              \A p \in DOMAIN keys : Less(k, keys[p]) <=> p > b
<1> DEFINE n == Len(keys)
           T == {p \in DOMAIN keys : Less(k, keys[p])}
<1>1. n \in Nat /\ DOMAIN keys = 1 .. n
  BY KeyTriples
<1> HIDE DEF n
<1>2. CASE T = {}
  <2>1. \A p \in DOMAIN keys : ~Less(k, keys[p]) /\ ~(p > n)
    BY <1>1, <1>2
  <2>2. n \in 0 .. n
    BY <1>1
  <2> QED
    BY <2>1, <2>2 DEF n
<1>3. CASE T # {}
  <2>0. T \in SUBSET Nat
    BY <1>1
  <2>1. PICK x \in T : \A y \in T : x <= y
    <3> HIDE DEF T
    <3> QED
      BY <1>3, <2>0, LeastNatural
  <2>2. x \in 1 .. n /\ Less(k, keys[x])
    BY <1>1
  <2>3. ASSUME NEW p \in DOMAIN keys PROVE Less(k, keys[p]) <=> p > x - 1
    <3>1. p \in Nat /\ x \in Nat
      BY <1>1, <2>2
    <3>2. Less(k, keys[p]) => x <= p
      BY <2>1
    <3>3. CASE x < p
      <4>1. Less(keys[x], keys[p])
        BY <3>3, <1>1, <2>2, KeyTriples
      <4>2. keys[x] \in Triple /\ keys[p] \in Triple
        BY <1>1, <2>2, KeyTriples
      <4>3. Less(k, keys[p])
        BY <2>2, <4>1, <4>2, LessOrders
      <4> QED
        BY <3>1, <3>3, <4>3
    <3>4. CASE x = p
      BY <3>1, <3>4, <2>2
    <3>5. CASE p < x
      BY <3>1, <3>2, <3>5
    <3> QED
      BY <3>1, <3>3, <3>4, <3>5
  <2>4. x - 1 \in 0 .. n
    BY <1>1, <2>2
  <2> QED
    BY <2>3, <2>4 DEF n
<1> QED
  BY <1>2, <1>3

(* So the search for the next entry returns the one behind that place.      *)
LEMMA FindNextAt ==
    ASSUME NextIsStrict, FieldsTyped, NEW s, Lists(s), NEW k, NEW b \in 0 .. Len(s),
           \A p \in DOMAIN s : Less(k, key[s[p]]) <=> p > b
    PROVE  FindNext(k) = IF b + 1 <= Len(s) THEN s[b + 1] ELSE NULL
<1> DEFINE n == Len(s)
<1>1. n \in Nat /\ DOMAIN s = 1 .. n
  BY DEF Lists, Linked
<1> HIDE DEF n
<1>2. CASE FindNext(k) = NULL /\ \A i \in DOMAIN s : ~Less(k, key[s[i]])
  <2>1. ~(b + 1 <= n)
    <3> SUFFICES ASSUME b + 1 <= n PROVE FALSE
      OBVIOUS
    <3>1. b + 1 \in DOMAIN s /\ b + 1 > b
      BY <1>1 DEF n
    <3> QED
      BY <3>1, <1>2
  <2> QED
    BY <1>2, <2>1 DEF n
<1>3. ASSUME NEW m \in DOMAIN s, FindNext(k) = s[m],
             Less(k, key[s[m]]) \/ (~NextIsStrict /\ k = key[s[m]]),
             \A i \in DOMAIN s : i < m => ~Less(k, key[s[i]])
      PROVE  FindNext(k) = IF b + 1 <= n THEN s[b + 1] ELSE NULL
  <2>1. m > b
    BY <1>3
  <2>2. b + 1 \in DOMAIN s /\ b + 1 > b
    BY <1>1, <1>3, <2>1 DEF n
  <2>3. Less(k, key[s[b + 1]])
    BY <2>2
  <2>4. ~(b + 1 < m)
    BY <1>3, <2>2, <2>3
  <2>5. m = b + 1
    BY <1>1, <2>1, <2>4 DEF n
  <2> QED
    BY <1>1, <1>3, <2>5
<1> QED
  BY <1>2, <1>3, FindNextIs DEF n

(* One search after another goes along the list.                            *)
LEMMA SearchFromIs ==
    ASSUME NextIsStrict, FieldsTyped, NEW s, Lists(s), NEW ifc, NEW b \in 0 .. Len(s),
           \A p \in DOMAIN s : Less(<<ifc, 0, 1>>, key[s[p]]) <=> p > b
    PROVE  /\ DOMAIN SearchFrom(ifc) = 1 .. Cardinality(Node) + 1
           /\ \A m \in 1 .. Cardinality(Node) + 1 :
                 SearchFrom(ifc)[m] = IF b + m <= Len(s) THEN s[b + m] ELSE NULL
<1> DEFINE N == Cardinality(Node)
           n == Len(s)
           f == [m \in 1 .. N + 1 |-> IF b + m <= n THEN s[b + m] ELSE NULL]
           Finds(at) == at = [m \in 1 .. N + 1 |->
                                IF m = 1 THEN FindNext(<<ifc, 0, 1>>)
                                ELSE IF at[m - 1] = NULL THEN NULL
                                ELSE FindNext(key[at[m - 1]])]
<1>1. N \in Nat /\ n \in Nat /\ DOMAIN s = 1 .. n
  <2>1. Linked(s)
    BY DEF Lists
  <2>2. N \in Nat /\ n \in Nat
    BY <2>1, NodesBound
  <2> QED
    BY <2>1, <2>2 DEF Linked
<1>2. \A p \in DOMAIN s : s[p] # NULL
  BY ListAssumption DEF ListAssumption, Lists, Linked
<1>3. FindNext(<<ifc, 0, 1>>) = IF b + 1 <= n THEN s[b + 1] ELSE NULL
  BY FindNextAt
<1>4. ASSUME NEW c \in DOMAIN s
      PROVE  FindNext(key[s[c]]) = IF c + 1 <= n THEN s[c + 1] ELSE NULL
  <2>1. c \in 0 .. Len(s)
    BY <1>1
  <2>2. \A p \in DOMAIN s : key[s[p]] \in Triple
    BY KeysAreOrdered DEF Lists, Ordered
  <2>3. ASSUME NEW p \in DOMAIN s PROVE Less(key[s[c]], key[s[p]]) <=> p > c
    <3>1. p \in Nat /\ c \in Nat
      BY <1>1
    <3>2. /\ c < p => Less(key[s[c]], key[s[p]])
          /\ p < c => Less(key[s[p]], key[s[c]])
      BY DEF Lists, Ordered
    <3>3. /\ ~Less(key[s[p]], key[s[p]]) /\ ~Less(key[s[c]], key[s[c]])
          /\ Less(key[s[p]], key[s[c]]) /\ Less(key[s[c]], key[s[p]])
                => Less(key[s[p]], key[s[p]])
      BY <2>2, LessOrders
    <3>4. /\ c < p \/ p < c \/ p = c
          /\ p > c <=> c < p
          /\ p < c => ~(c < p)
          /\ p = c => ~(c < p)
      BY <3>1
    <3> QED
      BY <3>2, <3>3, <3>4
  <2> QED
    BY <2>1, <2>3, FindNextAt
<1> HIDE DEF N, n
<1>5. Finds(f)
  <2>1. ASSUME NEW m \in 1 .. N + 1
        PROVE  f[m] = IF m = 1 THEN FindNext(<<ifc, 0, 1>>)
                      ELSE IF f[m - 1] = NULL THEN NULL ELSE FindNext(key[f[m - 1]])
    <3>1. CASE m = 1
      BY <3>1, <1>1, <1>3
    <3>2. CASE m # 1
      <4> DEFINE c == b + (m - 1)
      <4>1. m - 1 \in 1 .. N + 1 /\ c \in Nat /\ c >= 1 /\ b + m = c + 1
        BY <3>2, <1>1 DEF n
      <4>2. f[m - 1] = IF c <= n THEN s[c] ELSE NULL
        BY <4>1
      <4>3. f[m] = IF c + 1 <= n THEN s[c + 1] ELSE NULL
        BY <4>1
      <4> HIDE DEF f, c
      <4>4. CASE c <= n
        <5>1. c \in DOMAIN s
          BY <1>1, <4>1, <4>4
        <5> QED
          BY <3>2, <4>2, <4>3, <4>4, <5>1, <1>2, <1>4
      <4>5. CASE ~(c <= n)
        <5>1. ~(c + 1 <= n)
          BY <1>1, <4>1, <4>5
        <5> QED
          BY <3>2, <4>2, <4>3, <4>5, <5>1
      <4> QED
        BY <4>4, <4>5
    <3> QED
      BY <3>1, <3>2
  <2> QED
    BY <2>1
<1>6. Finds(SearchFrom(ifc))
  <2>1. SearchFrom(ifc) = CHOOSE at : Finds(at)
    BY DEF SearchFrom, N
  <2> HIDE DEF Finds
  <2> QED
    BY <1>5, <2>1
<1> DEFINE at == SearchFrom(ifc)
           T == {m \in Nat : m + 1 <= N + 1 => at[m + 1] = f[m + 1]}
<1>7. \A m \in 1 .. N + 1 :
        /\ at[m] = IF m = 1 THEN FindNext(<<ifc, 0, 1>>)
                   ELSE IF at[m - 1] = NULL THEN NULL ELSE FindNext(key[at[m - 1]])
        /\ f[m] = IF m = 1 THEN FindNext(<<ifc, 0, 1>>)
                  ELSE IF f[m - 1] = NULL THEN NULL ELSE FindNext(key[f[m - 1]])
  <2> HIDE DEF at, f
  <2> QED
    BY <1>5, <1>6 DEF at
<1>8. DOMAIN at = 1 .. N + 1
  <2> HIDE DEF at
  <2> QED
    BY <1>6 DEF at
<1> HIDE DEF at, f, Finds
<1>9. 0 \in T
  <2>1. PICK z \in 1 .. N + 1 : z = 1
    BY <1>1
  <2>2. at[z] = f[z]
    BY <1>7, <2>1
  <2> QED
    BY <2>1, <2>2
<1>10. ASSUME NEW m \in Nat, m \in T PROVE m + 1 \in T
  <2> SUFFICES ASSUME (m + 1) + 1 <= N + 1 PROVE at[(m + 1) + 1] = f[(m + 1) + 1]
    OBVIOUS
  <2>1. at[m + 1] = f[m + 1]
    BY <1>1, <1>10
  <2>2. PICK z \in 1 .. N + 1 : z = (m + 1) + 1
    BY <1>1
  <2>3. z # 1 /\ z - 1 = m + 1
    BY <2>2
  <2>4. at[z - 1] = f[z - 1]
    BY <2>1, <2>3
  <2>5. at[z] = f[z]
    BY <1>7, <2>3, <2>4
  <2> QED
    BY <2>2, <2>5
<1> HIDE DEF T
<1>11. \A m \in Nat : m \in T
  BY <1>9, <1>10, AllNaturals
<1>12. \A m \in 1 .. N + 1 : at[m] = f[m]
  <2> TAKE m \in 1 .. N + 1
  <2>1. PICK z \in Nat : m = z + 1
    <3>1. m - 1 \in Nat /\ m = (m - 1) + 1
      BY <1>1
    <3> QED
      BY <3>1
  <2>2. z \in T /\ z + 1 <= N + 1
    BY <1>1, <1>11, <2>1
  <2> QED
    BY <2>1, <2>2 DEF T
<1>13. \A m \in 1 .. N + 1 : f[m] = IF b + m <= n THEN s[b + m] ELSE NULL
  BY DEF f
<1>14. \A m \in 1 .. N + 1 : at[m] = IF b + m <= n THEN s[b + m] ELSE NULL
  BY <1>12, <1>13
<1> QED
  BY <1>8, <1>14 DEF at, N, n

(* What the searches count is what lies behind the place where they start,  *)
(* until the first entry of another interface.                              *)
LEMMA CountIs ==
    ASSUME NextIsStrict, FieldsTyped, NEW s, Lists(s),
           NEW keys, Increases(keys), DOMAIN keys = DOMAIN s,
           \A p \in DOMAIN s : key[s[p]] = keys[p],
           NEW ifc \in Nat
    PROVE  CountByIfc(ifc) =
              Cardinality(PlacesOf(keys, ifc) \cap PlacesAfter(keys, <<ifc, 0, 1>>))
<1> DEFINE first == <<ifc, 0, 1>>
           N == Cardinality(Node)
           n == Len(s)
           Q == PlacesOf(keys, ifc) \cap PlacesAfter(keys, first)
<1>1. /\ N \in Nat /\ n \in Nat /\ n <= N /\ DOMAIN s = 1 .. n /\ Len(keys) = n
      /\ \A p \in DOMAIN s : s[p] # NULL
  <2>1. Linked(s)
    BY DEF Lists
  <2>2. N \in Nat /\ n \in Nat /\ n <= N
    BY <2>1, NodesBound
  <2>3. DOMAIN s = 1 .. n /\ \A p \in DOMAIN s : s[p] # NULL
    BY <2>1, ListAssumption DEF ListAssumption, Linked
  <2>4. DOMAIN keys = 1 .. Len(keys) /\ Len(keys) \in Nat
    BY KeyTriples
  <2>5. Len(keys) = n
    BY <2>2, <2>3, <2>4
  <2> QED
    BY <2>2, <2>3, <2>5
<1>2. first \in Triple
  BY DEF Triple
<1>3. PICK b \in 0 .. n : \A p \in DOMAIN keys : Less(first, keys[p]) <=> p > b
  BY <1>1, <1>2, SplitsAt
<1>4. /\ DOMAIN SearchFrom(ifc) = 1 .. N + 1
      /\ \A m \in 1 .. N + 1 :
            SearchFrom(ifc)[m] = IF b + m <= n THEN s[b + m] ELSE NULL
  <2>1. \A p \in DOMAIN s : Less(<<ifc, 0, 1>>, key[s[p]]) <=> p > b
    BY <1>3
  <2> QED
    BY <2>1, SearchFromIs
<1> DEFINE at == SearchFrom(ifc)
           M == {m \in 1 .. N + 1 :
                   \A j \in 1 .. m : at[j] # NULL /\ key[at[j]][1] = ifc}
<1>5. CountByIfc(ifc) = Cardinality(M)
  BY <1>4 DEF CountByIfc
<1> HIDE DEF N, n, at, first
<1>6. ASSUME NEW j \in 1 .. N + 1
      PROVE  at[j] # NULL /\ key[at[j]][1] = ifc
               <=> b + j <= n /\ keys[b + j][1] = ifc
  <2>1. at[j] = IF b + j <= n THEN s[b + j] ELSE NULL
    BY <1>4 DEF at
  <2>2. CASE b + j <= n
    <3>1. b + j \in DOMAIN s
      BY <1>1, <2>2
    <3>2. s[b + j] # NULL /\ key[s[b + j]] = keys[b + j]
      BY <1>1, <3>1
    <3> QED
      BY <2>1, <2>2, <3>2
  <2>3. CASE ~(b + j <= n)
    BY <2>1, <2>3
  <2> QED
    BY <2>2, <2>3
<1>7. ASSUME NEW p \in Q
      PROVE  /\ p \in 1 .. n /\ p > b /\ keys[p][1] = ifc
             /\ \A q \in 1 .. n : q > b /\ q <= p => keys[q][1] = ifc
  <2>1. p \in 1 .. n /\ p > b /\ keys[p][1] = ifc
    BY <1>1, <1>3 DEF PlacesOf, PlacesAfter
  <2>2. ASSUME NEW q \in 1 .. n, q > b, q <= p
        PROVE  keys[q][1] = ifc
    <3>1. Less(first, keys[q])
      BY <1>1, <1>3, <2>2
    <3>2. keys[q][1] \in Nat /\ keys[p][1] \in Nat
      BY <1>1, <2>1, KeyTriples
    <3>3. q = p \/ Less(keys[q], keys[p])
      <4>1. q = p \/ q < p
        BY <1>1, <2>1, <2>2
      <4> QED
        BY <4>1, <1>1, <2>1, KeyTriples
    <3>4. ifc <= keys[q][1]
      <4>1. first[1] = ifc
        BY DEF first
      <4>2. first[1] < keys[q][1] \/ first[1] = keys[q][1]
        BY <3>1, LessByParts
      <4> QED
        BY <3>2, <4>1, <4>2
    <3>5. keys[q][1] <= ifc
      <4>1. CASE q = p
        BY <2>1, <3>2, <4>1
      <4>2. CASE Less(keys[q], keys[p])
        <5>1. keys[q][1] < keys[p][1] \/ keys[q][1] = keys[p][1]
          BY <4>2, LessByParts
        <5> QED
          BY <2>1, <3>2, <5>1
      <4> QED
        BY <3>3, <4>1, <4>2
    <3> QED
      BY <3>2, <3>4, <3>5
  <2> QED
    BY <2>1, <2>2
<1> DEFINE g == [p \in Q |-> p - b]
<1>8. b \in Nat
  BY <1>1, <1>3
<1>9. ASSUME NEW p \in Q PROVE p - b \in M
  <2>1. p - b \in 1 .. N + 1
    BY <1>1, <1>7, <1>8
  <2>2. ASSUME NEW j \in 1 .. p - b
        PROVE  at[j] # NULL /\ key[at[j]][1] = ifc
    <3>1. /\ j \in 1 .. N + 1 /\ b + j \in 1 .. n /\ b + j > b /\ b + j <= p
          /\ b + j <= n
      BY <1>1, <1>7, <1>8
    <3>2. keys[b + j][1] = ifc
      BY <1>7, <3>1
    <3> QED
      BY <3>1, <3>2, <1>6
  <2> QED
    BY <2>1, <2>2
<1>10. ASSUME NEW m \in M PROVE b + m \in Q
  <2>1. m \in 1 .. N + 1 /\ m \in 1 .. m
    BY <1>1
  <2>2. b + m <= n /\ keys[b + m][1] = ifc
    <3>1. at[m] # NULL /\ key[at[m]][1] = ifc
      BY <2>1
    <3> QED
      BY <3>1, <2>1, <1>6
  <2>3. b + m \in DOMAIN keys /\ b + m > b
    BY <1>1, <1>8, <2>1, <2>2
  <2>4. Less(first, keys[b + m])
    BY <1>3, <2>3
  <2> QED
    BY <2>2, <2>3, <2>4 DEF PlacesOf, PlacesAfter
<1>11. \A p \in Q : p \in Nat
  BY <1>1, <1>7
<1>12. \A m \in M : m \in Nat
  BY <1>1
<1>13. IsFiniteSet(Q)
  <2>1. Q \in SUBSET DOMAIN keys
    BY DEF PlacesOf
  <2> QED
    BY <2>1, KeysAtSize
<1> HIDE DEF Q, M
<1>14. g \in [Q -> M]
  BY <1>9
<1>15. \A p, q \in Q : g[p] = g[q] => p = q
  BY <1>8, <1>11
<1>16. ASSUME NEW m \in M PROVE \E p \in Q : g[p] = m
  <2>1. (b + m) - b = m
    BY <1>8, <1>12
  <2>2. b + m \in Q
    BY <1>10
  <2>3. g[b + m] = m
    BY <2>1, <2>2
  <2> QED
    BY <2>2, <2>3
<1> HIDE DEF g
<1>17. Cardinality(M) = Cardinality(Q)
  BY <1>13, <1>14, <1>15, <1>16, SameSize
<1> QED
  BY <1>5, <1>17 DEF Q, first

(* What the count of an interface counts: its entries behind the place      *)
(* where it starts, I-SID 0 with VLAN 1.                                    *)
CountIsBehindStart(ifc) ==
    CountByIfc(ifc) =
        Cardinality({k \in Members : k[1] = ifc /\ Less(<<ifc, 0, 1>>, k)})

(* The theorems for one interface of the table.                             *)
LEMMA InterfaceAgrees ==
    ASSUME NextIsStrict, ListInv, NEW ifc \in Nat
    PROVE  LET mine == {k \in Members : k[1] = ifc}
           IN  /\ CountIsBehindStart(ifc)
               /\ \A room \in Nat :
                     LET got == PortAsgnsStatusGet(ifc, room)
                     IN  /\ Len(got) = Min({room, MaxPort, Cardinality(mine)})
                         /\ \A m \in DOMAIN got :
                               /\ got[m] \in mine /\ AsgnStatusGet(got[m])
                               /\ Cardinality({k \in mine : Less(k, got[m])}) = m - 1
<1>1. PICK s \in Seq(Node) : Lists(s)
  BY DEF ListInv, IsList
<1>2. FieldsTyped /\ Linked(s) /\ Ordered(s)
  BY <1>1 DEF ListInv, Lists
<1>3. Chain = s
  BY <1>2, ChainIs
<1>4. PICK keys : /\ Increases(keys) /\ DOMAIN keys = DOMAIN s
                  /\ \A p \in DOMAIN s : key[s[p]] = keys[p]
  <2> DEFINE keys == [p \in DOMAIN s |-> key[s[p]]]
  <2>1. keys \in [DOMAIN s -> Key]
    BY <1>2 DEF Ordered
  <2>2. keys \in Seq(Key) /\ DOMAIN keys = DOMAIN s
    BY <1>1, <2>1, SameLength
  <2>3. \A p \in DOMAIN s : key[s[p]] = keys[p]
    OBVIOUS
  <2> HIDE DEF keys
  <2>4. \A i, j \in DOMAIN keys : i < j => Less(keys[i], keys[j])
    BY <1>2, <2>2, <2>3 DEF Ordered
  <2> QED
    BY <2>2, <2>3, <2>4 DEF Increases
<1> DEFINE P == PlacesOf(keys, ifc)
           mine == {k \in Members : k[1] = ifc}
<1>5. mine = KeysAt(keys, P)
  <2>1. Members = {keys[p] : p \in DOMAIN keys}
    <3>1. Members = {key[s[m]] : m \in DOMAIN s}
      BY <1>3 DEF Members
    <3> QED
      BY <3>1, <1>4
  <2> QED
    BY <2>1 DEF KeysAt, PlacesOf
<1>6. P \in SUBSET DOMAIN keys
  BY DEF PlacesOf
<1>7. Cardinality(mine) = Cardinality(P) /\ Cardinality(P) \in Nat
  BY <1>4, <1>5, <1>6, KeysAtSize
<1>8. CountIsBehindStart(ifc)
  <2> DEFINE Q == P \cap PlacesAfter(keys, <<ifc, 0, 1>>)
  <2>1. CountByIfc(ifc) = Cardinality(Q)
    BY <1>1, <1>2, <1>4, CountIs
  <2>2. Cardinality(KeysAt(keys, Q)) = Cardinality(Q)
    <3>1. Q \in SUBSET DOMAIN keys
      BY <1>6
    <3> QED
      BY <3>1, <1>4, KeysAtSize
  <2>3. {k \in mine : Less(<<ifc, 0, 1>>, k)} = KeysAt(keys, Q)
    BY <1>5, <1>6 DEF KeysAt, PlacesAfter
  <2>4. {k \in Members : k[1] = ifc /\ Less(<<ifc, 0, 1>>, k)}
           = {k \in mine : Less(<<ifc, 0, 1>>, k)}
    OBVIOUS
  <2> QED
    BY <2>1, <2>2, <2>3, <2>4 DEF CountIsBehindStart
<1>9. ASSUME NEW room \in Nat
      PROVE  /\ Len(PortAsgnsStatusGet(ifc, room)) = Min({room, MaxPort, Cardinality(mine)})
             /\ \A m \in DOMAIN PortAsgnsStatusGet(ifc, room) :
                   /\ PortAsgnsStatusGet(ifc, room)[m] \in mine
                   /\ AsgnStatusGet(PortAsgnsStatusGet(ifc, room)[m])
                   /\ Cardinality({k \in mine :
                                     Less(k, PortAsgnsStatusGet(ifc, room)[m])}) = m - 1
  <2> DEFINE all == KeysIn(Chain, ifc)
             got == PortAsgnsStatusGet(ifc, room)
  <2>1. /\ all \in Seq(Key) /\ Len(all) = Cardinality(P)
        /\ \A m \in DOMAIN all :
              \E p \in P : /\ all[m] = keys[p]
                           /\ Cardinality(Before(P, p)) = m - 1
    <3>1. /\ Increases(keys) /\ DOMAIN s = DOMAIN keys
          /\ \A p \in DOMAIN keys : key[s[p]] = keys[p]
      BY <1>4
    <3>2. all = KeysIn(s, ifc)
      BY <1>3
    <3> HIDE DEF all, mine, got
    <3> QED
      BY <3>1, <3>2, KeysInIs
  <2> HIDE DEF all
  <2>2. /\ PortFind(ifc) \in Seq(Key)
        /\ Len(PortFind(ifc)) = Min({MaxPort, Len(all)})
        /\ \A m \in DOMAIN PortFind(ifc) :
              m \in DOMAIN all /\ PortFind(ifc)[m] = all[m]
    BY <2>1, ListAssumption, FirstOfIs DEF ListAssumption, PortFind, all
  <2>3. /\ got \in Seq(Key)
        /\ Len(got) = Min({room, Len(PortFind(ifc))})
        /\ \A m \in DOMAIN got :
              m \in DOMAIN PortFind(ifc) /\ got[m] = PortFind(ifc)[m]
    BY <2>2, FirstOfIs DEF PortAsgnsStatusGet
  <2> HIDE DEF got
  <2>4. Len(got) = Min({room, MaxPort, Cardinality(mine)})
    <3> DEFINE n == Cardinality(mine)
    <3>1. n \in Nat /\ Len(all) = n /\ MaxPort \in Nat
      BY <1>7, <2>1, ListAssumption DEF ListAssumption
    <3> HIDE DEF n, mine
    <3>2. Min({room, MaxPort, n}) = Min({room, Min({MaxPort, n})})
      BY <3>1, MinOfThree
    <3> QED
      BY <2>2, <2>3, <3>1, <3>2 DEF n
  <2>5. ASSUME NEW m \in DOMAIN got
        PROVE  /\ got[m] \in mine /\ AsgnStatusGet(got[m])
               /\ Cardinality({k \in mine : Less(k, got[m])}) = m - 1
    <3>1. PICK p \in P : /\ got[m] = keys[p]
                         /\ Cardinality(Before(P, p)) = m - 1
      BY <2>1, <2>2, <2>3
    <3>2. got[m] \in mine
      BY <1>5, <3>1 DEF KeysAt
    <3>3. AsgnStatusGet(got[m])
      <4>1. p \in DOMAIN s /\ key[s[p]] = got[m]
        BY <1>4, <1>6, <3>1
      <4>2. FindExact(got[m]) # NULL
        BY <1>1, <1>2, <4>1, FindExactIs
      <4> QED
        BY <4>2 DEF AsgnStatusGet
    <3>4. {k \in mine : Less(k, got[m])} = KeysAt(keys, Before(P, p))
      <4>1. \A q \in P : Less(keys[q], keys[p]) <=> q < p
        BY <1>4, <1>6, KeyTriples
      <4> QED
        BY <1>5, <3>1, <4>1 DEF KeysAt, Before
    <3>5. Before(P, p) \in SUBSET DOMAIN keys
      BY <1>6 DEF Before
    <3>6. Cardinality(KeysAt(keys, Before(P, p))) = Cardinality(Before(P, p))
      BY <1>4, <3>5, KeysAtSize
    <3> QED
      BY <3>1, <3>2, <3>3, <3>4, <3>6
  <2> QED
    BY <2>4, <2>5 DEF got
<1> QED
  BY <1>8, <1>9

(* What a query of an interface returns is sorted, has no gaps and is found *)
(* by an exact search, when the comparison of a search for the next entry   *)
(* is that of faRemoteIsidVlanAsgnFind.                                     *)
THEOREM InterfaceQueriesAgree ==
    ASSUME NextIsStrict
    PROVE  Spec => []QueriesAgree
<1>1. ListInv => QueriesAgree
  <2>1. \A ifc \in {k[1] : k \in Key} : ifc \in Nat
    BY KeyAssumption DEF KeyAssumption
  <2>2. 1 .. MaxCount \subseteq Nat
    OBVIOUS
  <2> QED
    BY <2>1, <2>2, InterfaceAgrees DEF QueriesAgree
<1> QED
  BY <1>1, AlwaysAList, PTL

CountsAreBehindStart == \A ifc \in {k[1] : k \in Key} : CountIsBehindStart(ifc)

(* And the count is short of the interface's entries by those of I-SID 0    *)
(* with a VLAN of at most 1, and by no others.                              *)
THEOREM CountsWhatIsBehind ==
    ASSUME NextIsStrict
    PROVE  Spec => []CountsAreBehindStart
<1>1. ListInv => CountsAreBehindStart
  <2>1. \A ifc \in {k[1] : k \in Key} : ifc \in Nat
    BY KeyAssumption DEF KeyAssumption
  <2> QED
    BY <2>1, InterfaceAgrees DEF CountsAreBehindStart
<1> QED
  BY <1>1, AlwaysAList, PTL
-----------------------------------------------------------------------------
(* The set that the pointers stand for.                                     *)
SetOfAllocated ==
    /\ Members = {key[n] : n \in allocated}
    /\ Cardinality(Members) = count
    /\ \A m, n \in allocated : key[m] = key[n] => m = n

LEMMA MembersAre == ListInv => SetOfAllocated
<1> SUFFICES ASSUME ListInv PROVE SetOfAllocated
  OBVIOUS
<1>1. PICK s \in Seq(Node) : Lists(s)
  BY DEF ListInv, IsList
<1>2. FieldsTyped /\ Linked(s) /\ Holds(s) /\ Ordered(s)
  BY <1>1 DEF ListInv, Lists
<1>3. PICK keys : /\ Increases(keys) /\ DOMAIN keys = DOMAIN s
                  /\ \A p \in DOMAIN s : key[s[p]] = keys[p]
  <2> DEFINE keys == [p \in DOMAIN s |-> key[s[p]]]
  <2>1. keys \in [DOMAIN s -> Key]
    BY <1>2 DEF Ordered
  <2>2. keys \in Seq(Key) /\ DOMAIN keys = DOMAIN s
    BY <1>1, <2>1, SameLength
  <2>3. \A p \in DOMAIN s : key[s[p]] = keys[p]
    OBVIOUS
  <2> HIDE DEF keys
  <2>4. \A i, j \in DOMAIN keys : i < j => Less(keys[i], keys[j])
    BY <1>2, <2>2, <2>3 DEF Ordered
  <2> QED
    BY <2>2, <2>3, <2>4 DEF Increases
<1>4. Members = {key[s[m]] : m \in DOMAIN s}
  <2>1. Chain = s
    BY <1>2, ChainIs
  <2> QED
    BY <2>1 DEF Members
<1>5. Members = {key[n] : n \in allocated}
  BY <1>2, <1>4 DEF Holds
<1>6. Cardinality(Members) = count
  <2>1. Members = KeysAt(keys, DOMAIN keys)
    BY <1>3, <1>4 DEF KeysAt
  <2>2. Cardinality(Members) = Cardinality(DOMAIN keys)
    BY <1>3, <2>1, KeysAtSize
  <2>3. DOMAIN keys = 1 .. Len(s) /\ Len(s) \in Nat
    BY <1>1, <1>3
  <2>4. Cardinality(DOMAIN keys) = Len(s)
    BY <2>3, FS_Interval
  <2> QED
    BY <1>2, <2>2, <2>4 DEF Holds
<1>7. \A m, n \in allocated : key[m] = key[n] => m = n
  <2>1. \A p, q \in DOMAIN s : key[s[p]] = key[s[q]] => p = q
    BY <1>3, KeyTriples
  <2> QED
    BY <1>2, <2>1 DEF Holds
<1> QED
  BY <1>5, <1>6, <1>7 DEF SetOfAllocated

(* Searches, said of the set.                                               *)
LEMMA ExactSearch ==
    ASSUME ListInv, NEW k
    PROVE  /\ FindExact(k) = NULL => k \notin Members
           /\ FindExact(k) # NULL => FindExact(k) \in allocated /\ key[FindExact(k)] = k
<1>1. PICK s \in Seq(Node) : Lists(s)
  BY DEF ListInv, IsList
<1>2. FieldsTyped /\ Linked(s) /\ Holds(s)
  BY <1>1 DEF ListInv, Lists
<1>3. Members = {key[s[m]] : m \in DOMAIN s}
  <2>1. Chain = s
    BY <1>2, ChainIs
  <2> QED
    BY <2>1 DEF Members
<1>4. CASE FindExact(k) = NULL /\ \A i \in DOMAIN s : key[s[i]] # k
  BY <1>3, <1>4
<1>5. ASSUME NEW m \in DOMAIN s, FindExact(k) = s[m], key[s[m]] = k, s[m] # NULL
      PROVE  FindExact(k) # NULL /\ FindExact(k) \in allocated /\ key[FindExact(k)] = k
  BY <1>2, <1>5 DEF Holds
<1> QED
  BY <1>1, <1>2, <1>4, <1>5, FindExactIs

LEMMA NextSearch ==
    ASSUME ListInv, NextIsStrict, NEW k
    PROVE  /\ FindNext(k) = NULL => \A l \in Members : ~Less(k, l)
           /\ FindNext(k) # NULL =>
                /\ key[FindNext(k)] \in Members /\ Less(k, key[FindNext(k)])
                /\ \A l \in Members :
                      Less(k, l) => l = key[FindNext(k)] \/ Less(key[FindNext(k)], l)
<1>1. PICK s \in Seq(Node) : Lists(s)
  BY DEF ListInv, IsList
<1>2. FieldsTyped /\ Linked(s) /\ Ordered(s)
  BY <1>1 DEF ListInv, Lists
<1>3. Members = {key[s[m]] : m \in DOMAIN s}
  <2>1. Chain = s
    BY <1>2, ChainIs
  <2> QED
    BY <2>1 DEF Members
<1>4. CASE FindNext(k) = NULL /\ \A i \in DOMAIN s : ~Less(k, key[s[i]])
  BY <1>3, <1>4
<1>5. ASSUME NEW m \in DOMAIN s, FindNext(k) = s[m], s[m] # NULL,
             Less(k, key[s[m]]),
             \A i \in DOMAIN s : i < m => ~Less(k, key[s[i]])
      PROVE  /\ FindNext(k) # NULL
             /\ key[FindNext(k)] \in Members /\ Less(k, key[FindNext(k)])
             /\ \A l \in Members :
                   Less(k, l) => l = key[FindNext(k)] \/ Less(key[FindNext(k)], l)
  <2>1. ASSUME NEW i \in DOMAIN s, Less(k, key[s[i]])
        PROVE  key[s[i]] = key[s[m]] \/ Less(key[s[m]], key[s[i]])
    <3>1. i \in Nat /\ m \in Nat
      OBVIOUS
    <3>2. ~(i < m)
      BY <1>5, <2>1
    <3>3. i = m \/ m < i
      BY <3>1, <3>2
    <3> QED
      BY <3>3, <1>2 DEF Ordered
  <2> QED
    BY <1>3, <1>5, <2>1
<1>6. \/ FindNext(k) = NULL /\ \A i \in DOMAIN s : ~Less(k, key[s[i]])
      \/ \E m \in DOMAIN s :
            /\ FindNext(k) = s[m] /\ s[m] # NULL /\ Less(k, key[s[m]])
            /\ \A i \in DOMAIN s : i < m => ~Less(k, key[s[i]])
  BY <1>1, <1>2, FindNextIs
<1> QED
  BY <1>4, <1>5, <1>6

(* The cardinality in the abstract specification is the usual one.          *)
LEMMA SameCardinality == \A S : Set!Cardinality(S) = Cardinality(S)
<1> TAKE S
<1> QED
  BY Zenon DEF Set!Cardinality, Cardinality

LEMMA CreateAdds ==
    ASSUME SetOfAllocated, SetOfAllocated', ListInv,
           NEW k \in Key, NEW n \in Node, Create(k, n)
    PROVE  Set!Add(k)
<1>1. /\ FindExact(k) = NULL /\ count < MaxCount /\ n \notin allocated
      /\ allocated' = allocated \cup {n} /\ key' = [key EXCEPT ![n] = k]
      /\ UNCHANGED walk
  BY DEF Create
<1>2. k \notin Members
  BY <1>1, ExactSearch
<1>3. Set!Cardinality(Members) < MaxCount
  BY <1>1, SameCardinality DEF SetOfAllocated
<1>4. /\ allocated \subseteq Node /\ key \in [Node -> Key \cup {First}]
  BY DEF ListInv, FieldsTyped, IsList, Lists, Linked, Holds
<1>5. Members' = Members \cup {k}
  <2>1. \A m \in allocated : key'[m] = key[m]
    BY <1>1, <1>4
  <2>2. key'[n] = k
    BY <1>1, <1>4
  <2>3. Members' = {key'[m] : m \in allocated'}
    BY DEF SetOfAllocated
  <2> QED
    BY <1>1, <2>1, <2>2, <2>3 DEF SetOfAllocated
<1>6. UNCHANGED walk.at
  BY <1>1
<1> QED
  BY <1>2, <1>3, <1>5, <1>6 DEF Set!Add

LEMMA DeleteRemoves ==
    ASSUME SetOfAllocated, SetOfAllocated', ListInv, NEW k \in Key, Delete(k)
    PROVE  Set!Remove(k)
<1> DEFINE n == FindExact(k)
<1>1. /\ n # NULL /\ key' = [key EXCEPT ![n] = First]
      /\ allocated' = allocated \ {n}
      /\ walk' = [walk EXCEPT !.present = @ \ {k}]
  BY DEF Delete
<1>2. n \in allocated /\ key[n] = k
  BY <1>1, ExactSearch
<1> HIDE DEF n
<1>3. /\ allocated \subseteq Node /\ key \in [Node -> Key \cup {First}]
  BY DEF ListInv, FieldsTyped, IsList, Lists, Linked, Holds
<1>4. Members' = Members \ {k}
  <2>1. \A m \in allocated' : key'[m] = key[m] /\ key[m] # k
    BY <1>1, <1>2, <1>3 DEF SetOfAllocated
  <2>2. Members' = {key'[m] : m \in allocated'}
    BY DEF SetOfAllocated
  <2> QED
    BY <1>1, <1>2, <2>1, <2>2 DEF SetOfAllocated
<1>5. k \in Members
  BY <1>2 DEF SetOfAllocated
<1>6. UNCHANGED walk.at
  <2>1. walk \in [at : Key \cup {First}, seen : SUBSET Key, present : SUBSET Key,
                  again : BOOLEAN]
    BY DEF ListInv, WalkInv
  <2> QED
    BY <1>1, <2>1
<1> QED
  BY <1>4, <1>5, <1>6 DEF Set!Remove

LEMMA WalkOnGoesOn ==
    ASSUME NextIsStrict, ListInv, SetOfAllocated, SetOfAllocated', WalkOn
    PROVE  Set!GoOn
<1> DEFINE n == FindNext(walk.at)
<1>1. /\ n # NULL /\ UNCHANGED listVars
      /\ walk' = [walk EXCEPT !.at = key[n], !.seen = @ \cup {key[n]},
                              !.again = key[n] \in walk.seen]
  BY DEF WalkOn
<1>2. /\ key[n] \in Members /\ Less(walk.at, key[n])
      /\ \A l \in Members : Less(walk.at, l) => l = key[n] \/ Less(key[n], l)
  BY <1>1, NextSearch
<1> HIDE DEF n
<1>3. walk'.at = key[n]
  <2>1. walk \in [at : Key \cup {First}, seen : SUBSET Key, present : SUBSET Key,
                  again : BOOLEAN]
    BY DEF ListInv, WalkInv
  <2> QED
    BY <1>1, <2>1
<1>4. Members' = Members
  BY <1>1 DEF SetOfAllocated, listVars
<1> QED
  BY <1>2, <1>3, <1>4 DEF Set!GoOn, Set!Ahead

LEMMA WalkEndsStartsAgain ==
    ASSUME NextIsStrict, ListInv, SetOfAllocated, SetOfAllocated', WalkEnds
    PROVE  Set!StartAgain
<1>1. /\ FindNext(walk.at) = NULL /\ UNCHANGED listVars
      /\ walk' = [at |-> First, seen |-> {}, present |-> Members, again |-> FALSE]
  BY DEF WalkEnds
<1>2. \A l \in Members : ~Less(walk.at, l)
  BY <1>1, NextSearch
<1>3. Members' = Members
  BY <1>1 DEF SetOfAllocated, listVars
<1> QED
  BY <1>1, <1>2, <1>3 DEF Set!StartAgain, Set!Ahead

(* The sorted list of the remote assignments implements a set with a limit: *)
(* faRemoteIsidVlanAsgnAdd adds the key, faRemoteIsidVlanAsgnDelete removes *)
(* it and no other, and a search for the next returns the least key behind  *)
(* the one it was given.                                                    *)
THEOREM ListIsASet ==
    ASSUME NextIsStrict
    PROVE  Spec => ImplementsSet
<1>1. Init => Set!SetInit
  <2> SUFFICES ASSUME Init PROVE Set!SetInit
    OBVIOUS
  <2>1. ListInv /\ allocated = {} /\ walk.at = First
    BY InitList DEF Init
  <2>2. Members = {}
    BY <2>1, MembersAre DEF SetOfAllocated
  <2> QED
    BY <2>1, <2>2 DEF Set!SetInit
<1>2. ListInv /\ SetOfAllocated /\ SetOfAllocated' /\ [Next]_vars
        => [Set!SetNext]_(Set!setVars)
  <2> SUFFICES ASSUME ListInv, SetOfAllocated, SetOfAllocated', [Next]_vars
               PROVE  [Set!SetNext]_(Set!setVars)
    OBVIOUS
  <2>1. ASSUME NEW k \in Key, NEW n \in Node, Create(k, n) PROVE Set!SetNext
    BY <2>1, CreateAdds DEF Set!SetNext
  <2>2. ASSUME NEW k \in Key, Delete(k) PROVE Set!SetNext
    BY <2>2, DeleteRemoves DEF Set!SetNext
  <2>3. CASE WalkOn
    BY <2>3, WalkOnGoesOn DEF Set!SetNext
  <2>4. CASE WalkEnds
    BY <2>4, WalkEndsStartsAgain DEF Set!SetNext
  <2>5. CASE UNCHANGED vars
    <3>1. Members' = Members /\ walk' = walk
      BY <2>5 DEF SetOfAllocated, vars, listVars
    <3> QED
      BY <3>1 DEF Set!setVars
  <2> QED
    BY <2>1, <2>2, <2>3, <2>4, <2>5 DEF Next
<1> QED
  BY <1>1, <1>2, AlwaysAList, MembersAre, PTL DEF Spec, ImplementsSet, Set!SetSpec
=============================================================================
