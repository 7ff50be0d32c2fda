----------------------------- MODULE OrderLemmas -----------------------------
(***************************************************************************)
(* Facts about numbers the proofs of several components rest on: a set of  *)
(* naturals has a least element and, if it is bounded or finite, a         *)
(* greatest one; LIMIT n takes the first n of an ordered set; rows in      *)
(* descending order can be found by their rank.  An induction is argued    *)
(* from the least counterexample.                                          *)
(***************************************************************************)
EXTENDS Integers, Sequences, SequencesExt, FiniteSets, FiniteSetTheorems,
        WellFoundedInduction, TLAPS

\* The ordering of the naturals as a relation.
LEMMA NaturalsAreWellFounded ==
    \E R : /\ IsWellFoundedOn(R, Nat)
           /\ \A x, y \in Nat : y < x => <<y, x>> \in R
<1> DEFINE R == OpToRel(<, Nat)
<1>1. IsWellFoundedOn(R, Nat)
    BY NatLessThanWellFounded
<1>2. \A x, y \in Nat : y < x => <<y, x>> \in R
    BY DEF OpToRel
<1> HIDE DEF R
<1> QED
    BY <1>1, <1>2

\* A set of naturals that is not empty has a least element.
LEMMA LeastElement ==
    ASSUME NEW S \in SUBSET Nat, S # {}
    PROVE  \E x \in S : \A y \in S : x <= y
<1>1. PICK R : /\ IsWellFoundedOn(R, Nat)
               /\ \A x, y \in Nat : y < x => <<y, x>> \in R
    BY NaturalsAreWellFounded
<1>2. PICK x \in S : \A y \in S : ~(<<y, x>> \in R)
    BY <1>1, WFMin, Zenon
<1>3. \A y \in S : ~(y < x)
    BY <1>1, <1>2
<1> QED
    BY <1>3

\* A function that keeps its value at every step from l to h has at h the value
\* it had at l: a first one to differ would have changed it.
LEMMA StepsKeepValue ==
    ASSUME NEW f, NEW l \in Nat, NEW h \in Nat, l <= h,
           \A c \in l + 1 .. h : f[c] = f[c - 1]
    PROVE  f[h] = f[l]
<1> DEFINE differ == {c \in l .. h : f[c] # f[l]}
<1>1. differ \in SUBSET Nat
    OBVIOUS
<1>2. SUFFICES ASSUME differ # {}
               PROVE  FALSE
    OBVIOUS
<1>3. PICK c \in differ : \A d \in differ : c <= d
    <2> HIDE DEF differ
    <2> QED
        BY <1>1, <1>2, LeastElement
<1>4. c \in l + 1 .. h /\ c - 1 \in l .. h /\ ~(c <= c - 1)
    BY <1>3
<1>5. f[c - 1] = f[l]
    BY <1>3, <1>4
<1> QED
    BY <1>3, <1>4, <1>5

\* A set of naturals that is not empty and has a bound has a greatest element.
LEMMA GreatestElement ==
    ASSUME NEW S \in SUBSET Nat, S # {}, NEW n \in Nat, \A y \in S : y <= n
    PROVE  \E x \in S : \A y \in S : y <= x
<1> DEFINE bounds == {m \in Nat : \A y \in S : y <= m}
<1>1. n \in bounds /\ bounds \in SUBSET Nat
    OBVIOUS
<1>2. PICK m \in bounds : \A k \in bounds : m <= k
    BY <1>1, LeastElement
<1>3. CASE m \in S
    BY <1>3
<1>4. CASE m \notin S
    <2>1. \A y \in S : y < m
        BY <1>4
    <2>2. PICK y \in S : y < m
        BY <2>1
    <2>3. m - 1 \in Nat /\ \A z \in S : z <= m - 1
        BY <2>1, <2>2
    <2>4. m - 1 \in bounds
        BY <2>3
    <2> QED
        BY <1>2, <2>3, <2>4
<1> QED
    BY <1>3, <1>4

\* The multiples of a number follow each other at its distance.
LEMMA NextMultiple ==
    ASSUME NEW k \in Nat, NEW size \in Nat \ {0}, k % size = 0
    PROVE  (k + size) % size = 0
<1> DEFINE n == k + size
           d == (k \div size) + 1 - (n \div size)
<1>1. /\ k = size * (k \div size) /\ k \div size \in Int
      /\ n = size * (n \div size) + (n % size) /\ n \div size \in Int
      /\ n % size \in 0 .. size - 1
    OBVIOUS
<1>2. size * d = n % size /\ d \in Int
    BY <1>1
<1>3. d >= 1 => size * d >= size
    BY <1>2
<1>4. d <= -1 => size * d <= -size
    BY <1>2
<1> HIDE DEF d
<1>5. d = 0
    BY <1>1, <1>2, <1>3, <1>4
<1> QED
    BY <1>2, <1>5

\* Two multiples of a number are not less than it apart.
LEMMA SameMultiple ==
    ASSUME NEW k \in Nat, NEW l \in Nat, NEW size \in Nat \ {0},
           k % size = 0, l % size = 0, k <= l, l < k + size
    PROVE  k = l
<1> DEFINE d == (l \div size) - (k \div size)
<1>1. /\ k = size * (k \div size) /\ k \div size \in Int
      /\ l = size * (l \div size) /\ l \div size \in Int
    OBVIOUS
<1>2. l - k = size * d /\ d \in Int
    BY <1>1
<1>3. d >= 1 => size * d >= size
    BY <1>2
<1>4. d <= -1 => size * d <= -size
    BY <1>2
<1> HIDE DEF d
<1>5. d = 0
    BY <1>2, <1>3, <1>4
<1> QED
    BY <1>2, <1>5

\* A finite set of naturals that is not empty has a greatest element.
LEMMA FiniteHasGreatest ==
    ASSUME NEW S \in SUBSET Nat, S # {}, IsFiniteSet(S)
    PROVE  \E x \in S : \A y \in S : y <= x
<1> DEFINE Unbounded(T) == /\ T # {} /\ IsFiniteSet(T)
                           /\ \A x \in T : \E y \in T : ~(y <= x)
           sizes == {n \in Nat : \E T \in SUBSET Nat :
                                    Unbounded(T) /\ Cardinality(T) = n}
<1>1. SUFFICES ASSUME sizes # {}
               PROVE  FALSE
    <2>1. Cardinality(S) \in Nat
        BY FS_CardinalityType
    <2> QED
        BY <2>1
<1>2. PICK n \in sizes : \A m \in sizes : n <= m
    <2>1. sizes \in SUBSET Nat
        OBVIOUS
    <2> HIDE DEF sizes
    <2> QED
        BY <1>1, <2>1, LeastElement
<1>3. PICK T \in SUBSET Nat : Unbounded(T) /\ Cardinality(T) = n
    BY <1>2
<1>4. PICK x \in T : TRUE
    BY <1>3
<1> DEFINE U == T \ {x}
<1>5. IsFiniteSet(U) /\ Cardinality(U) = n - 1 /\ n \in Nat /\ n - 1 \in Nat
    <2>1. IsFiniteSet(T) /\ Cardinality(T) = n
        BY <1>3
    <2>2. IsFiniteSet(U) /\ Cardinality(U) = n - 1
        BY <1>4, <2>1, FS_RemoveElement
    <2>3. Cardinality(T) \in Nat /\ Cardinality(U) \in Nat
        BY <2>1, <2>2, FS_CardinalityType
    <2> QED
        BY <2>1, <2>2, <2>3
<1>6. U # {} /\ U \in SUBSET Nat
    BY <1>3, <1>4
<1>7. ~Unbounded(U)
    <2>1. n - 1 \notin sizes
        BY <1>2, <1>5
    <2> QED
        BY <1>5, <1>6, <2>1
<1>8. PICK u \in U : \A y \in U : y <= u
    <2>1. \E u \in U : \A y \in U : y <= u
        BY <1>5, <1>6, <1>7, Zenon
    <2> QED
        BY <2>1
<1>9. CASE x <= u
    BY <1>3, <1>8, <1>9
<1>10. CASE ~(x <= u)
    <2>1. \A y \in T : y <= x
        <3> SUFFICES ASSUME NEW y \in T, y # x
                     PROVE  y <= x
            BY <1>4
        <3>1. y \in U /\ y <= u
            BY <1>8
        <3> QED
            BY <1>10, <3>1
    <2> QED
        BY <1>3, <1>4, <2>1
<1> QED
    BY <1>9, <1>10

-----------------------------------------------------------------------------
(* SELECT ... ORDER BY ... LIMIT n, as the elements few others precede. *)

Preceding(T, t) == {x \in T : x < t}
FirstOf(T, n) == {x \in T : Cardinality(Preceding(T, x)) < n}

\* The first n elements of S: at most n of them, all below the others, and
\* all there are if they are fewer than n.
LEMMA FirstElements ==
    ASSUME NEW S \in SUBSET Nat, NEW n \in Nat
    PROVE  LET first == FirstOf(S, n)
           IN  /\ IsFiniteSet(first) /\ Cardinality(first) <= n
               /\ \A a \in S, b \in first : a <= b => a \in first
               /\ Cardinality(first) < n => first = S
<1>0. \A a \in S : a \in Nat
    OBVIOUS
<1>m. \A a, x : x \in Preceding(S, a) <=> x \in S /\ x < a
    BY DEF Preceding
<1>p. ASSUME NEW a \in S
      PROVE  /\ Preceding(S, a) \in SUBSET Nat /\ a \notin Preceding(S, a)
             /\ \A b \in Preceding(S, a) : b <= a
    <2>1. a \in Nat /\ ~(a < a)
        BY <1>0
    <2>2. \A b \in Preceding(S, a) : b \in Nat /\ b <= a
        <3> SUFFICES ASSUME NEW b \in Preceding(S, a)
                     PROVE  b \in Nat /\ b <= a
            OBVIOUS
        <3>1. b \in S /\ b < a
            BY <1>m
        <3> QED
            BY <1>0, <2>1, <3>1
    <2> QED
        BY <1>m, <2>1, <2>2
<1>q. ASSUME NEW a \in S, NEW b \in S, a < b
      PROVE  Preceding(S, a) \in SUBSET Preceding(S, b) /\ a \in Preceding(S, b)
    <2>1. a \in Nat /\ b \in Nat /\ a < b
        BY <1>0, <1>q
    <2>2. ASSUME NEW x \in Preceding(S, a)
          PROVE  x \in Preceding(S, b)
        <3>1. x \in S /\ x < a
            BY <1>m
        <3>2. x \in Nat
            BY <1>0, <3>1
        <3>3. x < b
            BY <2>1, <3>1, <3>2
        <3> QED
            BY <1>m, <3>1, <3>3
    <2>3. a \in Preceding(S, b)
        BY <1>m, <2>1
    <2> QED
        BY <2>2, <2>3
<1> DEFINE rank(a) == Cardinality(Preceding(S, a))
           first == FirstOf(S, n)
<1>1. ASSUME NEW a \in S
      PROVE  IsFiniteSet(Preceding(S, a)) /\ rank(a) \in Nat
    <2>1. IsFiniteSet(Preceding(S, a))
        BY <1>0, <1>p, FS_BoundedSetOfNaturals
    <2> QED
        BY <2>1, FS_CardinalityType
<1>2. ASSUME NEW a \in S, NEW b \in S, a < b
      PROVE  rank(a) < rank(b)
    <2>1. IsFiniteSet(Preceding(S, b)) /\ rank(a) \in Nat /\ rank(b) \in Nat
        BY <1>1
    <2>2. /\ rank(a) <= rank(b)
          /\ rank(a) = rank(b) => Preceding(S, b) = Preceding(S, a)
        BY <1>2, <1>q, <2>1, FS_Subset
    <2> QED
        BY <1>2, <1>p, <1>q, <2>1, <2>2
<1>3. \A a \in S : a \in first <=> rank(a) < n
    BY DEF FirstOf
<1>4. first \in SUBSET S
    BY DEF FirstOf
<1>a. \A a \in S : rank(a) \in Nat
    BY <1>1
<1> HIDE DEF rank, first
<1>5. IsFiniteSet(first) /\ Cardinality(first) <= n
    <2> DEFINE f == [a \in first |-> rank(a) + 1]
    <2>1. f \in [first -> 1 .. n]
        <3>1. \A a \in first : rank(a) + 1 \in 1 .. n
            BY <1>3, <1>4, <1>a
        <3> QED
            BY <3>1
    <2>2. ASSUME NEW a \in first, NEW b \in first, f[a] = f[b]
          PROVE  a = b
        <3>1. rank(a) + 1 = rank(b) + 1
            BY <2>2
        <3>2. rank(a) \in Nat /\ rank(b) \in Nat /\ a \in Nat /\ b \in Nat
            BY <1>a, <1>4
        <3> QED
            BY <1>2, <1>4, <3>1, <3>2
    <2> HIDE DEF f
    <2>3. f \in Injection(first, 1 .. n)
        BY <2>1, <2>2 DEF Injection, IsInjective
    <2>4. 1 \in Int /\ n \in Int
        OBVIOUS
    <2>5. IsFiniteSet(1 .. n) /\ Cardinality(1 .. n) = IF 1 > n THEN 0 ELSE n - 1 + 1
        BY <2>4, FS_Interval
    <2>6. Cardinality(1 .. n) = n
        BY <2>5
    <2>7. IsFiniteSet(first) /\ Cardinality(first) <= Cardinality(1 .. n)
        BY <2>3, <2>5, FS_Injection
    <2> QED
        BY <2>6, <2>7
<1>6. ASSUME NEW a \in S, NEW b \in first, a <= b
      PROVE  a \in first
    <2>1. a = b \/ a < b
        BY <1>4, <1>6
    <2>2. CASE a < b
        <3>1. rank(a) < rank(b) /\ rank(b) < n /\ rank(a) \in Nat /\ rank(b) \in Nat
            BY <1>a, <1>2, <1>3, <1>4, <2>2
        <3> QED
            BY <1>3, <3>1
    <2> QED
        BY <2>1, <2>2
<1>7. ASSUME Cardinality(first) < n, S \ first # {}
      PROVE  FALSE
    <2>1. S \ first \in SUBSET Nat
        OBVIOUS
    <2>2. PICK a \in S \ first : \A b \in S \ first : a <= b
        BY <1>7, <2>1, LeastElement
    <2>3. Preceding(S, a) \in SUBSET first
        <3> SUFFICES ASSUME NEW b \in S, b < a
                     PROVE  b \in first
            BY DEF Preceding
        <3>1. ~(a <= b)
            BY <2>2
        <3> QED
            BY <2>2, <3>1
    <2>4. rank(a) <= Cardinality(first)
        BY <1>5, <2>3, FS_Subset DEF rank
    <2>5. rank(a) \in Nat /\ Cardinality(first) \in Nat /\ ~(rank(a) < n)
        BY <1>a, <1>3, <1>5, <2>2, FS_CardinalityType
    <2> QED
        BY <1>7, <2>4, <2>5
<1> QED
    BY <1>4, <1>5, <1>6, <1>7 DEF first

-----------------------------------------------------------------------------
(* SELECT ... ORDER BY ... DESC LIMIT n, as sequences. *)

Descends(s) == \A i, j \in 1 .. Len(s) : i < j => s[i] > s[j]

\* p is the first page of at most count rows of K, newest first.
IsPage(p, K, count) ==
    /\ p.more \in BOOLEAN
    /\ p.items \in Seq(K) /\ Len(p.items) <= count /\ Descends(p.items)
    /\ \A k \in K, i \in 1 .. Len(p.items) : k > p.items[i] => k \in Range(p.items)
    /\ p.more => Len(p.items) = count /\ \E k \in K : k < Last(p.items)
    /\ ~p.more => Range(p.items) = K /\ Len(p.items) = Cardinality(K)

\* In a finite set of numbers each has its own rank, and every rank is taken.
LEMMA Ranks ==
    ASSUME NEW K \in SUBSET Nat, IsFiniteSet(K)
    PROVE  /\ Cardinality(K) \in Nat
           /\ \E rank \in [K -> 0 .. Cardinality(K) - 1] :
                /\ \A k \in K : rank[k] = Cardinality({l \in K : l > k})
                /\ \A k, l \in K : k < l => rank[l] < rank[k]
                /\ \A i \in 0 .. Cardinality(K) - 1 : \E k \in K : rank[k] = i
<1> DEFINE above(k) == {l \in K : l > k}
           rank(k) == Cardinality(above(k))
           n == Cardinality(K)
<1>0. n \in Nat /\ \A k \in K : k \in Nat
    BY FS_CardinalityType
<1>1. ASSUME NEW k \in K
      PROVE  IsFiniteSet(above(k)) /\ rank(k) \in 0 .. n - 1
    <2>1. /\ above(k) \in SUBSET (K \ {k}) /\ IsFiniteSet(K \ {k})
          /\ Cardinality(K \ {k}) = n - 1
        BY <1>0, FS_RemoveElement
    <2>2. IsFiniteSet(above(k)) /\ rank(k) <= n - 1
        BY <2>1, FS_Subset
    <2>3. rank(k) \in Nat
        BY <2>2, FS_CardinalityType
    <2> HIDE DEF rank, n
    <2> QED
        BY <1>0, <2>2, <2>3
<1> DEFINE r == [k \in K |-> rank(k)]
<1>r. r \in [K -> 0 .. n - 1] /\ \A k \in K : r[k] = rank(k)
    BY <1>1
<1> HIDE DEF r
<1>2. ASSUME NEW k \in K, NEW l \in K, k < l
      PROVE  r[l] < r[k]
    <2>1. /\ \A x \in above(l) : x \in above(k)
          /\ l \in above(k) /\ l \notin above(l)
        <3>1. k \in Nat /\ l \in Nat /\ \A x \in above(l) : x \in Nat
            BY <1>0
        <3> QED
            BY <1>2, <3>1
    <2>2. IsFiniteSet(above(k)) /\ above(l) \in SUBSET above(k)
        BY <1>1, <2>1
    <2> HIDE DEF above
    <2>3. Cardinality(above(l)) <= Cardinality(above(k))
          /\ Cardinality(above(l)) # Cardinality(above(k))
        BY <2>1, <2>2, FS_Subset
    <2>4. Cardinality(above(l)) = r[l] /\ Cardinality(above(k)) = r[k]
        BY <1>r
    <2>5. r[l] \in Nat /\ r[k] \in Nat
        BY <1>0, <1>r
    <2> QED
        BY <2>3, <2>4, <2>5
<1>3. \A k, l \in K : r[k] = r[l] => k = l
    <2> SUFFICES ASSUME NEW k \in K, NEW l \in K, r[k] = r[l], k # l
                 PROVE  FALSE
        OBVIOUS
    <2>1. k < l \/ l < k
        BY <1>0
    <2>2. r[k] \in Nat /\ r[l] \in Nat
        BY <1>0, <1>r
    <2>3. r[l] < r[k] \/ r[k] < r[l]
        BY <1>2, <2>1
    <2> QED
        BY <2>2, <2>3
<1>4. r \in Injection(K, 0 .. n - 1)
    BY <1>r, <1>3 DEF Injection, IsInjective
<1>5. IsFiniteSet(0 .. n - 1) /\ Cardinality(0 .. n - 1) = n
    <2> HIDE DEF n
    <2> QED
        BY <1>0, FS_Interval
<1>6. r \in Surjection(K, 0 .. n - 1)
    BY <1>4, <1>5, FS_Injection
<1>7. \A i \in 0 .. n - 1 : \E k \in K : r[k] = i
    BY <1>6 DEF Surjection
<1> QED
    BY <1>0, <1>r, <1>2, <1>7

\* A set of numbers in descending order, each element placed by its rank.
LEMMA RankOrder ==
    ASSUME NEW K \in SUBSET Nat, IsFiniteSet(K), NEW s
    PROVE  s = [i \in 1 .. Cardinality(K) |->
                  CHOOSE k \in K : Cardinality({l \in K : l > k}) = i - 1]
             => /\ s \in Seq(K) /\ Len(s) = Cardinality(K)
                /\ Cardinality(K) \in Nat
                /\ Descends(s) /\ Range(s) = K
<1> DEFINE n == Cardinality(K)
<1>s. SUFFICES
        ASSUME s = [i \in 1 .. n |->
                      CHOOSE k \in K : Cardinality({l \in K : l > k}) = i - 1]
        PROVE  s \in Seq(K) /\ Len(s) = n /\ n \in Nat /\ Descends(s) /\ Range(s) = K
    OBVIOUS
<1>0. n \in Nat /\ \A k \in K : k \in Nat
    BY Ranks
<1>1. PICK rank \in [K -> 0 .. n - 1] :
        /\ \A k \in K : rank[k] = Cardinality({l \in K : l > k})
        /\ \A k, l \in K : k < l => rank[l] < rank[k]
        /\ \A i \in 0 .. n - 1 : \E k \in K : rank[k] = i
    BY Ranks
<1>2. s = [i \in 1 .. n |-> CHOOSE k \in K : Cardinality({l \in K : l > k}) = i - 1]
    BY <1>s
<1> HIDE DEF n
<1>3. ASSUME NEW i \in 1 .. n
      PROVE  s[i] \in K /\ rank[s[i]] = i - 1
    <2>1. i - 1 \in 0 .. n - 1
        BY <1>0
    <2>2. \E k \in K : Cardinality({l \in K : l > k}) = i - 1
        BY <1>1, <2>1
    <2>3. s[i] = CHOOSE k \in K : Cardinality({l \in K : l > k}) = i - 1
        BY <1>2
    <2>4. s[i] \in K /\ Cardinality({l \in K : l > s[i]}) = i - 1
        BY <2>2, <2>3
    <2> QED
        BY <1>1, <2>4
<1>d. DOMAIN s = 1 .. n
    BY <1>2
<1>4. s \in Seq(K) /\ Len(s) = n
    <2>1. \A i \in 1 .. n :
            (CHOOSE k \in K : Cardinality({l \in K : l > k}) = i - 1) \in K
        <3> SUFFICES ASSUME NEW i \in 1 .. n
                     PROVE  (CHOOSE k \in K : Cardinality({l \in K : l > k}) = i - 1)
                              \in K
            OBVIOUS
        <3>1. s[i] = CHOOSE k \in K : Cardinality({l \in K : l > k}) = i - 1
            BY <1>2
        <3> QED
            BY <1>3, <3>1
    <2>2. s \in [1 .. n -> K]
        BY <1>2, <2>1
    <2> QED
        BY <1>0, <1>d, <2>2
<1>5. Descends(s)
    <2> SUFFICES ASSUME NEW i \in 1 .. n, NEW j \in 1 .. n, i < j
                 PROVE  s[i] > s[j]
        BY <1>4 DEF Descends
    <2>1. s[i] \in K /\ s[j] \in K /\ rank[s[i]] < rank[s[j]]
        BY <1>0, <1>3
    <2>2. ~(rank[s[j]] < rank[s[i]]) /\ s[i] # s[j]
        BY <1>0, <1>3
    <2>3. ~(s[i] < s[j])
        BY <1>1, <2>1, <2>2
    <2>4. s[i] \in Nat /\ s[j] \in Nat
        BY <1>0, <2>1
    <2> QED
        BY <2>2, <2>3, <2>4
<1>6. ASSUME NEW k \in K
      PROVE  k \in Range(s)
    <2>1. PICK i \in 1 .. n : i = rank[k] + 1
        BY <1>0
    <2>2. s[i] \in K /\ rank[s[i]] = rank[k]
        BY <1>0, <1>3, <2>1
    <2>3. ~(rank[s[i]] < rank[k]) /\ ~(rank[k] < rank[s[i]])
        BY <1>0, <2>2
    <2>4. s[i] = k
        <3>1. ~(s[i] < k) /\ ~(k < s[i])
            BY <1>1, <2>2, <2>3
        <3>2. s[i] \in Nat /\ k \in Nat
            BY <1>0, <2>2
        <3> QED
            BY <3>1, <3>2
    <2> QED
        BY <1>d, <2>4 DEF Range
<1>7. Range(s) \subseteq K
    BY <1>3, <1>d DEF Range
<1> QED
    BY <1>0, <1>4, <1>5, <1>6, <1>7 DEF n

\* LIMIT count of rows in descending order, with the row fetched beyond them.
LEMMA FirstRows ==
    ASSUME NEW K \in SUBSET Nat, IsFiniteSet(K), NEW s \in Seq(K),
           Descends(s), Range(s) = K, Len(s) = Cardinality(K),
           NEW count \in Nat, count >= 1, NEW m,
           m = IF count < Len(s) THEN count ELSE Len(s)
    PROVE  IsPage([items |-> SubSeq(s, 1, m), more |-> Len(s) > count], K, count)
<1> DEFINE items == SubSeq(s, 1, m)
           p == [items |-> items, more |-> Len(s) > count]
<1>1. Len(s) \in Nat /\ \A k \in K : k \in Nat
    OBVIOUS
<1>2. /\ m \in Nat /\ m <= Len(s) /\ m <= count
      /\ Len(s) > count => m = count
      /\ ~(Len(s) > count) => m = Len(s)
    BY <1>1
<1>3. /\ items \in Seq(K) /\ Len(items) = m /\ \A i \in 1 .. m : items[i] = s[i]
    BY <1>1, <1>2
<1>4. /\ p.items = items /\ (p.more <=> Len(s) > count)
      /\ p = [items |-> items, more |-> Len(s) > count]
    OBVIOUS
<1> HIDE DEF items, p
<1>5. \A i \in 1 .. m : i \in 1 .. Len(s) /\ s[i] \in K
    BY <1>1, <1>2
<1>6. Descends(items)
    BY <1>1, <1>3, <1>5 DEF Descends
<1>7. DOMAIN s = 1 .. Len(s) /\ DOMAIN items = 1 .. m
    BY <1>1, <1>2, <1>3
<1>8. ASSUME NEW k \in K, NEW i \in 1 .. m, k > items[i]
      PROVE  k \in Range(items)
    <2>1. PICK j \in 1 .. Len(s) : s[j] = k
        BY <1>1, <1>7 DEF Range
    <2>2. ~(i < j) /\ i # j
        <3>1. i < j => s[i] > s[j]
            BY <1>1, <1>5 DEF Descends
        <3>2. s[i] \in Nat /\ s[j] \in Nat /\ s[j] > s[i]
            BY <1>1, <1>3, <1>5, <1>8, <2>1
        <3> QED
            BY <3>1, <3>2
    <2>3. j \in 1 .. m
        BY <1>2, <2>2
    <2> QED
        BY <1>3, <1>7, <2>1, <2>3 DEF Range
<1>9. ASSUME Len(s) > count
      PROVE  Len(items) = count /\ \E k \in K : k < Last(items)
    <2>1. m = count /\ m \in 1 .. m /\ m + 1 \in 1 .. Len(s)
        BY <1>1, <1>2, <1>9
    <2>2. s[m] > s[m + 1] /\ s[m + 1] \in K /\ s[m] \in K
        BY <1>1, <1>5, <2>1 DEF Descends
    <2>3. Last(items) = s[m]
        BY <1>3, <2>1 DEF Last
    <2> QED
        BY <1>1, <1>3, <2>1, <2>2, <2>3
<1>10. ASSUME ~(Len(s) > count)
       PROVE  Range(items) = K /\ Len(items) = Cardinality(K)
    <2>1. m = Len(s)
        BY <1>2, <1>10
    <2> QED
        BY <1>1, <1>2, <1>3, <1>7, <2>1 DEF Range
<1>11. IsPage(p, K, count)
    BY <1>2, <1>3, <1>4, <1>6, <1>8, <1>9, <1>10 DEF IsPage
<1> QED
    BY <1>11 DEF p, items
=============================================================================
