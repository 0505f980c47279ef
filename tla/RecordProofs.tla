---------------------------- MODULE RecordProofs ----------------------------
(***************************************************************************)
(* Proofs about what the program keeps in files.  OrderJournal, for every   *)
(* set of keys, any number of orders of a key and any number of crashes: no *)
(* id is used twice.  Research, for every set of symbols, prices and times, *)
(* any window, any horizons and any number of events and of days: windows,  *)
(* sides, labels and folds of a replay are those of the recorded day.       *)
(***************************************************************************)
EXTENDS Research, OrderJournal, FiniteSetTheorems, SequenceTheorems, WellFoundedInduction, TLAPS

-----------------------------------------------------------------------------
(* Least and greatest of sets of numbers.                                   *)

(* A set of naturals that is not empty has a least member.                  *)
LEMMA LeastOf ==
  ASSUME NEW S \in SUBSET Nat, S # {}
  PROVE  \E b \in S : \A c \in S : b <= c
PROOF
<1>1. PICK b \in S : \A c \in S : <<c, b>> \notin OpToRel(<, Nat)
  BY NatLessThanWellFounded, WFMin
<1>2. ASSUME NEW c \in S PROVE b <= c
  <2>1. <<c, b>> \notin {ss \in Nat \X Nat : ss[1] < ss[2]}
    BY <1>1 DEF OpToRel
  <2>2. <<c, b>> \in Nat \X Nat
    OBVIOUS
  <2> QED
    BY <2>1, <2>2
<1> QED
  BY <1>2

(* A set has a least and a greatest member, and Min and Max are they.       *)
Bounded(T) == (\E x \in T : \A y \in T : x >= y) /\ (\E x \in T : \A y \in T : x =< y)

LEMMA FiniteIsBounded ==
  ASSUME NEW S, IsFiniteSet(S), S # {}, S \subseteq Int
  PROVE  Bounded(S)
PROOF
<1> DEFINE Bad == {T \in SUBSET S : T # {} /\ ~Bounded(T)}
<1>1. SUFFICES ASSUME Bad # {} PROVE FALSE
  OBVIOUS
<1>2. Bad \subseteq FiniteSubsetsOf(S)
  BY FS_FiniteSubsetsOfFinite
<1>3. PICK T \in Bad : \A U \in Bad : <<U, T>> \notin StrictSubsetOrdering(S)
  BY <1>1, <1>2, FS_StrictSubsetOrderingWellFounded, WFMin, Zenon
<1>4. PICK x \in T : TRUE
  OBVIOUS
<1> DEFINE U == T \ {x}
<1>5. U \notin Bad
  <2>1. U # T /\ U \subseteq T /\ U \in SUBSET S
    BY <1>4
  <2>2. <<U, T>> \in StrictSubsetOrdering(S)
    BY <2>1 DEF StrictSubsetOrdering
  <2> QED
    BY <1>3, <2>2
<1>6. CASE U = {}
  <2>1. T = {x} /\ x \in Int
    BY <1>4, <1>6
  <2> QED
    BY <2>1 DEF Bounded
<1>7. CASE Bounded(U)
  <2>1. PICK y \in U : \A z \in U : y >= z
    BY <1>7 DEF Bounded
  <2>2. PICK w \in U : \A z \in U : w =< z
    BY <1>7 DEF Bounded
  <2>3. \A z \in T : z = x \/ z \in U
    OBVIOUS
  <2>4. \A z \in T : z \in Int
    OBVIOUS
  <2>5. \E v \in T : \A z \in T : v >= z
    BY <2>1, <2>3, <2>4, <1>4
  <2>6. \E v \in T : \A z \in T : v =< z
    BY <2>2, <2>3, <2>4, <1>4
  <2> QED
    BY <2>5, <2>6 DEF Bounded
<1> QED
  BY <1>5, <1>6, <1>7

LEMMA MaxMin ==
  ASSUME NEW S, IsFiniteSet(S), S # {}, S \subseteq Int
  PROVE  /\ Max(S) \in S /\ \A y \in S : Max(S) >= y
         /\ Min(S) \in S /\ \A y \in S : Min(S) =< y
<1>1. Bounded(S)
  BY FiniteIsBounded
<1>2. Max(S) \in S /\ \A y \in S : Max(S) >= y
  BY <1>1 DEF Max, Bounded
<1>3. Min(S) \in S /\ \A y \in S : Min(S) =< y
  BY <1>1 DEF Min, Bounded
<1> QED
  BY <1>2, <1>3

LEMMA IntervalEnds ==
  ASSUME NEW a \in Int, NEW b \in Int, a <= b
  PROVE  Max(a..b) = b /\ Min(a..b) = a
<1>1. IsFiniteSet(a..b) /\ a \in a..b /\ b \in a..b /\ a..b \subseteq Int
  BY FS_Interval
<1>2. Max(a..b) \in a..b /\ Max(a..b) >= b /\ Min(a..b) \in a..b /\ Min(a..b) <= a
  BY <1>1, MaxMin
<1> QED
  BY <1>2

-----------------------------------------------------------------------------
(* The folds of n days.                                                     *)

LEMMA Products ==
  ASSUME NEW a \in Nat, NEW b \in Nat, NEW q \in Nat, a < b
  PROVE  a * q \in Nat /\ b * q \in Nat /\ a * q + q <= b * q
<1>1. PICK c \in Nat : b = a + 1 + c
  <2>1. b - a - 1 \in Nat /\ b = a + 1 + (b - a - 1)
    OBVIOUS
  <2> QED
    BY <2>1
<1>2. b * q = a * q + q + c * q
  BY <1>1
<1>3. a * q \in Nat /\ c * q \in Nat /\ b * q \in Nat
  OBVIOUS
<1> QED
  BY <1>2, <1>3

(* Parts of n days end one after the other, the last with the last day.     *)
LEMMA PartEnds ==
  ASSUME NEW n \in Nat, NEW p \in Nat \ {0}, p <= n
  PROVE  /\ \A i \in 0..p : PartEnd(n, p, i) \in Nat
         /\ PartEnd(n, p, 0) = 0 /\ PartEnd(n, p, p) = n
         /\ \A i, j \in 0..p : i < j => PartEnd(n, p, i) < PartEnd(n, p, j)
PROOF
<1> DEFINE q == n \div p
           r == n % p
<1>1. n = p * q + r /\ q \in Nat /\ r \in 0..(p - 1)
  OBVIOUS
<1>2. q >= 1
  <2>1. CASE q = 0
    <3>1. n = r
      BY <1>1, <2>1
    <3> QED
      BY <1>1, <3>1
  <2> QED
    BY <1>1, <2>1
<1>3. \A i : PartEnd(n, p, i) = i * q + (IF i < r THEN i ELSE r)
  BY DEF PartEnd
<1> HIDE DEF q, r
<1>4. ASSUME NEW i \in 0..p PROVE PartEnd(n, p, i) \in Nat
  <2>1. i * q \in Nat
    BY <1>1
  <2> QED
    BY <1>1, <1>3, <2>1
<1>5. PartEnd(n, p, 0) = 0
  BY <1>1, <1>3
<1>6. PartEnd(n, p, p) = n
  BY <1>1, <1>3
<1>7. ASSUME NEW i \in 0..p, NEW j \in 0..p, i < j
      PROVE  PartEnd(n, p, i) < PartEnd(n, p, j)
  <2>1. i * q \in Nat /\ j * q \in Nat /\ i * q + q <= j * q
    BY <1>1, <1>7, Products
  <2>2. PartEnd(n, p, i) = i * q + (IF i < r THEN i ELSE r) /\ PartEnd(n, p, j) = j * q + (IF j < r THEN j ELSE r)
    BY <1>3
  <2> HIDE DEF PartEnd
  <2> QED
    BY <1>1, <1>2, <1>7, <2>1, <2>2
<1> QED
  BY <1>4, <1>5, <1>6, <1>7

(* Every day is in one part.                                                *)
LEMMA PartOf ==
  ASSUME NEW n \in Nat, NEW p \in Nat \ {0}, p <= n, NEW d \in 1..n
  PROVE  \E i \in 1..p : d \in Part(n, p, i)
PROOF
<1> DEFINE Late == {i \in 0..p : d <= PartEnd(n, p, i)}
<1>1. p \in Late
  BY PartEnds
<1>2. PICK i \in Late : \A j \in Late : i <= j
  <2>1. Late \in SUBSET Nat /\ Late # {}
    BY <1>1
  <2> HIDE DEF Late
  <2> QED
    BY <2>1, LeastOf
<1>3. i # 0
  BY PartEnds
<1>4. i - 1 \in 0..p /\ i - 1 \notin Late
  BY <1>2, <1>3
<1>5. PartEnd(n, p, i - 1) < d
  BY <1>4, PartEnds
<1>6. PartEnd(n, p, i - 1) \in Nat /\ PartEnd(n, p, i) \in Nat
  BY <1>4, PartEnds
<1>7. i \in 1..p /\ d \in Part(n, p, i)
  BY <1>2, <1>3, <1>5, <1>6 DEF Part
<1> QED
  BY <1>7

LEMMA FoldCountOK ==
  ASSUME NEW n \in Nat, n >= 2, NEW folds \in Nat \ {0}
  PROVE  FoldCount(n, folds) \in 1..(n - 1)
<1>1. CASE n >= folds + 1
  BY <1>1 DEF FoldCount
<1>2. CASE ~(n >= folds + 1)
  <2>1. IsFiniteSet({1, n - 1}) /\ {1, n - 1} # {} /\ {1, n - 1} \subseteq Int
    <3>1. {1, n - 1} = {1} \cup {n - 1}
      OBVIOUS
    <3>2. IsFiniteSet({1} \cup {n - 1})
      BY FS_Singleton, FS_AddElement
    <3> QED
      BY <3>1, <3>2
  <2>2. Max({1, n - 1}) \in {1, n - 1}
    BY <2>1, MaxMin
  <2>3. FoldCount(n, folds) = Max({1, n - 1})
    BY <1>2 DEF FoldCount
  <2> QED
    BY <2>2, <2>3
<1> QED
  BY <1>1, <1>2

(* A training range, with the days it leaves out before the test.           *)
LEMMA EmbargoOK ==
  ASSUME NEW b \in Nat \ {0}, NEW c \in Nat, b < c, NEW embargo \in Nat,
         NEW train, train = 1..(IF b > embargo THEN b - embargo ELSE b)
  PROVE  /\ train # {} /\ (b + 1)..c # {}
         /\ \/ Max(train) + embargo < Min((b + 1)..c)
            \/ Min((b + 1)..c) - 1 <= embargo /\ train = 1..(Min((b + 1)..c) - 1)
<1>1. train # {} /\ (b + 1)..c # {}
  <2>1. 1 \in train /\ b + 1 \in (b + 1)..c
    OBVIOUS
  <2> QED
    BY <2>1
<1>2. Min((b + 1)..c) = b + 1
  BY IntervalEnds
<1>3. CASE b > embargo
  <2>1. train = 1..(b - embargo) /\ b - embargo \in Int /\ 1 <= b - embargo
    BY <1>3
  <2>2. Max(train) = b - embargo
    BY <2>1, IntervalEnds
  <2> QED
    BY <1>1, <1>2, <2>2
<1>4. CASE ~(b > embargo)
  BY <1>1, <1>2, <1>4
<1> QED
  BY <1>3, <1>4

(* However many days, folds and embargo days there are: training ends before *)
(* the test and its embargo, or there are too few days for one, and a day    *)
(* after the first part is tested exactly once (purged_walk_forward).        *)
THEOREM FoldsOK ==
  ASSUME NEW n \in Nat, n >= 2, NEW folds \in Nat \ {0}, NEW embargo \in Nat
  PROVE  LET f == Folds(n, folds, embargo)
         IN /\ \A i \in DOMAIN f :
                 /\ f[i].train # {} /\ f[i].test # {}
                 /\ \/ Max(f[i].train) + embargo < Min(f[i].test)
                    \/ Min(f[i].test) - 1 <= embargo /\ f[i].train = 1..(Min(f[i].test) - 1)
            /\ \A d \in 1..n :
                 Cardinality({i \in DOMAIN f : d \in f[i].test}) = IF d < Min(f[1].test) THEN 0 ELSE 1
PROOF
<1> DEFINE f == Folds(n, folds, embargo)
           k == FoldCount(n, folds)
           p == k + 1
           end(i) == PartEnd(n, p, i)
<1>1. k \in 1..(n - 1)
  BY FoldCountOK
<1>2. p \in Nat \ {0} /\ p <= n /\ p >= 2 /\ k = p - 1 /\ p \in Int
  BY <1>1
<1>3. /\ DOMAIN f = 1..k
      /\ \A i \in 1..k :
           /\ f[i].train = 1..(IF end(i) > embargo THEN end(i) - embargo ELSE end(i))
           /\ f[i].test = Part(n, p, i + 1)
  BY DEF Folds
<1>4. \A i \in 1..k : Part(n, p, i + 1) = (end(i) + 1)..end(i + 1)
  BY <1>1 DEF Part
<1>5. \A i \in 0..p : end(i) \in Nat
  BY <1>2, PartEnds
<1>6. \A i, j \in 0..p : i < j => end(i) < end(j)
  BY <1>2, PartEnds
<1>7. end(0) = 0 /\ end(p) = n
  BY <1>2, PartEnds
<1>8. \A d \in 1..n : \E i \in 1..p : d \in Part(n, p, i)
  BY <1>2, PartOf
<1> HIDE DEF f, k, p, end
<1>9. ASSUME NEW i \in 1..k
      PROVE  /\ end(i) \in Nat \ {0} /\ end(i + 1) \in Nat /\ end(i) < end(i + 1)
             /\ f[i].test = (end(i) + 1)..end(i + 1)
  <2>1. i \in 0..p /\ i + 1 \in 0..p /\ 0 \in 0..p /\ 0 < i /\ i < i + 1
    BY <1>2
  <2>2. end(0) < end(i) /\ end(i) < end(i + 1)
    BY <1>6, <2>1
  <2> QED
    BY <1>3, <1>4, <1>5, <1>7, <2>1, <2>2
<1>10. ASSUME NEW i \in DOMAIN f
       PROVE  /\ f[i].train # {} /\ f[i].test # {}
              /\ \/ Max(f[i].train) + embargo < Min(f[i].test)
                 \/ Min(f[i].test) - 1 <= embargo /\ f[i].train = 1..(Min(f[i].test) - 1)
  <2>1. i \in 1..k
    BY <1>3
  <2>2. f[i].train = 1..(IF end(i) > embargo THEN end(i) - embargo ELSE end(i))
    BY <1>3, <2>1
  <2>3. /\ end(i) \in Nat \ {0} /\ end(i + 1) \in Nat /\ end(i) < end(i + 1)
        /\ f[i].test = (end(i) + 1)..end(i + 1)
    BY <1>9, <2>1
  <2> QED
    BY <2>2, <2>3, EmbargoOK
<1>11. ASSUME NEW d \in 1..n
       PROVE  Cardinality({i \in DOMAIN f : d \in f[i].test}) = IF d < Min(f[1].test) THEN 0 ELSE 1
  <2> DEFINE S == {i \in DOMAIN f : d \in f[i].test}
  <2>1. 1 \in 1..k /\ 1 \in 0..p /\ end(1) \in Nat
    BY <1>1, <1>2, <1>5
  <2>2. Min(f[1].test) = end(1) + 1
    <3>1. /\ end(1) \in Nat \ {0} /\ end(1 + 1) \in Nat /\ end(1) < end(1 + 1)
          /\ f[1].test = (end(1) + 1)..end(1 + 1)
      BY <1>9, <2>1
    <3>2. end(1) + 1 \in Int /\ end(1 + 1) \in Int /\ end(1) + 1 <= end(1 + 1)
      BY <3>1
    <3> QED
      BY <3>1, <3>2, IntervalEnds
  <2>3. CASE d <= end(1)
    <3>1. ASSUME NEW i \in 1..k PROVE d \notin f[i].test
      <4>1. end(1) <= end(i)
        <5>1. i \in 0..p /\ end(i) \in Nat
          BY <1>2, <1>5
        <5>2. CASE i = 1
          BY <5>1, <5>2
        <5>3. CASE 1 < i
          BY <1>6, <2>1, <5>1, <5>3
        <5> QED
          BY <5>2, <5>3
      <4> QED
        BY <1>9, <2>1, <2>3, <4>1
    <3>2. S = {}
      BY <1>3, <3>1
    <3> QED
      BY <2>1, <2>2, <2>3, <3>2, FS_EmptySet
  <2>4. CASE d > end(1)
    <3>1. PICK j \in 1..p : d \in Part(n, p, j)
      BY <1>8
    <3>2. j # 1
      <4>1. Part(n, p, 1) = (end(0) + 1)..end(1)
        BY DEF Part, end
      <4> QED
        BY <2>1, <2>4, <3>1, <4>1, <1>7
    <3>3. j - 1 \in 1..k /\ d \in f[j - 1].test
      BY <1>2, <1>3, <3>1, <3>2
    <3>4. ASSUME NEW i \in 1..k, NEW h \in 1..k, d \in f[i].test, d \in f[h].test, i < h
          PROVE  FALSE
      <4>1. end(i) < d /\ d <= end(i + 1) /\ end(h) < d
        BY <1>9, <3>4
      <4>2. i + 1 \in 0..p /\ h \in 0..p /\ end(i + 1) \in Nat /\ end(h) \in Nat
        BY <1>2, <1>5
      <4>3. end(i + 1) <= end(h)
        <5>1. CASE i + 1 = h
          BY <4>2, <5>1
        <5>2. CASE i + 1 < h
          BY <1>6, <4>2, <5>2
        <5> QED
          BY <3>4, <5>1, <5>2
      <4> QED
        BY <4>1, <4>2, <4>3
    <3>5. S = {j - 1}
      <4>1. ASSUME NEW i \in S PROVE i = j - 1
        <5>1. i \in 1..k /\ d \in f[i].test
          BY <1>3
        <5>2. ~(i < j - 1) /\ ~(j - 1 < i)
          BY <3>3, <3>4, <5>1
        <5> QED
          BY <3>3, <5>1, <5>2
      <4>2. j - 1 \in S
        BY <1>3, <3>3
      <4> QED
        BY <4>1, <4>2
    <3>6. Cardinality(S) = 1
      BY <3>5, FS_Singleton
    <3> QED
      BY <2>1, <2>2, <2>4, <3>6
  <2> QED
    BY <2>1, <2>3, <2>4
<1> QED
  BY <1>10, <1>11 DEF f

-----------------------------------------------------------------------------
(* Sequences in the order of time.                                          *)

Sorted(q) == \A i, j \in DOMAIN q : i <= j => q[i].ts <= q[j].ts

(* A sequence of things with a time, in its order.                          *)
Series(q, S) == q \in Seq(S) /\ (\A x \in S : x.ts \in Int) /\ Sorted(q)

(* Indices closed downwards are the first ones.                             *)
LEMMA Prefix ==
  ASSUME NEW n \in Nat, NEW S \in SUBSET (1..n), \A i \in S : \A k \in 1..i : k \in S
  PROVE  Cardinality(S) \in 0..n /\ S = 1..Cardinality(S)
PROOF
<1>1. IsFiniteSet(S) /\ S \subseteq Int
  <2>1. IsFiniteSet(1..n)
    BY FS_Interval
  <2>2. IsFiniteSet(S)
    BY <2>1, FS_Subset, Zenon
  <2> QED
    BY <2>2
<1>2. CASE S = {}
  BY <1>2, FS_EmptySet
<1>3. CASE S # {}
  <2> DEFINE m == Max(S)
  <2>1. m \in S /\ \A i \in S : i <= m
    BY <1>1, <1>3, MaxMin
  <2>2. m \in 1..n
    BY <2>1
  <2> HIDE DEF m
  <2>3. S = 1..m
    <3>1. \A k \in 1..m : k \in S
      BY <2>1
    <3>2. \A k \in S : k \in 1..m
      BY <2>1, <2>2
    <3> QED
      BY <3>1, <3>2
  <2>4. Cardinality(1..m) = m
    BY <2>2, FS_Interval
  <2> QED
    BY <2>2, <2>3, <2>4
<1> QED
  BY <1>2, <1>3

LEMMA RangeOf ==
  ASSUME NEW S, NEW q \in Seq(S)
  PROVE  /\ Range(q) \subseteq S
         /\ \A i \in 1..Len(q) : q[i] \in Range(q)
         /\ \A x \in Range(q) : \E i \in 1..Len(q) : q[i] = x
         /\ Len(q) \in Nat /\ DOMAIN q = 1..Len(q)
         /\ q # <<>> => Len(q) \in 1..Len(q)
<1>1. Len(q) \in Nat /\ DOMAIN q = 1..Len(q) /\ \A i \in 1..Len(q) : q[i] \in S
  BY LenProperties, ElementOfSeq
<1>2. q # <<>> => Len(q) \in Nat \ {0}
  BY EmptySeq
<1> QED
  BY <1>1, <1>2 DEF Range

LEMMA EmptySeries ==
  ASSUME NEW S, \A x \in S : x.ts \in Int
  PROVE  Series(<<>>, S) /\ Range(<<>>) = {}
BY DEF Series, Sorted, Range

(* What comes last is appended.                                             *)
LEMMA AppendSeries ==
  ASSUME NEW S, NEW q, Series(q, S), NEW e \in S, \A x \in Range(q) : x.ts <= e.ts
  PROVE  Series(Append(q, e), S) /\ Range(Append(q, e)) = Range(q) \cup {e}
PROOF
<1> DEFINE p == Append(q, e)
           n == Len(q)
<1>1. q \in Seq(S) /\ n \in Nat /\ DOMAIN q = 1..n /\ \A i \in 1..n : q[i] \in S /\ q[i] \in Range(q)
  BY RangeOf DEF Series
<1>2. /\ p \in Seq(S) /\ Len(p) = n + 1 /\ DOMAIN p = 1..(n + 1)
      /\ \A i \in 1..n : p[i] = q[i]
      /\ p[n + 1] = e
  <2>1. p \in Seq(S) /\ Len(p) = n + 1 /\ (\A i \in 1..n : p[i] = q[i]) /\ p[n + 1] = e
    BY <1>1, AppendProperties
  <2> QED
    BY <2>1, LenProperties
<1> HIDE DEF p, n
<1>3. \A i \in 1..(n + 1) : i \in 1..n \/ i = n + 1
  BY <1>1
<1>4. Sorted(p)
  <2> SUFFICES ASSUME NEW i \in 1..(n + 1), NEW j \in 1..(n + 1), i <= j
               PROVE  p[i].ts <= p[j].ts
    BY <1>2 DEF Sorted
  <2>1. CASE j = n + 1 /\ i = n + 1
    BY <1>2, <2>1 DEF Series
  <2>2. CASE j = n + 1 /\ i \in 1..n
    BY <1>1, <1>2, <2>2
  <2>3. CASE j \in 1..n
    <3>1. i \in 1..n
      BY <1>1, <2>3
    <3> QED
      BY <1>1, <1>2, <2>3, <3>1 DEF Series, Sorted
  <2> QED
    BY <1>3, <2>1, <2>2, <2>3
<1>5. Range(p) = Range(q) \cup {e}
  <2>1. Range(p) = {p[i] : i \in 1..(n + 1)} /\ Range(q) = {q[i] : i \in 1..n}
    BY <1>1, <1>2 DEF Range
  <2>2. \A i \in 1..(n + 1) : p[i] \in Range(q) \cup {e}
    BY <1>1, <1>2, <1>3
  <2>3. \A i \in 1..n : q[i] = p[i] /\ i \in 1..(n + 1)
    BY <1>1, <1>2
  <2>4. n + 1 \in 1..(n + 1) /\ p[n + 1] = e
    BY <1>1, <1>2
  <2> QED
    BY <2>1, <2>2, <2>3, <2>4
<1> QED
  BY <1>2, <1>4, <1>5 DEF Series, p

(* Trimming keeps exactly what is inside the window.                        *)
LEMMA TrimSeries ==
  ASSUME NEW S, NEW q, Series(q, S), NEW now \in Int
  PROVE  /\ Series(Trim(q, now), S)
         /\ Range(Trim(q, now)) = {x \in Range(q) : x.ts >= now - Window}
PROOF
<1> DEFINE n == Len(q)
           from == now - Window
           old == {i \in DOMAIN q : \A k \in 1..i : q[k].ts < from}
           m == Cardinality(old)
           p == SubSeq(q, m + 1, n)
<1>1. /\ n \in Nat /\ DOMAIN q = 1..n /\ from \in Int
      /\ \A i \in 1..n : q[i] \in S /\ q[i].ts \in Int /\ q[i] \in Range(q)
      /\ \A x \in Range(q) : \E i \in 1..n : q[i] = x
  BY RangeOf, ResearchAssumption DEF Series
<1>2. m \in 0..n /\ old = 1..m
  <2>1. old \in SUBSET (1..n) /\ \A i \in old : \A k \in 1..i : k \in old
    BY <1>1
  <2> HIDE DEF old
  <2> QED
    BY <1>1, <2>1, Prefix
<1>3. Trim(q, now) = p
  BY DEF Trim
<1>4. \A i \in 1..m : q[i].ts < from
  BY <1>2
<1>5. ASSUME NEW i \in (m + 1)..n PROVE q[i].ts >= from
  <2>1. i \in 1..n /\ i \notin old
    <3>1. m \in Nat /\ i \in Int /\ m < i /\ i <= n /\ i \notin 1..m
      BY <1>1, <1>2
    <3> QED
      BY <1>1, <1>2, <3>1
  <2>2. PICK k \in 1..i : ~(q[k].ts < from)
    BY <1>1, <2>1
  <2>3. k \in 1..n /\ q[k].ts <= q[i].ts
    BY <1>1, <2>1, <2>2 DEF Series, Sorted
  <2> HIDE DEF from
  <2> QED
    BY <1>1, <2>1, <2>2, <2>3
<1> HIDE DEF n, m, old, from
<1>6. /\ p \in Seq(S) /\ Len(p) = n - m
      /\ \A i \in 1..(n - m) : p[i] = q[i + m]
  <2>1. m + 1 \in Int /\ n \in Int /\ \A i \in (m + 1)..n : q[i] \in S
    BY <1>1, <1>2
  <2>2. /\ p \in Seq(S) /\ Len(p) = (IF m + 1 <= n THEN n - (m + 1) + 1 ELSE 0)
        /\ \A i \in 1..(n - (m + 1) + 1) : p[i] = q[(m + 1) + i - 1]
    BY <2>1, SubSeqProperties
  <2>3. n - (m + 1) + 1 = n - m /\ \A i \in 1..(n - m) : (m + 1) + i - 1 = i + m
    BY <1>1, <1>2
  <2>4. Len(p) = n - m
    BY <1>1, <1>2, <2>2
  <2> HIDE DEF p
  <2> QED
    BY <2>2, <2>3, <2>4
<1>7. DOMAIN p = 1..(n - m)
  BY <1>6, LenProperties
<1> HIDE DEF p
<1>8. \A i \in 1..(n - m) : i + m \in (m + 1)..n /\ i + m \in 1..n
  BY <1>1, <1>2
<1>9. Sorted(p)
  <2> SUFFICES ASSUME NEW i \in 1..(n - m), NEW j \in 1..(n - m), i <= j
               PROVE  p[i].ts <= p[j].ts
    BY <1>7 DEF Sorted
  <2>1. i + m \in DOMAIN q /\ j + m \in DOMAIN q /\ i + m <= j + m
    BY <1>1, <1>2, <1>8
  <2>2. q[i + m].ts <= q[j + m].ts
    BY <2>1 DEF Series, Sorted
  <2> QED
    BY <1>6, <2>2
<1>10. Range(p) = {x \in Range(q) : x.ts >= from}
  <2>1. ASSUME NEW x \in Range(p) PROVE x \in Range(q) /\ x.ts >= from
    <3>1. PICK i \in 1..(n - m) : x = p[i]
      BY <1>7 DEF Range
    <3> QED
      BY <1>1, <1>5, <1>6, <1>8, <3>1
  <2>2. ASSUME NEW x \in Range(q), x.ts >= from PROVE x \in Range(p)
    <3>1. PICK i \in 1..n : q[i] = x
      BY <1>1
    <3>2. i \notin 1..m
      BY <1>1, <1>4, <2>2, <3>1
    <3>3. i - m \in 1..(n - m) /\ (i - m) + m = i
      BY <1>1, <1>2, <3>2
    <3>4. p[i - m] = x
      BY <1>6, <3>1, <3>3
    <3> QED
      BY <1>7, <3>3, <3>4 DEF Range
  <2> QED
    BY <2>1, <2>2
<1> QED
  BY <1>3, <1>6, <1>9, <1>10 DEF Series, from

(* The last of a series is the latest.                                      *)
LEMMA LastOf ==
  ASSUME NEW S, NEW q, Series(q, S), q # <<>>
  PROVE  q[Len(q)] \in Range(q) /\ \A x \in Range(q) : x.ts <= q[Len(q)].ts
<1>1. /\ Len(q) \in 1..Len(q) /\ DOMAIN q = 1..Len(q) /\ Len(q) \in Nat
      /\ q[Len(q)] \in Range(q)
      /\ \A x \in Range(q) : \E i \in 1..Len(q) : q[i] = x
  BY RangeOf DEF Series
<1> QED
  BY <1>1 DEF Series, Sorted

-----------------------------------------------------------------------------
(* Labels.                                                                  *)

(* np.searchsorted finds the place of a time in a series.                   *)
LEMMA Searchsorted ==
  ASSUME NEW S, NEW q, Series(q, S), NEW t \in Int
  PROVE  /\ Left(q, t) \in 0..Len(q) /\ \A i \in 1..Len(q) : i <= Left(q, t) <=> q[i].ts < t
         /\ Right(q, t) \in 0..Len(q) /\ \A i \in 1..Len(q) : i <= Right(q, t) <=> q[i].ts <= t
PROOF
<1> DEFINE n == Len(q)
           L == {i \in 1..n : q[i].ts < t}
           R == {i \in 1..n : q[i].ts <= t}
<1>1. n \in Nat /\ DOMAIN q = 1..n /\ \A i \in 1..n : q[i].ts \in Int
  BY RangeOf DEF Series
<1>2. Left(q, t) = Cardinality(L) /\ Right(q, t) = Cardinality(R)
  BY <1>1 DEF Left, Right
<1>3. \A i \in 1..n : \A k \in 1..i : k \in 1..n /\ q[k].ts <= q[i].ts
  BY <1>1 DEF Series, Sorted
<1>4. \A i \in L : \A k \in 1..i : k \in L
  BY <1>1, <1>3
<1>5. \A i \in R : \A k \in 1..i : k \in R
  BY <1>1, <1>3
<1>6. Cardinality(L) \in 0..n /\ L = 1..Cardinality(L)
  <2>1. L \in SUBSET (1..n)
    OBVIOUS
  <2> HIDE DEF L
  <2> QED
    BY <1>1, <1>4, <2>1, Prefix
<1>7. Cardinality(R) \in 0..n /\ R = 1..Cardinality(R)
  <2>1. R \in SUBSET (1..n)
    OBVIOUS
  <2> HIDE DEF R
  <2> QED
    BY <1>1, <1>5, <2>1, Prefix
<1>8. \A i \in 1..n : (i \in L <=> i <= Cardinality(L)) /\ (i \in R <=> i <= Cardinality(R))
  <2>1. \A i \in 1..n : (i \in 1..Cardinality(L) <=> i <= Cardinality(L))
                        /\ (i \in 1..Cardinality(R) <=> i <= Cardinality(R))
    BY <1>6, <1>7
  <2> QED
    BY <1>6, <1>7, <2>1
<1> QED
  BY <1>2, <1>6, <1>7, <1>8

(* The best move is the worst of the opposite one.                          *)
LEMMA Opposite ==
  ASSUME NEW S, IsFiniteSet(S), S # {}, S \subseteq Int, NEW T, T = {-x : x \in S}
  PROVE  Max(T) = -Min(S) /\ Min(T) = -Max(S)
PROOF
<1> DEFINE a == Min(S)
           b == Max(S)
<1>1. /\ a \in S /\ a \in Int /\ (\A x \in S : x \in Int /\ a <= x)
      /\ b \in S /\ b \in Int /\ (\A x \in S : x <= b)
  BY MaxMin
<1> HIDE DEF a, b
<1>2. /\ -a \in T /\ \A y \in T : y \in Int /\ -a >= y
      /\ -b \in T /\ \A y \in T : -b <= y
  BY <1>1
<1>3. Max(T) \in T /\ \A y \in T : Max(T) >= y
  BY <1>2 DEF Max
<1>4. Min(T) \in T /\ \A y \in T : Min(T) =< y
  BY <1>2 DEF Min
<1>5. Max(T) \in Int /\ Max(T) >= -a /\ -a >= Max(T) /\ -a \in Int
  BY <1>1, <1>2, <1>3
<1>6. Min(T) \in Int /\ Min(T) <= -b /\ -b <= Min(T) /\ -b \in Int
  BY <1>1, <1>2, <1>4
<1>7. Max(T) = -a /\ Min(T) = -b
  BY <1>5, <1>6
<1> QED
  BY <1>7 DEF a, b

-----------------------------------------------------------------------------
(* The inductive invariant of replay and mining.                            *)

Side == {"none", "BUY", "SELL"}
Trade == [ts: Time, px: Price, side: Side]
Found == [symbol: Mined, ts: Time, check: Check, direction: {1, -1}, px: Price]

Typed ==
  /\ day \subseteq Event /\ tape \subseteq day /\ replaying \in BOOLEAN /\ days \in Nat
  /\ trimmed \in [Symbol -> Time \cup {Never}]
  /\ quotes = [s \in Symbol |-> quotes[s]] /\ trades = [s \in Symbol |-> trades[s]]
  /\ mids = [s \in Mined |-> mids[s]]
  /\ mined \subseteq Found

(* What was replayed of a symbol.                                           *)
Seen(s, kind) ==
  {e \in day : replaying /\ e \notin tape /\ e.symbol = s /\ e.kind = kind}

(* Nothing that is still to come is before anything that was replayed.      *)
InOrder == replaying => \A d \in tape, e \in day \ tape : ~Before(d, e)

(* What both a trade of the tape and one in the window have.                *)
Printed(t) == [ts |-> t.ts, px |-> t.px]

(* The windows of a symbol hold what was replayed of it, from one window     *)
(* before its last event on.                                                *)
Windows(s) ==
  /\ Series(quotes[s], Event) /\ Series(trades[s], Trade)
  /\ \A kind \in {"quote", "trade"} : \A e \in Seen(s, kind) :
       trimmed[s] # Never /\ e.ts <= trimmed[s]
  /\ trimmed[s] # Never => replaying /\ \E e \in day \ tape : e.ts = trimmed[s]
  /\ Range(quotes[s]) = {e \in Seen(s, "quote") : e.ts >= trimmed[s] - Window}
  /\ {Printed(t) : t \in Range(trades[s])} =
       {Printed(e) : e \in {d \in Seen(s, "trade") : d.ts >= trimmed[s] - Window}}

(* The miner has every quote of the day so far.                             *)
Mids(s) == Series(mids[s], Event) /\ Range(mids[s]) = Seen(s, "quote")

ReplayInv ==
  /\ Typed
  /\ InOrder
  /\ \A s \in Symbol : Windows(s)
  /\ ClassifiedInForce
  /\ \A s \in Mined : Mids(s)

LEMMA Numbers ==
  /\ \A t \in Time : t \in Nat
  /\ \A px \in Price : px \in Nat
  /\ \A h \in Horizon : h \in Nat /\ h # 0
  /\ Window \in Nat
BY ResearchAssumption

(* A label says of the series of quotes what it should.                     *)
LEMMA LabelOK ==
  ASSUME NEW m \in Found, NEW h \in Horizon, Series(mids[m.symbol], Event),
         NEW Q, Q = Range(mids[m.symbol])
  PROVE  LET after == {q \in Q : q.ts > m.ts}
             reached == {q \in after : q.ts >= m.ts + h}
             gain(q) == -m.direction * (q.px - m.px)
             first == {q \in reached : \A r \in reached : q.ts <= r.ts}
             l == Label(m, h)
         IN IF reached = {} THEN l = NoLabel
            ELSE \E q \in first :
                   LET path == {p \in after : p.ts < q.ts} \cup {q}
                   IN /\ l.fwd = -gain(q)
                      /\ l.mfe = Max({gain(p) : p \in path})
                      /\ l.mae = Min({gain(p) : p \in path})
PROOF
<1> DEFINE series == mids[m.symbol]
           n == Len(series)
           L == Left(series, m.ts + h)
           R == Right(series, m.ts)
           j == L + 1
           move(q) == m.direction * (q.px - m.px)
           after == {q \in Q : q.ts > m.ts}
           reached == {q \in after : q.ts >= m.ts + h}
           gain(q) == -m.direction * (q.px - m.px)
           first == {q \in reached : \A r \in reached : q.ts <= r.ts}
           moves == {move(series[i]) : i \in (R + 1)..j}
           l == Label(m, h)
<1>1. /\ m.ts \in Nat /\ m.px \in Int /\ m.direction \in {1, -1} /\ h \in Nat \ {0}
      /\ m.ts + h \in Int
  <2>1. m.ts \in Time /\ m.px \in Price /\ m.direction \in {1, -1}
    BY DEF Found
  <2> QED
    BY <2>1, Numbers
<1>2. /\ n \in Nat /\ \A i \in 1..n : series[i] \in Q /\ series[i].ts \in Int /\ series[i].px \in Int
      /\ \A q \in Q : \E i \in 1..n : series[i] = q
  <2>1. series \in Seq(Event)
    BY DEF Series
  <2>2. \A e \in Event : e.ts \in Int /\ e.px \in Int
    BY Numbers DEF Event
  <2> QED
    BY <2>1, <2>2, RangeOf
<1>3. /\ L \in 0..n /\ \A i \in 1..n : i <= L <=> series[i].ts < m.ts + h
      /\ R \in 0..n /\ \A i \in 1..n : i <= R <=> series[i].ts <= m.ts
  <2>1. m.ts \in Int
    BY <1>1
  <2>2. L \in 0..n /\ \A i \in 1..n : i <= L <=> series[i].ts < m.ts + h
    BY <1>1, Searchsorted
  <2>3. R \in 0..n /\ \A i \in 1..n : i <= R <=> series[i].ts <= m.ts
    BY <2>1, Searchsorted
  <2> QED
    BY <2>2, <2>3
<1>4. l = IF j > n THEN NoLabel
          ELSE [fwd |-> move(series[j]), mfe |-> -Min(moves), mae |-> -Max(moves)]
  BY DEF Label
<1>5. \A i, k \in 1..n : i <= k => series[i].ts <= series[k].ts
  <2>1. DOMAIN series = 1..n
    BY RangeOf DEF Series
  <2> QED
    BY <2>1 DEF Series, Sorted
<1>6. \A q : (q.px \in Int => move(q) \in Int /\ gain(q) = -move(q))
  <2>1. CASE m.direction = 1
    BY <1>1, <2>1
  <2>2. CASE m.direction = -1
    BY <1>1, <2>2
  <2> QED
    BY <1>1, <2>1, <2>2
<1> HIDE DEF series, n, L, R, l, move, gain
<1>7. CASE j > n
  <2>1. \A i \in 1..n : series[i].ts < m.ts + h
    BY <1>1, <1>2, <1>3, <1>7
  <2>2. reached = {}
    BY <1>1, <1>2, <2>1
  <2> QED
    BY <1>4, <1>7, <2>2 DEF l, gain
<1>8. CASE ~(j > n)
  <2> DEFINE q == series[j]
             path == {p \in after : p.ts < q.ts} \cup {q}
  <2>1. j \in 1..n /\ ~(j <= L)
    BY <1>2, <1>3, <1>8
  <2>2. q \in Q /\ q.ts \in Int /\ q.px \in Int /\ q.ts >= m.ts + h /\ q.ts > m.ts
    BY <1>1, <1>2, <1>3, <2>1
  <2>3. R < j
    BY <1>1, <1>2, <1>3, <2>1, <2>2
  <2>4. ASSUME NEW r \in reached PROVE q.ts <= r.ts
    <3>1. PICK i \in 1..n : series[i] = r
      BY <1>2
    <3>2. ~(series[i].ts < m.ts + h)
      BY <1>1, <1>2, <3>1
    <3>3. j <= i
      BY <1>3, <3>2
    <3> QED
      BY <1>5, <2>1, <3>1, <3>3
  <2>5. q \in first
    BY <2>2, <2>4
  <2>6. path = {series[i] : i \in (R + 1)..j}
    <3>1. ASSUME NEW p \in after, p.ts < q.ts PROVE \E i \in (R + 1)..j : p = series[i]
      <4>1. PICK i \in 1..n : series[i] = p
        BY <1>2
      <4>2. ~(i <= R)
        BY <1>1, <1>2, <1>3, <4>1
      <4>3. ~(j <= i)
        BY <1>2, <1>5, <2>1, <2>2, <3>1, <4>1
      <4> QED
        BY <1>3, <2>1, <4>1, <4>2, <4>3
    <3>2. j \in (R + 1)..j
      BY <1>3, <2>1, <2>3
    <3>3. ASSUME NEW i \in (R + 1)..j, i # j PROVE series[i] \in after /\ series[i].ts < q.ts
      <4>1. i \in 1..n /\ i <= L /\ ~(i <= R)
        BY <1>2, <1>3, <2>1, <3>3
      <4>2. series[i].ts < m.ts + h /\ ~(series[i].ts <= m.ts) /\ series[i] \in Q /\ series[i].ts \in Int
        BY <1>2, <1>3, <4>1
      <4> QED
        BY <1>1, <2>2, <4>2
    <3> HIDE DEF after
    <3> QED
      BY <3>1, <3>2, <3>3
  <2>7. \A i \in (R + 1)..j : i \in 1..n
    BY <1>2, <1>3, <2>1
  <2>8. moves \subseteq Int /\ moves # {} /\ IsFiniteSet(moves)
    <3>1. \A i \in (R + 1)..j : move(series[i]) \in Int
      BY <1>2, <1>6, <2>7
    <3>2. moves # {}
      <4>1. j \in (R + 1)..j
        BY <1>3, <2>1, <2>3
      <4> QED
        BY <4>1
    <3>3. IsFiniteSet((R + 1)..j)
      BY <1>3, <2>1, FS_Interval
    <3> DEFINE f == [i \in (R + 1)..j |-> move(series[i])]
    <3>4. f \in Surjection((R + 1)..j, moves)
      BY DEF Surjection
    <3>5. IsFiniteSet(moves)
      <4> HIDE DEF f, moves
      <4> QED
        BY <3>3, <3>4, FS_Surjection
    <3> QED
      BY <3>1, <3>2, <3>5
  <2>9. {gain(p) : p \in path} = {-x : x \in moves}
    <3>1. {gain(p) : p \in path} = {gain(series[i]) : i \in (R + 1)..j}
      BY <2>6
    <3>2. \A i \in (R + 1)..j : gain(series[i]) = -move(series[i])
      BY <1>2, <1>6, <2>7
    <3> HIDE DEF path
    <3> QED
      BY <3>1, <3>2
  <2>10. Max({gain(p) : p \in path}) = -Min(moves) /\ Min({gain(p) : p \in path}) = -Max(moves)
    <3> HIDE DEF path, moves
    <3> QED
      BY <2>8, <2>9, Opposite
  <2>11. l.fwd = -gain(q)
    <3>1. l.fwd = move(q)
      BY <1>4, <1>8
    <3> HIDE DEF q
    <3> QED
      BY <1>6, <2>2, <3>1
  <2>12. l.mfe = -Min(moves) /\ l.mae = -Max(moves)
    BY <1>4, <1>8
  <2>13. reached # {}
    BY <2>5
  <2>14. /\ l.fwd = -gain(q)
         /\ l.mfe = Max({gain(p) : p \in path})
         /\ l.mae = Min({gain(p) : p \in path})
    BY <2>10, <2>11, <2>12
  <2> QED
    BY <2>5, <2>13, <2>14, Zenon DEF l, gain
<1> QED
  BY <1>7, <1>8

-----------------------------------------------------------------------------
(* The steps.                                                               *)

LEMMA Times ==
  /\ \A e \in Event : e.symbol \in Symbol /\ e.ts \in Nat /\ e.px \in Nat /\ e.kind \in {"quote", "trade"}
  /\ \A t \in Trade : t.ts \in Nat /\ t.px \in Nat /\ t.side \in Side
  /\ Never \in Int /\ \A t \in Time : t # Never
BY Numbers DEF Event, Trade, Never

(* A day before its replay.                                                 *)
Quiet ==
  /\ day = {} /\ tape = {} /\ replaying = FALSE /\ days \in Nat
  /\ quotes = [s \in Symbol |-> <<>>] /\ trades = [s \in Symbol |-> <<>>]
  /\ trimmed = [s \in Symbol |-> Never]
  /\ mids = [s \in Mined |-> <<>>] /\ mined = {}

LEMMA QuietOK == Quiet => ReplayInv
PROOF
<1> SUFFICES ASSUME Quiet PROVE ReplayInv
  OBVIOUS
<1>1. Typed
  BY DEF Quiet, Typed
<1>2. InOrder
  BY DEF Quiet, InOrder
<1>3. \A s, kind : Seen(s, kind) = {}
  BY DEF Quiet, Seen
<1>4. Series(<<>>, Event) /\ Series(<<>>, Trade) /\ Range(<<>>) = {}
  <2>1. (\A e \in Event : e.ts \in Int) /\ (\A t \in Trade : t.ts \in Int)
    BY Times
  <2> QED
    BY <2>1, EmptySeries
<1>5. ASSUME NEW s \in Symbol PROVE Windows(s)
  <2>1. quotes[s] = <<>> /\ trades[s] = <<>> /\ trimmed[s] = Never
    BY DEF Quiet
  <2>2. Range(quotes[s]) = {} /\ Range(trades[s]) = {}
    BY <1>4, <2>1
  <2> QED
    BY <1>3, <1>4, <2>1, <2>2 DEF Windows
<1>6. ClassifiedInForce
  <2>1. \A s \in Symbol : Range(trades[s]) = {}
    BY <1>4 DEF Quiet
  <2> QED
    BY <2>1 DEF ClassifiedInForce
<1>7. ASSUME NEW s \in Mined PROVE Mids(s)
  <2>1. mids[s] = <<>>
    BY DEF Quiet
  <2> QED
    BY <1>3, <1>4, <2>1 DEF Mids
<1> QED
  BY <1>1, <1>2, <1>5, <1>6, <1>7 DEF ReplayInv

LEMMA ReplayInit == Init => ReplayInv
<1>1. Init => Quiet
  BY DEF Init, Quiet
<1> QED
  BY <1>1, QuietOK

LEMMA NextDayOK == ReplayInv /\ NextDay => ReplayInv'
<1>1. ReplayInv /\ NextDay => Quiet'
  <2> SUFFICES ASSUME ReplayInv, NextDay PROVE Quiet'
    OBVIOUS
  <2>1. days \in Nat
    BY DEF ReplayInv, Typed
  <2>2. days' \in Nat
    BY <2>1 DEF NextDay
  <2> QED
    BY <2>2 DEF NextDay, Fresh, Quiet
<1>2. (Quiet => ReplayInv)'
  BY QuietOK, PTL
<1> QED
  BY <1>1, <1>2

(* Nothing was replayed yet, and nothing is by recording or loading.        *)
LEMMA IdleOK ==
  ASSUME ReplayInv, ~replaying, UNCHANGED <<engine, mids, mined, days>>,
         day' \subseteq Event, tape' \subseteq day', replaying' \in BOOLEAN,
         ~replaying' \/ tape' = day'
  PROVE  ReplayInv'
PROOF
<1>1. /\ quotes' = quotes /\ trades' = trades /\ trimmed' = trimmed
      /\ mids' = mids /\ mined' = mined /\ days' = days
  BY DEF engine
<1>2. Typed'
  BY <1>1 DEF ReplayInv, Typed
<1>3. InOrder'
  BY DEF InOrder
<1>4. \A s, kind : Seen(s, kind) = {} /\ Seen(s, kind)' = {}
  BY DEF Seen
<1>5. \A s \in Symbol : trimmed[s] = Never /\ Range(quotes[s]) = {} /\ Range(trades[s]) = {}
  <2> SUFFICES ASSUME NEW s \in Symbol
               PROVE  trimmed[s] = Never /\ Range(quotes[s]) = {} /\ Range(trades[s]) = {}
    OBVIOUS
  <2>1. Windows(s)
    BY DEF ReplayInv
  <2>2. trimmed[s] = Never /\ Range(quotes[s]) = {}
    BY <1>4, <2>1 DEF Windows
  <2>3. {Printed(t) : t \in Range(trades[s])} = {}
    BY <1>4, <2>1 DEF Windows
  <2> QED
    BY <2>2, <2>3
<1>6. ASSUME NEW s \in Symbol PROVE Windows(s)'
  <2>1. Series(quotes[s], Event) /\ Series(trades[s], Trade)
    BY DEF ReplayInv, Windows
  <2> QED
    BY <1>1, <1>4, <1>5, <2>1 DEF Windows
<1>7. ClassifiedInForce'
  BY <1>1, <1>5 DEF ClassifiedInForce
<1>8. ASSUME NEW s \in Mined PROVE Mids(s)'
  BY <1>1, <1>4 DEF ReplayInv, Mids
<1> QED
  BY <1>2, <1>3, <1>6, <1>7, <1>8 DEF ReplayInv

LEMMA RecordOK == ASSUME ReplayInv, NEW e \in Event, Record(e) PROVE ReplayInv'
<1>1. /\ ~replaying /\ day' = day \cup {e}
      /\ UNCHANGED <<tape, replaying, engine, mids, mined, days>>
  BY DEF Record, miner
<1>2. day' \subseteq Event /\ tape' \subseteq day' /\ replaying' \in BOOLEAN /\ ~replaying'
  BY <1>1 DEF ReplayInv, Typed
<1> QED
  BY <1>1, <1>2, IdleOK

LEMMA LoadOK == ASSUME ReplayInv, LoadEvents PROVE ReplayInv'
<1>1. /\ ~replaying /\ replaying' = TRUE /\ tape' = day /\ day' = day
      /\ UNCHANGED <<engine, mids, mined, days>>
  BY DEF LoadEvents, miner
<1>2. day' \subseteq Event
  BY <1>1 DEF ReplayInv, Typed
<1> QED
  BY <1>1, <1>2, IdleOK

(* The event that pops is as late as any before it.                         *)
LEMMA PopOK ==
  ASSUME ReplayInv, NEW e \in tape, Pops(e), tape' = tape \ {e}, UNCHANGED <<day, replaying>>
  PROVE  /\ e \in Event /\ e \in day /\ replaying
         /\ InOrder' /\ tape' \subseteq day'
         /\ \A s, kind : Seen(s, kind)' = Seen(s, kind) \cup {x \in {e} : x.symbol = s /\ x.kind = kind}
         /\ \A x \in day \ tape : x \in Event /\ x.ts <= e.ts
         /\ \A s \in Symbol : trimmed[s] \in Int /\ trimmed[s] <= e.ts
PROOF
<1>1. e \in Event /\ e \in day /\ tape \subseteq day /\ day \subseteq Event /\ replaying
  BY DEF ReplayInv, Typed, Pops
<1>2. \A d \in tape : ~Before(d, e)
  BY DEF Pops
<1>3. \A d \in tape, x \in day \ tape : ~Before(d, x)
  BY <1>1 DEF ReplayInv, InOrder
<1>4. InOrder'
  <2>1. \A d \in tape', x \in day' \ tape' : d \in tape /\ (x = e \/ x \in day \ tape)
    OBVIOUS
  <2>2. \A d \in tape', x \in day' \ tape' : ~Before(d, x)
    BY <1>2, <1>3, <2>1
  <2> QED
    BY <2>2 DEF InOrder, Before
<1>5. \A x \in day \ tape : x \in Event /\ x.ts <= e.ts
  <2> SUFFICES ASSUME NEW x \in day \ tape PROVE x \in Event /\ x.ts <= e.ts
    OBVIOUS
  <2>1. ~(e.ts < x.ts)
    BY <1>3 DEF Before
  <2> QED
    BY <1>1, <2>1, Times
<1>6. \A s \in Symbol : trimmed[s] \in Int /\ trimmed[s] <= e.ts
  <2> SUFFICES ASSUME NEW s \in Symbol PROVE trimmed[s] \in Int /\ trimmed[s] <= e.ts
    OBVIOUS
  <2>1. CASE trimmed[s] = Never
    BY <1>1, <2>1, Times DEF Never
  <2>2. CASE trimmed[s] # Never
    <3>1. PICK x \in day \ tape : x.ts = trimmed[s]
      BY <2>2 DEF ReplayInv, Windows
    <3> QED
      BY <1>5, <3>1, Times
  <2> QED
    BY <2>1, <2>2
<1>7. \A s, kind : Seen(s, kind)' = Seen(s, kind) \cup {x \in {e} : x.symbol = s /\ x.kind = kind}
  BY <1>1 DEF Seen
<1> QED
  BY <1>1, <1>4, <1>5, <1>6, <1>7

(* Another symbol's windows stay.                                           *)
LEMMA OthersOK ==
  ASSUME ReplayInv, NEW e \in tape, Pops(e), tape' = tape \ {e}, UNCHANGED <<day, replaying>>,
         NEW s \in Symbol, s # e.symbol,
         quotes'[s] = quotes[s], trades'[s] = trades[s], trimmed'[s] = trimmed[s]
  PROVE  Windows(s)'
PROOF
<1>1. \A kind : Seen(s, kind)' = Seen(s, kind)
  <2>1. \A kind : {x \in {e} : x.symbol = s /\ x.kind = kind} = {}
    OBVIOUS
  <2>2. \A kind : Seen(s, kind)' = Seen(s, kind) \cup {x \in {e} : x.symbol = s /\ x.kind = kind}
    BY PopOK
  <2> QED
    BY <2>1, <2>2
<1>2. Windows(s)
  BY DEF ReplayInv
<1>3. \A x \in day \ tape : x \in day' \ tape'
  OBVIOUS
<1> QED
  BY <1>1, <1>2, <1>3 DEF Windows

(* A quote goes into its window, and out of both goes what has become old.  *)
LEMMA QuoteWindows ==
  ASSUME ReplayInv, NEW e \in tape, Pops(e), tape' = tape \ {e}, UNCHANGED <<day, replaying>>,
         e.kind = "quote", EngineOnQuote(e)
  PROVE  /\ \A s \in Symbol : Windows(s)'
         /\ \A s \in Symbol : Range(trades'[s]) \subseteq Range(trades[s])
         /\ trimmed' \in [Symbol -> Time \cup {Never}]
         /\ quotes' = [s \in Symbol |-> quotes'[s]] /\ trades' = [s \in Symbol |-> trades'[s]]
PROOF
<1> DEFINE s == e.symbol
           from == e.ts - Window
<1>1. /\ e \in Event /\ e \in day /\ replaying /\ s \in Symbol /\ e.ts \in Int /\ e.ts \in Time /\ from \in Int
      /\ e.ts # Never
  BY PopOK, Times, Numbers DEF Event
<1>2. /\ Seen(s, "quote")' = Seen(s, "quote") \cup {e}
      /\ Seen(s, "trade")' = Seen(s, "trade")
  <2>1. /\ {x \in {e} : x.symbol = s /\ x.kind = "quote"} = {e}
        /\ {x \in {e} : x.symbol = s /\ x.kind = "trade"} = {}
    OBVIOUS
  <2>2. \A kind : Seen(s, kind)' = Seen(s, kind) \cup {x \in {e} : x.symbol = s /\ x.kind = kind}
    BY PopOK
  <2> QED
    BY <2>1, <2>2
<1>3. \A kind : \A x \in Seen(s, kind) : x \in Event /\ x.ts <= e.ts
  BY PopOK DEF Seen
<1>4. trimmed[s] \in Int /\ trimmed[s] <= e.ts
  BY <1>1, PopOK
<1>5. Windows(s)
  BY <1>1 DEF ReplayInv
<1>6. /\ quotes = [x \in Symbol |-> quotes[x]] /\ trades = [x \in Symbol |-> trades[x]]
      /\ trimmed \in [Symbol -> Time \cup {Never}]
  BY DEF ReplayInv, Typed
<1>7. /\ quotes'[s] = Trim(Append(quotes[s], e), e.ts)
      /\ trades'[s] = Trim(trades[s], e.ts)
      /\ trimmed'[s] = e.ts
      /\ trimmed' \in [Symbol -> Time \cup {Never}]
      /\ quotes' = [x \in Symbol |-> quotes'[x]] /\ trades' = [x \in Symbol |-> trades'[x]]
  BY <1>1, <1>6 DEF EngineOnQuote
<1>8. \A x \in Symbol : x # s => quotes'[x] = quotes[x] /\ trades'[x] = trades[x] /\ trimmed'[x] = trimmed[x]
  BY <1>6 DEF EngineOnQuote
<1>9. /\ Series(Append(quotes[s], e), Event)
      /\ Range(Append(quotes[s], e)) = Range(quotes[s]) \cup {e}
  <2>1. \A x \in Range(quotes[s]) : x.ts <= e.ts
    BY <1>3, <1>5 DEF Windows
  <2> QED
    BY <1>1, <1>5, <2>1, AppendSeries DEF Windows
<1>10. /\ Series(quotes'[s], Event)
       /\ Range(quotes'[s]) = {x \in Range(quotes[s]) \cup {e} : x.ts >= from}
  BY <1>1, <1>7, <1>9, TrimSeries
<1>11. /\ Series(trades'[s], Trade)
       /\ Range(trades'[s]) = {x \in Range(trades[s]) : x.ts >= from}
  BY <1>1, <1>5, <1>7, TrimSeries DEF Windows
<1>12. from >= trimmed[s] - Window
  BY <1>1, <1>4, Numbers
<1>13. Range(quotes'[s]) = {x \in Seen(s, "quote")' : x.ts >= trimmed'[s] - Window'}
  <2>1. \A x \in Seen(s, "quote") : x.ts \in Int /\ (x.ts >= from => x.ts >= trimmed[s] - Window)
    BY <1>1, <1>3, <1>4, <1>12, Times, Numbers
  <2> QED
    BY <1>2, <1>5, <1>7, <1>10, <2>1 DEF Windows
<1>14. {Printed(t) : t \in Range(trades'[s])} =
         {Printed(x) : x \in {d \in Seen(s, "trade")' : d.ts >= trimmed'[s] - Window'}}
  <2> DEFINE P == {Printed(t) : t \in Range(trades[s])}
             D == {d \in Seen(s, "trade") : d.ts >= trimmed[s] - Window}
  <2>1. P = {Printed(d) : d \in D}
    BY <1>5 DEF Windows
  <2>2. {Printed(t) : t \in Range(trades'[s])} = {p \in P : p.ts >= from}
    BY <1>11 DEF Printed
  <2>3. {Printed(d) : d \in {d \in Seen(s, "trade") : d.ts >= from}} = {p \in P : p.ts >= from}
    <3>1. \A x \in Seen(s, "trade") : x.ts \in Int /\ (x.ts >= from => x.ts >= trimmed[s] - Window)
      BY <1>1, <1>3, <1>4, <1>12, Times, Numbers
    <3>2. {d \in Seen(s, "trade") : d.ts >= from} = {d \in D : d.ts >= from}
      BY <3>1
    <3> HIDE DEF D, P
    <3> QED
      BY <2>1, <3>2 DEF Printed
  <2> QED
    BY <1>2, <1>7, <2>2, <2>3
<1>15. Windows(s)'
  <2>1. \A kind \in {"quote", "trade"} : \A x \in Seen(s, kind)' : trimmed'[s] # Never /\ x.ts <= trimmed'[s]
    BY <1>1, <1>2, <1>3, <1>7
  <2>2. replaying' /\ \E x \in day' \ tape' : x.ts = trimmed'[s]
    BY <1>1, <1>7
  <2> QED
    BY <1>10, <1>11, <1>13, <1>14, <2>1, <2>2 DEF Windows
<1>16. \A x \in Symbol : Windows(x)'
  BY <1>8, <1>15, OthersOK
<1>17. \A x \in Symbol : Range(trades'[x]) \subseteq Range(trades[x])
  BY <1>8, <1>11
<1> QED
  BY <1>7, <1>16, <1>17

(* The last quote of the window is in force when a trade pops.              *)
LEMMA InForceOK ==
  ASSUME ReplayInv, NEW e \in tape, Pops(e), tape' = tape \ {e}, UNCHANGED <<day, replaying>>,
         e.kind = "trade", quotes[e.symbol] # <<>>
  PROVE  quotes[e.symbol][Len(quotes[e.symbol])] \in InForce(e.symbol, e.ts)
PROOF
<1> DEFINE s == e.symbol
           q == quotes[s][Len(quotes[s])]
<1>1. e \in Event /\ s \in Symbol /\ replaying /\ e.ts \in Int
  BY PopOK, Times
<1>2. Windows(s)
  BY <1>1 DEF ReplayInv
<1>3. q \in Range(quotes[s]) /\ \A x \in Range(quotes[s]) : x.ts <= q.ts
  BY <1>2, LastOf DEF Windows
<1>4. q \in Seen(s, "quote") /\ q.ts >= trimmed[s] - Window
  BY <1>2, <1>3 DEF Windows
<1>5. q \in day /\ q \notin tape /\ q.symbol = s /\ q.kind = "quote" /\ q \in Event /\ q.ts <= e.ts
  BY <1>4, PopOK DEF Seen
<1>6. ASSUME NEW d \in day, d.symbol = s, d.kind = "quote", d.ts <= e.ts
      PROVE  d.ts <= q.ts
  <2>1. d \notin tape
    <3>1. d \in Event
      BY DEF ReplayInv, Typed
    <3>2. Before(d, e) <=> (d.ts < e.ts \/ d.ts = e.ts)
      BY <1>6 DEF Before
    <3>3. Before(d, e)
      BY <1>1, <1>6, <3>1, <3>2, Times
    <3> QED
      BY <3>3 DEF Pops
  <2>2. d \in Seen(s, "quote") /\ d \in Event
    BY <1>1, <1>6, <2>1 DEF Seen, ReplayInv, Typed
  <2>3. CASE d.ts >= trimmed[s] - Window
    BY <1>2, <1>3, <2>2, <2>3 DEF Windows
  <2>4. CASE ~(d.ts >= trimmed[s] - Window)
    <3>1. trimmed[s] - Window \in Int /\ d.ts \in Int /\ q.ts \in Int
      BY <1>1, <1>5, <2>2, PopOK, Times, Numbers
    <3> QED
      BY <1>4, <2>4, <3>1
  <2> QED
    BY <2>3, <2>4
<1> QED
  BY <1>5, <1>6 DEF InForce

(* A trade goes into its window with the side the quotes in force give it.  *)
LEMMA TradeWindows ==
  ASSUME ReplayInv, NEW e \in tape, Pops(e), tape' = tape \ {e}, UNCHANGED <<day, replaying>>,
         e.kind = "trade", EngineOnTrade(e)
  PROVE  /\ \A s \in Symbol : Windows(s)'
         /\ ClassifiedInForce'
         /\ trimmed' \in [Symbol -> Time \cup {Never}]
         /\ quotes' = [s \in Symbol |-> quotes'[s]] /\ trades' = [s \in Symbol |-> trades'[s]]
PROOF
<1> DEFINE s == e.symbol
           from == e.ts - Window
           t == [ts |-> e.ts, px |-> e.px, side |-> Classify(e)]
<1>1. /\ e \in Event /\ e \in day /\ replaying /\ s \in Symbol /\ e.ts \in Int /\ e.ts \in Time /\ from \in Int
      /\ e.ts # Never /\ e.px \in Price
  BY PopOK, Times, Numbers DEF Event
<1>2. /\ Seen(s, "quote")' = Seen(s, "quote")
      /\ Seen(s, "trade")' = Seen(s, "trade") \cup {e}
  <2>1. /\ {x \in {e} : x.symbol = s /\ x.kind = "quote"} = {}
        /\ {x \in {e} : x.symbol = s /\ x.kind = "trade"} = {e}
    OBVIOUS
  <2>2. \A kind : Seen(s, kind)' = Seen(s, kind) \cup {x \in {e} : x.symbol = s /\ x.kind = kind}
    BY PopOK
  <2> QED
    BY <2>1, <2>2
<1>3. \A kind : \A x \in Seen(s, kind) : x \in Event /\ x.ts <= e.ts
  BY PopOK DEF Seen
<1>4. trimmed[s] \in Int /\ trimmed[s] <= e.ts
  BY <1>1, PopOK
<1>5. Windows(s)
  BY <1>1 DEF ReplayInv
<1>6. /\ quotes = [x \in Symbol |-> quotes[x]] /\ trades = [x \in Symbol |-> trades[x]]
      /\ trimmed \in [Symbol -> Time \cup {Never}]
  BY DEF ReplayInv, Typed
<1>7. /\ quotes'[s] = Trim(quotes[s], e.ts)
      /\ trades'[s] = Trim(Append(trades[s], t), e.ts)
      /\ trimmed'[s] = e.ts
      /\ trimmed' \in [Symbol -> Time \cup {Never}]
      /\ quotes' = [x \in Symbol |-> quotes'[x]] /\ trades' = [x \in Symbol |-> trades'[x]]
  BY <1>1, <1>6 DEF EngineOnTrade
<1>8. \A x \in Symbol : x # s => quotes'[x] = quotes[x] /\ trades'[x] = trades[x] /\ trimmed'[x] = trimmed[x]
  BY <1>6 DEF EngineOnTrade
<1>9. t \in Trade /\ t.ts = e.ts /\ t.px = e.px /\ Printed(t) = Printed(e)
  <2>1. Classify(e) \in Side
    BY DEF Classify, Side
  <2> QED
    BY <1>1, <2>1 DEF Trade, Printed
<1> HIDE DEF t
<1>10. /\ Series(Append(trades[s], t), Trade)
       /\ Range(Append(trades[s], t)) = Range(trades[s]) \cup {t}
  <2>1. \A x \in Range(trades[s]) : x.ts <= t.ts
    <3> SUFFICES ASSUME NEW x \in Range(trades[s]) PROVE x.ts <= t.ts
      OBVIOUS
    <3>1. Printed(x) \in {Printed(d) : d \in {d \in Seen(s, "trade") : d.ts >= trimmed[s] - Window}}
      BY <1>5 DEF Windows
    <3>2. PICK d \in Seen(s, "trade") : Printed(x) = Printed(d)
      BY <3>1
    <3>3. x.ts = d.ts
      BY <3>2 DEF Printed
    <3> QED
      BY <1>3, <1>9, <3>3
  <2> QED
    BY <1>5, <1>9, <2>1, AppendSeries DEF Windows
<1>11. /\ Series(trades'[s], Trade)
       /\ Range(trades'[s]) = {x \in Range(trades[s]) \cup {t} : x.ts >= from}
  BY <1>1, <1>7, <1>10, TrimSeries
<1>12. /\ Series(quotes'[s], Event)
       /\ Range(quotes'[s]) = {x \in Range(quotes[s]) : x.ts >= from}
  BY <1>1, <1>5, <1>7, TrimSeries DEF Windows
<1>13. from >= trimmed[s] - Window
  BY <1>1, <1>4, Numbers
<1>14. Range(quotes'[s]) = {x \in Seen(s, "quote")' : x.ts >= trimmed'[s] - Window'}
  <2>1. \A x \in Seen(s, "quote") : x.ts \in Int /\ (x.ts >= from => x.ts >= trimmed[s] - Window)
    BY <1>1, <1>3, <1>4, <1>13, Times, Numbers
  <2> QED
    BY <1>2, <1>5, <1>7, <1>12, <2>1 DEF Windows
<1>15. {Printed(x) : x \in Range(trades'[s])} =
         {Printed(x) : x \in {d \in Seen(s, "trade")' : d.ts >= trimmed'[s] - Window'}}
  <2> DEFINE P == {Printed(x) : x \in Range(trades[s])}
             D == {d \in Seen(s, "trade") : d.ts >= trimmed[s] - Window}
  <2>1. P = {Printed(d) : d \in D}
    BY <1>5 DEF Windows
  <2>2. {Printed(x) : x \in Range(trades'[s])} = {p \in P \cup {Printed(e)} : p.ts >= from}
    BY <1>9, <1>11 DEF Printed
  <2>3. {Printed(d) : d \in {d \in Seen(s, "trade") \cup {e} : d.ts >= from}}
          = {p \in P \cup {Printed(e)} : p.ts >= from}
    <3>1. \A x \in Seen(s, "trade") : x.ts \in Int /\ (x.ts >= from => x.ts >= trimmed[s] - Window)
      BY <1>1, <1>3, <1>4, <1>13, Times, Numbers
    <3>2. {d \in Seen(s, "trade") \cup {e} : d.ts >= from} = {d \in D \cup {e} : d.ts >= from}
      BY <3>1
    <3> HIDE DEF D, P
    <3> QED
      BY <2>1, <3>2 DEF Printed
  <2> QED
    BY <1>2, <1>7, <2>2, <2>3
<1>16. Windows(s)'
  <2>1. \A kind \in {"quote", "trade"} : \A x \in Seen(s, kind)' : trimmed'[s] # Never /\ x.ts <= trimmed'[s]
    BY <1>1, <1>2, <1>3, <1>7
  <2>2. replaying' /\ \E x \in day' \ tape' : x.ts = trimmed'[s]
    BY <1>1, <1>7
  <2> QED
    BY <1>11, <1>12, <1>14, <1>15, <2>1, <2>2 DEF Windows
<1>17. \A x \in Symbol : Windows(x)'
  BY <1>8, <1>16, OthersOK
<1>18. /\ t.side = "BUY" => \E q \in InForce(s, t.ts) : t.px > q.px
       /\ t.side = "SELL" => \E q \in InForce(s, t.ts) : t.px < q.px
  <2> DEFINE q == quotes[s][Len(quotes[s])]
  <2>1. CASE quotes[s] = <<>>
    BY <2>1 DEF t, Classify
  <2>2. CASE quotes[s] # <<>>
    <3>1. q \in InForce(s, e.ts)
      BY <2>2, InForceOK
    <3>2. q.px \in Nat /\ e.px \in Nat
      <4>1. q \in Event
        BY <3>1 DEF InForce, ReplayInv, Typed
      <4> QED
        BY <1>1, <4>1, Times
    <3>3. t.side = IF e.px = q.px THEN "none" ELSE IF e.px > q.px THEN "BUY" ELSE "SELL"
      BY <2>2 DEF t, Classify
    <3> HIDE DEF q
    <3> QED
      BY <1>9, <3>1, <3>2, <3>3
  <2> QED
    BY <2>1, <2>2
<1>19. ClassifiedInForce'
  <2> SUFFICES ASSUME NEW x \in Symbol, NEW y \in Range(trades'[x])
               PROVE  /\ y.side = "BUY" => \E q \in InForce(x, y.ts) : y.px > q.px
                      /\ y.side = "SELL" => \E q \in InForce(x, y.ts) : y.px < q.px
    BY DEF ClassifiedInForce, InForce
  <2>1. CASE y \in Range(trades[x])
    BY <2>1 DEF ReplayInv, ClassifiedInForce
  <2>2. CASE y \notin Range(trades[x])
    <3>1. x = s /\ y = t
      BY <1>8, <1>11, <2>2
    <3> QED
      BY <1>18, <3>1
  <2> QED
    BY <2>1, <2>2
<1> QED
  BY <1>7, <1>17, <1>19

LEMMA OnTradeOK == ASSUME ReplayInv, NEW e \in tape, OnTrade(e) PROVE ReplayInv'
PROOF
<1>1. /\ Pops(e) /\ e.kind = "trade" /\ tape' = tape \ {e} /\ EngineOnTrade(e)
      /\ day' = day /\ replaying' = replaying /\ mids' = mids /\ mined' = mined /\ days' = days
  BY DEF OnTrade, miner
<1>2. InOrder' /\ tape' \subseteq day'
  BY <1>1, PopOK
<1>3. /\ \A s \in Symbol : Windows(s)'
      /\ ClassifiedInForce'
      /\ trimmed' \in [Symbol -> Time \cup {Never}]
      /\ quotes' = [s \in Symbol |-> quotes'[s]] /\ trades' = [s \in Symbol |-> trades'[s]]
  BY <1>1, TradeWindows
<1>4. Typed'
  BY <1>1, <1>2, <1>3 DEF ReplayInv, Typed
<1>5. ASSUME NEW s \in Mined PROVE Mids(s)'
  <2>1. {x \in {e} : x.symbol = s /\ x.kind = "quote"} = {}
    BY <1>1
  <2>2. Seen(s, "quote")' = Seen(s, "quote")
    <3>1. Seen(s, "quote")' = Seen(s, "quote") \cup {x \in {e} : x.symbol = s /\ x.kind = "quote"}
      BY <1>1, PopOK
    <3> QED
      BY <2>1, <3>1
  <2> QED
    BY <1>1, <2>2 DEF ReplayInv, Mids
<1> QED
  BY <1>2, <1>3, <1>4, <1>5 DEF ReplayInv

(* A quote, whatever the miner finds in it.                                 *)
LEMMA OnQuoteOK ==
  ASSUME ReplayInv, NEW e \in tape, Pops(e), tape' = tape \ {e}, UNCHANGED <<day, replaying, days>>,
         e.kind = "quote", EngineOnQuote(e), mined' \subseteq Found,
         mids' = IF e.symbol \in Mined THEN [mids EXCEPT ![e.symbol] = Append(@, e)] ELSE mids
  PROVE  ReplayInv'
PROOF
<1>1. InOrder' /\ tape' \subseteq day' /\ e \in Event
  BY PopOK
<1>2. /\ \A s \in Symbol : Windows(s)'
      /\ \A s \in Symbol : Range(trades'[s]) \subseteq Range(trades[s])
      /\ trimmed' \in [Symbol -> Time \cup {Never}]
      /\ quotes' = [s \in Symbol |-> quotes'[s]] /\ trades' = [s \in Symbol |-> trades'[s]]
  BY QuoteWindows
<1>3. ClassifiedInForce'
  <2>1. \A s, at : InForce(s, at)' = InForce(s, at)
    BY DEF InForce
  <2> QED
    BY <1>2, <2>1 DEF ReplayInv, ClassifiedInForce
<1>4. mids = [s \in Mined |-> mids[s]]
  BY DEF ReplayInv, Typed
<1>5. Typed'
  BY <1>1, <1>2, <1>4 DEF ReplayInv, Typed
<1>6. ASSUME NEW s \in Mined PROVE Mids(s)'
  <2>1. Mids(s)
    BY DEF ReplayInv
  <2>2. Seen(s, "quote")' = Seen(s, "quote") \cup {x \in {e} : x.symbol = s /\ x.kind = "quote"}
    BY PopOK
  <2>3. CASE s = e.symbol
    <3>1. mids'[s] = Append(mids[s], e)
      BY <1>4, <2>3
    <3>2. Seen(s, "quote")' = Seen(s, "quote") \cup {e}
      BY <2>2, <2>3
    <3>3. \A x \in Range(mids[s]) : x.ts <= e.ts
      BY <2>1, PopOK DEF Mids, Seen
    <3>4. /\ Series(Append(mids[s], e), Event)
          /\ Range(Append(mids[s], e)) = Range(mids[s]) \cup {e}
      BY <1>1, <2>1, <3>3, AppendSeries DEF Mids
    <3> QED
      BY <2>1, <3>1, <3>2, <3>4 DEF Mids
  <2>4. CASE s # e.symbol
    <3>1. mids'[s] = mids[s]
      BY <1>4, <2>4
    <3>2. Seen(s, "quote")' = Seen(s, "quote")
      BY <2>2, <2>4
    <3> QED
      BY <2>1, <3>1, <3>2 DEF Mids
  <2> QED
    BY <2>3, <2>4
<1> QED
  BY <1>1, <1>2, <1>3, <1>5, <1>6 DEF ReplayInv

LEMMA OnQuoteUnseenOK == ASSUME ReplayInv, NEW e \in tape, OnQuoteUnseen(e) PROVE ReplayInv'
<1>1. mined' \subseteq Found
  BY DEF OnQuoteUnseen, ReplayInv, Typed
<1> QED
  BY <1>1, OnQuoteOK DEF OnQuoteUnseen

LEMMA OnQuoteEvaluatedOK ==
  ASSUME ReplayInv, NEW e \in tape, NEW hits \in SUBSET Check, NEW direction \in {1, -1},
         OnQuoteEvaluated(e, hits, direction)
  PROVE  ReplayInv'
PROOF
<1>1. /\ Pops(e) /\ e.kind = "quote" /\ tape' = tape \ {e} /\ EngineOnQuote(e)
      /\ UNCHANGED <<day, replaying, days>>
      /\ e.symbol \in Mined /\ mids' = [mids EXCEPT ![e.symbol] = Append(@, e)]
  BY DEF OnQuoteEvaluated
<1>2. e \in Event
  BY <1>1, PopOK
<1>3. PICK found \in SUBSET Check :
        mined' = mined \cup
          {[symbol |-> e.symbol, ts |-> e.ts, check |-> c, direction |-> direction, px |-> e.px] : c \in found}
  BY DEF OnQuoteEvaluated
<1>4. \A c \in Check :
        [symbol |-> e.symbol, ts |-> e.ts, check |-> c, direction |-> direction, px |-> e.px] \in Found
  BY <1>1, <1>2 DEF Event, Found
<1>5. mined' \subseteq Found
  BY <1>3, <1>4 DEF ReplayInv, Typed
<1> QED
  BY <1>1, <1>5, OnQuoteOK

LEMMA ReplayNext == ReplayInv /\ [Next]_vars => ReplayInv'
PROOF
<1> SUFFICES ASSUME ReplayInv, [Next]_vars PROVE ReplayInv'
  OBVIOUS
<1>1. CASE UNCHANGED vars
  <2>1. /\ \A s, kind : Seen(s, kind)' = Seen(s, kind)
        /\ UNCHANGED <<day, tape, replaying, days, quotes, trades, trimmed, mids, mined>>
    BY <1>1 DEF vars, engine, miner, Seen
  <2>2. Typed' /\ InOrder'
    BY <2>1 DEF ReplayInv, Typed, InOrder
  <2>3. (\A s \in Symbol : Windows(s)') /\ \A s \in Mined : Mids(s)'
    BY <2>1 DEF ReplayInv, Windows, Mids
  <2>4. ClassifiedInForce'
    BY <2>1 DEF ReplayInv, ClassifiedInForce, InForce
  <2> QED
    BY <2>2, <2>3, <2>4 DEF ReplayInv
<1> QED
  BY <1>1, RecordOK, LoadOK, OnTradeOK, OnQuoteUnseenOK, OnQuoteEvaluatedOK, NextDayOK DEF Next

LEMMA ReplaySafe == Spec => []ReplayInv
BY ReplayInit, ReplayNext, PTL DEF Spec

-----------------------------------------------------------------------------
(* Whatever order a day was recorded in, the windows of the feature engine  *)
(* hold what was recorded in the window before the last event, no more and  *)
(* no less but for the events of its very time that are still to come.      *)
THEOREM Exact == Spec => []WindowExact
<1>1. ReplayInv => WindowExact
  <2> SUFFICES ASSUME ReplayInv, NEW s \in Symbol, trimmed[s] # Never
      PROVE  /\ {e \in Inside(s, "quote") : e.ts < trimmed[s]} \subseteq Range(quotes[s])
             /\ Range(quotes[s]) \subseteq {e \in Inside(s, "quote") : e.ts <= trimmed[s]}
             /\ {[ts |-> e.ts, px |-> e.px] : e \in {d \in Inside(s, "trade") : d.ts < trimmed[s]}}
                  \subseteq {[ts |-> t.ts, px |-> t.px] : t \in Range(trades[s])}
             /\ \A t \in Range(trades[s]) : t.ts >= trimmed[s] - Window /\ t.ts <= trimmed[s]
    BY DEF WindowExact
  <2>1. Windows(s) /\ InOrder /\ day \subseteq Event /\ tape \subseteq day
    BY DEF ReplayInv, Typed
  <2>2. PICK x \in day \ tape : x.ts = trimmed[s] /\ replaying
    BY <2>1 DEF Windows
  <2>3. \A e \in tape : ~(e.ts < trimmed[s])
    BY <2>1, <2>2 DEF InOrder, Before
  <2>4. \A kind : \A e \in Inside(s, kind) : e.ts < trimmed[s] => e \in Seen(s, kind)
    BY <2>2, <2>3 DEF Inside, Seen
  <2>5. \A kind \in {"quote", "trade"} : \A e \in Seen(s, kind) :
          e.ts <= trimmed[s] /\ (e.ts >= trimmed[s] - Window => e \in Inside(s, kind))
    BY <2>1 DEF Windows, Inside, Seen
  <2>6. {e \in Inside(s, "quote") : e.ts < trimmed[s]} \subseteq Range(quotes[s])
    BY <2>1, <2>4 DEF Windows, Inside
  <2>7. Range(quotes[s]) \subseteq {e \in Inside(s, "quote") : e.ts <= trimmed[s]}
    BY <2>1, <2>5 DEF Windows
  <2> DEFINE P == {Printed(t) : t \in Range(trades[s])}
             D == {d \in Seen(s, "trade") : d.ts >= trimmed[s] - Window}
  <2>8. P = {Printed(e) : e \in D}
    BY <2>1 DEF Windows
  <2>9. {Printed(e) : e \in {d \in Inside(s, "trade") : d.ts < trimmed[s]}} \subseteq P
    <3>1. {d \in Inside(s, "trade") : d.ts < trimmed[s]} \subseteq D
      BY <2>4 DEF Inside
    <3> HIDE DEF P, D
    <3> QED
      BY <2>8, <3>1
  <2>10. ASSUME NEW t \in Range(trades[s])
         PROVE  t.ts >= trimmed[s] - Window /\ t.ts <= trimmed[s]
    <3>1. Printed(t) \in {Printed(e) : e \in D}
      BY <2>8
    <3>2. PICK e \in D : Printed(t) = Printed(e)
      BY <3>1
    <3>3. t.ts = e.ts
      BY <3>2 DEF Printed
    <3> QED
      BY <2>5, <3>3
  <2> QED
    BY <2>6, <2>7, <2>9, <2>10 DEF Printed
<1> QED
  BY <1>1, ReplaySafe, PTL

(* A trade has the side that the quotes in force at its time give it.       *)
THEOREM Classified == Spec => []ClassifiedInForce
<1>1. ReplayInv => ClassifiedInForce
  BY DEF ReplayInv
<1> QED
  BY <1>1, ReplaySafe, PTL

(* A symbol's windows are not trimmed to an earlier time than before.       *)
Onward == replaying' => \A s \in Symbol : trimmed'[s] >= trimmed[s]

(* Within a day no symbol's windows go back in time: ReplayEvent.__lt__ and  *)
(* the heap replay a day in order, in whatever order it was recorded.        *)
THEOREM Forward == Spec => [][Onward]_vars
<1>1. ReplayInv /\ [Next]_vars => [Onward]_vars
  <2> SUFFICES ASSUME ReplayInv, Next, replaying', NEW s \in Symbol PROVE trimmed'[s] >= trimmed[s]
    BY DEF Onward
  <2>1. trimmed[s] \in Int /\ trimmed \in [Symbol -> Time \cup {Never}]
    BY Times, Numbers DEF ReplayInv, Typed
  <2>2. CASE trimmed' = trimmed
    BY <2>1, <2>2
  <2>3. ASSUME NEW e \in tape, Pops(e), tape' = tape \ {e}, UNCHANGED <<day, replaying>>,
               trimmed' = [trimmed EXCEPT ![e.symbol] = e.ts]
        PROVE  trimmed'[s] >= trimmed[s]
    <3>1. e \in Event /\ trimmed[s] <= e.ts
      BY <2>3, PopOK
    <3>2. trimmed'[s] = IF s = e.symbol THEN e.ts ELSE trimmed[s]
      BY <2>1, <2>3
    <3> QED
      BY <2>1, <3>1, <3>2, Times
  <2>4. \/ trimmed' = trimmed
        \/ \E e \in tape : /\ Pops(e) /\ tape' = tape \ {e} /\ UNCHANGED <<day, replaying>>
                          /\ trimmed' = [trimmed EXCEPT ![e.symbol] = e.ts]
    BY DEF Next, Record, LoadEvents, OnTrade, OnQuoteUnseen, OnQuoteEvaluated, NextDay,
           EngineOnTrade, EngineOnQuote, engine
  <2> QED
    BY <2>2, <2>3, <2>4
<1> QED
  BY <1>1, ReplaySafe, PTL DEF Spec

(* Labels are made of quotes after the event they label, of the first at or  *)
(* after the horizon and the best and worst before.                        *)
THEOREM Labels == Spec => []LabelsLookForward
<1>1. ReplayInv => LabelsLookForward
  <2> SUFFICES ASSUME ReplayInv, replaying, tape = {}, NEW m \in mined, NEW h \in Horizon
      PROVE  LET after == {q \in day : q.symbol = m.symbol /\ q.kind = "quote" /\ q.ts > m.ts}
                 reached == {q \in after : q.ts >= m.ts + h}
                 gain(q) == -m.direction * (q.px - m.px)
                 first == {q \in reached : \A r \in reached : q.ts <= r.ts}
                 l == Label(m, h)
             IN IF reached = {} THEN l = NoLabel
                ELSE \E q \in first :
                       LET path == {p \in after : p.ts < q.ts} \cup {q}
                       IN /\ l.fwd = -gain(q)
                          /\ l.mfe = Max({gain(p) : p \in path})
                          /\ l.mae = Min({gain(p) : p \in path})
    BY DEF LabelsLookForward
  <2>1. m \in Found /\ m.symbol \in Mined
    BY DEF ReplayInv, Typed, Found
  <2>2. Series(mids[m.symbol], Event) /\ Range(mids[m.symbol]) = Seen(m.symbol, "quote")
    BY <2>1 DEF ReplayInv, Mids
  <2> DEFINE Q == Seen(m.symbol, "quote")
  <2>3. {q \in day : q.symbol = m.symbol /\ q.kind = "quote" /\ q.ts > m.ts} = {q \in Q : q.ts > m.ts}
    BY DEF Seen
  <2>4. LET after == {q \in Q : q.ts > m.ts}
            reached == {q \in after : q.ts >= m.ts + h}
            gain(q) == -m.direction * (q.px - m.px)
            first == {q \in reached : \A r \in reached : q.ts <= r.ts}
            l == Label(m, h)
        IN IF reached = {} THEN l = NoLabel
           ELSE \E q \in first :
                  LET path == {p \in after : p.ts < q.ts} \cup {q}
                  IN /\ l.fwd = -gain(q)
                     /\ l.mfe = Max({gain(p) : p \in path})
                     /\ l.mae = Min({gain(p) : p \in path})
    <3> HIDE DEF Q
    <3>1. Q = Range(mids[m.symbol])
      BY <2>2 DEF Q
    <3> QED
      BY <2>1, <2>2, <3>1, LabelOK
  <2> HIDE DEF Q
  <2> QED
    BY <2>3, <2>4, Zenon
<1> QED
  BY <1>1, ReplaySafe, PTL

(* No day that is tested is trained on or within the embargo, every day      *)
(* after the first part is tested once, and there is always something to    *)
(* train on, for any number of days and of folds.                          *)
THEOREM FoldsAreSound == Spec => []FoldsSound
<1>1. ReplayInv => FoldsSound
  <2> SUFFICES ASSUME ReplayInv, NEW folds \in 1..MaxDays, NEW embargo \in 0..2, days >= 2
      PROVE  LET f == Folds(days, folds, embargo)
             IN /\ \A i \in DOMAIN f :
                     /\ f[i].train # {} /\ f[i].test # {}
                     /\ \/ Max(f[i].train) + embargo < Min(f[i].test)
                        \/ Min(f[i].test) - 1 <= embargo /\ f[i].train = 1..(Min(f[i].test) - 1)
                /\ \A d \in 1..days :
                     Cardinality({i \in DOMAIN f : d \in f[i].test}) = IF d < Min(f[1].test) THEN 0 ELSE 1
    BY DEF FoldsSound
  <2>1. days \in Nat /\ folds \in Nat \ {0} /\ embargo \in Nat
    BY DEF ReplayInv, Typed
  <2> QED
    BY <2>1, FoldsOK
<1> QED
  BY <1>1, ReplaySafe, PTL

-----------------------------------------------------------------------------
(* The order journal.                                                       *)

(* The id that is being made has no bound of its own.                       *)
Made == [key: Key, seq: Nat]

Line == [id: Made, event: JournalEvent]

FileTyped ==
  /\ rows \subseteq Line /\ tail \subseteq Line
  /\ torn \in BOOLEAN
  /\ seq \in [Key -> 0..MaxSeq]
  /\ seen \subseteq Made /\ submitted \subseteq Made
  /\ stage \in {"none", "asked", "created", "recorded"}
  /\ making \in Made

(* Whoever reads the file knows the id.                                     *)
OnFile(id) == \E row \in rows : row.id = id

(* What an order leaves on its way: its number is the last of its key, and   *)
(* it is on a line of its own before the venue has it, although the row of  *)
(* its creation may be lost.                                                *)
Underway ==
  /\ stage # "none" =>
       making.seq = seq[making.key] /\ making \notin submitted
  /\ stage = "asked" => making \notin seen
  /\ stage = "created" => ~torn /\ tail = {}
  /\ stage = "recorded" => OnFile(making)

(* A number given out is not above the last one of its key.                 *)
Counted(id) == id.seq <= seq[id.key]

FileInv ==
  /\ FileTyped
  /\ Underway
  /\ \A row \in rows \cup tail : Counted(row.id)
  /\ \A id \in seen : Counted(id)
  /\ \A id \in submitted : OnFile(id)

-----------------------------------------------------------------------------
(* What the file says of a key is at least every number on its lines.       *)
LEMMA LoadedSeqOK ==
  ASSUME NEW readable \in SUBSET Line, NEW k \in Key,
         \A row \in readable : row.id.seq <= MaxSeq
  PROVE  /\ LoadedSeq(readable, k) \in 0..MaxSeq
         /\ \A row \in readable : row.id.key = k => row.id.seq <= LoadedSeq(readable, k)
PROOF
<1> DEFINE S == {0} \cup {row.id.seq : row \in {r \in readable : r.id.key = k}}
<1>1. S \in SUBSET (0..MaxSeq) /\ S # {}
  BY JournalAssumption DEF Line, Made
<1>2. Max(S) \in S /\ \A m \in S : m <= Max(S)
  <2>1. IsFiniteSet(S) /\ S \subseteq Int
    <3>1. MaxSeq \in Int
      BY JournalAssumption
    <3>2. IsFiniteSet(0..MaxSeq) /\ 0..MaxSeq \subseteq Int
      BY <3>1, FS_Interval
    <3> QED
      BY <1>1, <3>2, FS_Subset
  <2> HIDE DEF S
  <2> QED
    BY <1>1, <2>1, MaxMin
<1>3. LoadedSeq(readable, k) = Max(S)
  BY DEF LoadedSeq, Max
<1>4. \A row \in readable : row.id.key = k => row.id.seq \in S
  OBVIOUS
<1> HIDE DEF S
<1> QED
  BY <1>1, <1>2, <1>3, <1>4

(* No line is lost by an append, and a line of its own is readable.         *)
LEMMA RowOK ==
  ASSUME FileInv, NEW row \in Line, Counted(row.id), AppendRow(row), seq' = seq
  PROVE  /\ rows' \subseteq Line /\ tail' = {} /\ torn' = FALSE
         /\ seen' = seen \cup {row.id} /\ seen' \subseteq Made
         /\ \A r \in rows' \cup tail' : Counted(r.id)'
         /\ \A id \in seen' : Counted(id)'
         /\ \A id : OnFile(id) => OnFile(id)'
         /\ ~torn /\ tail = {} => OnFile(row.id)'
PROOF
<1>1. rows \subseteq rows' /\ rows' \subseteq rows \cup {row}
  BY DEF AppendRow
<1>2. ~torn /\ tail = {} => row \in rows'
  BY DEF AppendRow
<1>3. tail' = {} /\ torn' = FALSE /\ seen' = seen \cup {row.id}
  BY DEF AppendRow
<1>4. \A id : Counted(id)' <=> Counted(id)
  BY DEF Counted
<1>5. row.id \in Made
  BY DEF Line
<1> QED
  BY <1>1, <1>2, <1>3, <1>4, <1>5 DEF FileInv, FileTyped, OnFile

(* A new process knows every number on the file, and is on its way with no  *)
(* order.                                                                   *)
LEMMA ReloadOK ==
  ASSUME FileInv, NEW lastRow \in SUBSET Line, NEW fragment \in BOOLEAN,
         \A row \in lastRow : Counted(row.id),
         Load(rows, lastRow, fragment)
  PROVE  FileInv'
PROOF
<1> DEFINE file == rows \cup lastRow
<1>1. /\ rows' = rows /\ tail' = lastRow /\ torn' = fragment
      /\ seq' = [k \in Key |-> LoadedSeq(file, k)]
      /\ seen' = {row.id : row \in file}
      /\ stage' = "none" /\ making' = making /\ submitted' = submitted
  BY DEF Load
<1>2. file \in SUBSET Line
  BY DEF FileInv, FileTyped
<1>3. \A row \in file : row.id \in Made /\ row.id.key \in Key /\ row.id.seq \in Nat
  BY <1>2 DEF Line, Made
<1>4. \A row \in file : row.id.seq <= MaxSeq
  <2> SUFFICES ASSUME NEW row \in file PROVE row.id.seq <= MaxSeq
    OBVIOUS
  <2>1. row.id.seq <= seq[row.id.key]
    BY DEF FileInv, Counted
  <2>2. seq[row.id.key] \in 0..MaxSeq
    BY <1>3 DEF FileInv, FileTyped
  <2> QED
    BY <1>3, <2>1, <2>2, JournalAssumption
<1> HIDE DEF file
<1>5. seq' \in [Key -> 0..MaxSeq]
  BY <1>1, <1>2, <1>4, LoadedSeqOK
<1>6. \A row \in file : row.id.seq <= seq'[row.id.key]
  BY <1>1, <1>2, <1>3, <1>4, LoadedSeqOK
<1>7. seen' \subseteq Made
  BY <1>1, <1>3
<1>8. \A id \in seen' : Counted(id)'
  BY <1>1, <1>6 DEF Counted
<1>9. \A row \in rows' \cup tail' : Counted(row.id)'
  BY <1>1, <1>6 DEF Counted, file
<1> QED
  BY <1>1, <1>5, <1>7, <1>8, <1>9 DEF FileInv, FileTyped, Underway, OnFile

-----------------------------------------------------------------------------
LEMMA FileInit == ASSUME JournalInit PROVE FileInv
<1>1. making \in Made /\ seq \in [Key -> 0..MaxSeq]
  BY JournalAssumption DEF JournalInit, Made
<1> QED
  BY <1>1 DEF JournalInit, FileInv, FileTyped, Underway

(* A new number is above all that was ever given out for its key.           *)
LEMMA AskOK == ASSUME FileInv, NEW k \in Key, NextClientOrderId(k) PROVE FileInv'
PROOF
<1>1. /\ stage = "none" /\ stage' = "asked" /\ seq[k] < MaxSeq
      /\ seq' = [seq EXCEPT ![k] = @ + 1]
      /\ making' = [key |-> k, seq |-> seq[k] + 1]
      /\ rows' = rows /\ tail' = tail /\ torn' = torn /\ seen' = seen /\ submitted' = submitted
  BY DEF NextClientOrderId
<1>2. seq \in [Key -> 0..MaxSeq]
  BY DEF FileInv, FileTyped
<1>3. seq' \in [Key -> 0..MaxSeq] /\ seq'[k] = seq[k] + 1
  BY <1>1, <1>2, JournalAssumption
<1>4. making' \in Made /\ making'.key = k /\ making'.seq = seq[k] + 1
  BY <1>1, <1>2 DEF Made
<1>5. \A id \in Made : Counted(id) => Counted(id)' /\ id # making'
  BY <1>1, <1>2, <1>3, <1>4 DEF Made, Counted
<1>6. \A row \in rows \cup tail : row.id \in Made
  BY DEF FileInv, FileTyped, Line
<1>7. \A id \in submitted : Counted(id) /\ id \in Made
  BY DEF FileInv, FileTyped, OnFile
<1>8. \A id : OnFile(id)' <=> OnFile(id)
  BY <1>1 DEF OnFile
<1>9. making' \notin seen /\ making' \notin submitted
  BY <1>5, <1>7 DEF FileInv, FileTyped
<1>10. FileTyped'
  BY <1>1, <1>3, <1>4 DEF FileInv, FileTyped
<1>11. Underway'
  BY <1>1, <1>3, <1>4, <1>9 DEF Underway
<1> QED
  BY <1>1, <1>5, <1>6, <1>8, <1>10, <1>11 DEF FileInv, FileTyped

(* The id whose order is under way is counted.                              *)
LEMMA MakingCounted == FileInv /\ stage # "none" => Counted(making)
BY JournalAssumption DEF FileInv, FileTyped, Underway, Counted, Made

LEMMA CreateOK == ASSUME FileInv, CreateOrder PROVE FileInv'
PROOF
<1> DEFINE row == [id |-> making, event |-> "create"]
<1>1. /\ stage = "asked" /\ stage' = "created" /\ AppendRow(row)
      /\ seq' = seq /\ making' = making /\ submitted' = submitted
  BY DEF CreateOrder
<1>2. row \in Line /\ row.id = making
  BY DEF FileInv, FileTyped, Line, JournalEvent
<1>3. Counted(row.id)
  BY <1>1, <1>2, MakingCounted
<1> HIDE DEF row
<1>4. /\ rows' \subseteq Line /\ tail' = {} /\ torn' = FALSE
      /\ seen' \subseteq Made
      /\ \A r \in rows' \cup tail' : Counted(r.id)'
      /\ \A id \in seen' : Counted(id)'
      /\ \A id : OnFile(id) => OnFile(id)'
  BY <1>1, <1>2, <1>3, RowOK
<1>5. Underway'
  BY <1>1, <1>4 DEF FileInv, Underway
<1> QED
  BY <1>1, <1>4, <1>5 DEF FileInv, FileTyped

(* The row of mark_submitting has a line of its own: whatever was torn, the  *)
(* row of create has ended it.                                              *)
LEMMA MarkOK == ASSUME FileInv, MarkSubmitting PROVE FileInv'
PROOF
<1>0. PICK row \in Line : row = [id |-> making, event |-> "submitting"]
  BY DEF FileInv, FileTyped, Line, JournalEvent
<1>1. /\ stage = "created" /\ stage' = "recorded" /\ AppendRow(row)
      /\ seq' = seq /\ making' = making /\ submitted' = submitted
  BY <1>0 DEF MarkSubmitting
<1>2. row.id = making
  BY <1>0
<1>3. Counted(row.id)
  BY <1>1, <1>2, MakingCounted
<1>4. /\ rows' \subseteq Line /\ tail' = {} /\ torn' = FALSE
      /\ seen' \subseteq Made
      /\ \A r \in rows' \cup tail' : Counted(r.id)'
      /\ \A id \in seen' : Counted(id)'
      /\ \A id : OnFile(id) => OnFile(id)'
      /\ ~torn /\ tail = {} => OnFile(row.id)'
  BY <1>1, <1>2, <1>3, RowOK
<1>5. OnFile(making)'
  <2>1. ~torn /\ tail = {}
    BY <1>1 DEF FileInv, Underway
  <2>2. OnFile(row.id)'
    BY <1>4, <2>1
  <2> QED
    BY <1>1, <1>2, <2>2 DEF OnFile
<1>6. Underway'
  BY <1>1, <1>4, <1>5 DEF FileInv, Underway
<1> QED
  BY <1>1, <1>4, <1>6 DEF FileInv, FileTyped

LEMMA SubmitOK == ASSUME FileInv, Submit PROVE FileInv'
<1>1. /\ stage = "recorded" /\ stage' = "none" /\ submitted' = submitted \cup {making}
      /\ UNCHANGED <<making, rows, tail, torn, seq, seen>>
  BY DEF Submit
<1>2. \A id : (OnFile(id)' <=> OnFile(id)) /\ (Counted(id)' <=> Counted(id))
  BY <1>1 DEF OnFile, Counted
<1>3. OnFile(making) /\ making \in Made
  BY <1>1 DEF FileInv, FileTyped, Underway
<1>4. \A id \in submitted' : OnFile(id)'
  BY <1>1, <1>2, <1>3 DEF FileInv
<1>5. FileTyped' /\ Underway'
  BY <1>1, <1>3 DEF FileInv, FileTyped, Underway
<1> QED
  BY <1>1, <1>2, <1>4, <1>5 DEF FileInv

LEMMA LaterOK == ASSUME FileInv, NEW id \in Id, RecordLater(id) PROVE FileInv'
PROOF
<1> DEFINE row == [id |-> id, event |-> "later"]
<1>1. /\ stage = "none" /\ id \in submitted /\ AppendRow(row)
      /\ seq' = seq /\ making' = making /\ submitted' = submitted /\ stage' = stage
  BY DEF RecordLater
<1>2. row \in Line /\ row.id = id
  BY <1>1 DEF FileInv, FileTyped, Line, JournalEvent
<1>3. Counted(row.id)
  BY <1>1, <1>2 DEF FileInv, OnFile
<1> HIDE DEF row
<1>4. /\ rows' \subseteq Line /\ tail' = {} /\ torn' = FALSE
      /\ seen' \subseteq Made
      /\ \A r \in rows' \cup tail' : Counted(r.id)'
      /\ \A i \in seen' : Counted(i)'
      /\ \A i : OnFile(i) => OnFile(i)'
  BY <1>1, <1>2, <1>3, RowOK
<1> QED
  BY <1>1, <1>4 DEF FileInv, FileTyped, Underway

LEMMA GiveUpOK == ASSUME FileInv, GiveUp PROVE FileInv'
<1>1. \A id : (OnFile(id)' <=> OnFile(id)) /\ (Counted(id)' <=> Counted(id))
  BY DEF GiveUp, OnFile, Counted
<1>2. FileTyped' /\ Underway'
  BY DEF FileInv, FileTyped, Underway, GiveUp
<1> QED
  BY <1>1, <1>2 DEF FileInv, GiveUp

LEMMA CrashOK == ASSUME FileInv, Crash PROVE FileInv'
<1>1. Load(rows, tail, torn)
  BY DEF Crash
<1> QED
  BY <1>1, ReloadOK DEF FileInv, FileTyped

(* A torn row loses no other, and one that lost its newline only is counted *)
(* like the id it is about.                                                 *)
LEMMA CrashWritingOK == ASSUME FileInv, NEW row \in Row, CrashWriting(row) PROVE FileInv'
PROOF
<1>1. row \in Line
  BY DEF Row, Id, Line, Made
<1>2. row.id \in Made /\ (row.id \in submitted \/ (stage # "none" /\ row.id = making))
  BY <1>1 DEF CrashWriting, Appending, Line
<1>3. Counted(row.id)
  BY <1>2, MakingCounted DEF FileInv, OnFile
<1>4. Load(rows, {}, TRUE) \/ Load(rows, {row}, FALSE)
  BY Zenon DEF CrashWriting
<1>5. CASE Load(rows, {}, TRUE)
  <2>1. {} \in SUBSET Line /\ \A r \in {} : Counted(r.id)
    OBVIOUS
  <2> QED
    BY <1>5, <2>1, ReloadOK, Zenon
<1>6. CASE Load(rows, {row}, FALSE)
  <2>1. {row} \in SUBSET Line /\ \A r \in {row} : Counted(r.id)
    BY <1>1, <1>3
  <2> QED
    BY <1>6, <2>1, ReloadOK, Zenon
<1> QED
  BY <1>4, <1>5, <1>6

(* Every step keeps the invariant.                                          *)
LEMMA FileNext == ASSUME FileInv, [JournalNext]_journal PROVE FileInv'
PROOF
<1>1. CASE UNCHANGED journal
  BY <1>1 DEF journal, FileInv, FileTyped, Underway, OnFile, Counted
<1> QED
  BY <1>1, AskOK, GiveUpOK, CreateOK, MarkOK, SubmitOK, LaterOK, CrashOK, CrashWritingOK
  DEF JournalNext

LEMMA FileSafe == JournalSpec => []FileInv
<1>1. JournalInit => FileInv
  BY FileInit
<1>2. FileInv /\ [JournalNext]_journal => FileInv'
  BY FileNext
<1> QED
  BY <1>1, <1>2, PTL DEF JournalSpec

-----------------------------------------------------------------------------
(* No id reaches the venue twice, whatever rows crashes tore: the number of *)
(* an order the venue has is on a line of its own, and lines are never lost. *)
THEOREM NoResubmit == JournalSpec => []NeverResubmitted
<1>1. FileInv => NeverResubmitted
  BY DEF FileInv, Underway, NeverResubmitted
<1> QED
  BY <1>1, FileSafe, PTL

(* A number just given out is on no row this process has read or written.   *)
THEOREM FreshNumber == JournalSpec => []FreshIsNew
<1>1. FileInv => FreshIsNew
  BY DEF FileInv, Underway, FreshIsNew
<1> QED
  BY <1>1, FileSafe, PTL
=============================================================================
