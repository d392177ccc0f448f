----------------------------- MODULE Induction -----------------------------
(***************************************************************************)
(* Induction without an operator parameter: what holds of every number, or *)
(* of every sequence, is stated as a set that has all of them.  Each rests *)
(* on the minimal elements of a well-founded relation.                     *)
(***************************************************************************)
EXTENDS Integers, SequencesExt, SequenceTheorems, FunctionTheorems, FiniteSetTheorems,
        WellFoundedInduction, TLAPS

\* Numbers: a set with 0 that is closed under the successor has them all.
LEMMA NatsFrom0 ==
  ASSUME NEW S, 0 \in S, \A n \in Nat : n \in S => n + 1 \in S
  PROVE  Nat \subseteq S
<1> DEFINE R == OpToRel(<, Nat)
<1>1. \A n \in Nat : n # 0 => <<n - 1, n>> \in R
  BY DEF OpToRel
<1>2. IsWellFoundedOn(R, Nat)
  BY NatLessThanWellFounded
<1> HIDE DEF R
<1>3. SUFFICES ASSUME Nat \ S # {} PROVE FALSE
  OBVIOUS
<1>4. \E x \in Nat \ S : \A y \in Nat \ S : ~ (<<y, x>> \in R)
  <2> Nat \ S \subseteq Nat
    OBVIOUS
  <2> QED BY <1>2, <1>3, WFMin
<1>5. PICK x \in Nat \ S : \A y \in Nat \ S : ~ (<<y, x>> \in R)
  BY <1>4
<1>6. x \in Nat /\ x # 0 /\ x - 1 \in Nat
  OBVIOUS
<1>7. x - 1 \notin S
  BY <1>6
<1> QED BY <1>1, <1>5, <1>6, <1>7

\* The same of the numbers up to n.
LEMMA NumbersUpTo ==
  ASSUME NEW S, NEW n \in Nat, 0 \in S,
         \A k \in 0..n - 1 : k \in S => k + 1 \in S
  PROVE  0..n \subseteq S
<1> DEFINE T == {k \in Nat : k <= n => k \in S}
<1>1. 0 \in T
  OBVIOUS
<1>2. \A k \in Nat : k \in T => k + 1 \in T
  OBVIOUS
<1> HIDE DEF T
<1>3. Nat \subseteq T
  BY <1>1, <1>2, NatsFrom0
<1> QED BY <1>3 DEF T

\* Sequences: a set with the empty one, closed under Append, has them all.
LEMMA SeqsByAppend ==
  ASSUME NEW T, NEW S, << >> \in S,
         \A s \in Seq(T), e \in T : s \in S => Append(s, e) \in S
  PROVE  Seq(T) \subseteq S
<1> DEFINE N == {n \in Nat : \A s \in Seq(T) : Len(s) = n => s \in S}
<1>1. 0 \in N
  BY EmptySeq
<1>2. ASSUME NEW n \in Nat, n \in N PROVE n + 1 \in N
  <2> SUFFICES ASSUME NEW s \in Seq(T), Len(s) = n + 1 PROVE s \in S
    OBVIOUS
  <2>1. s # << >>
    BY EmptySeq
  <2>2. PICK t \in Seq(T), e \in T : s = Append(t, e)
    BY <2>1, SequenceEmptyOrAppend
  <2>3. Len(t) = n
    BY <2>2, AppendProperties, LenProperties
  <2> QED BY <1>2, <2>2, <2>3
<1> HIDE DEF N
<1>3. Nat \subseteq N
  BY <1>1, <1>2, NatsFrom0
<1> QED BY <1>3, LenProperties DEF N

\* f is the recursive function over 0..n that starts with b, and whose values g
\* gives from the ones before.
Recursion(D, b, n, g, f) ==
  f \in [0..n -> D] /\ f[0] = b /\ \A k \in 1..n : f[k] = g[k][f[k - 1]]

\* There is such a function.
LEMMA RecursionExists ==
  ASSUME NEW D, NEW b \in D, NEW n \in Nat, NEW g \in [1..n -> [D -> D]]
  PROVE  \E f : Recursion(D, b, n, g, f)
<1> DEFINE Good(f, m) == f[0] = b /\ \A k \in 1..m : f[k] = g[k][f[k - 1]]
           S == {m \in Nat : \E f \in [0..m -> D] : Good(f, m)}
<1>1. 0 \in S
  <2>1. [k \in 0..0 |-> b] \in [0..0 -> D] /\ Good([k \in 0..0 |-> b], 0)
    OBVIOUS
  <2> QED BY <2>1
<1>2. ASSUME NEW m \in 0..n - 1, m \in S PROVE m + 1 \in S
  <2>1. PICK f \in [0..m -> D] : Good(f, m)
    BY <1>2
  <2> DEFINE h == [k \in 0..m + 1 |-> IF k = m + 1 THEN g[m + 1][f[m]] ELSE f[k]]
  <2>2. g[m + 1][f[m]] \in D
    OBVIOUS
  <2>3. h \in [0..m + 1 -> D]
    BY <2>2
  <2>4. h[0] = b
    BY <2>1
  <2>5. ASSUME NEW k \in 1..m + 1 PROVE h[k] = g[k][h[k - 1]]
    <3>1. CASE k = m + 1
      <4>1. h[k] = g[m + 1][f[m]] /\ h[k - 1] = f[m]
        BY <3>1
      <4> QED BY <3>1, <4>1
    <3>2. CASE k # m + 1
      <4>1. h[k] = f[k] /\ h[k - 1] = f[k - 1]
        BY <3>2
      <4> QED BY <2>1, <3>2, <4>1
    <3> QED BY <3>1, <3>2
  <2> HIDE DEF h
  <2>6. m + 1 \in Nat /\ h \in [0..m + 1 -> D] /\ Good(h, m + 1)
    BY <2>3, <2>4, <2>5
  <2> QED BY <2>6
<1> HIDE DEF S
<1>3. 0..n \subseteq S
  BY <1>1, <1>2, NumbersUpTo
<1>4. n \in S
  BY <1>3
<1> QED BY <1>4 DEF S, Recursion

-----------------------------------------------------------------------------
(* Lists of sets, and folds over lists.                                    *)

\* SetToSeq lists a finite set: each of its elements, once.
LEMMA ListsSet ==
  ASSUME NEW S, IsFiniteSet(S)
  PROVE  LET f == SetToSeq(S) IN
         /\ f \in Seq(S)
         /\ \A i, j \in 1..Len(f) : f[i] = f[j] => i = j
         /\ \A x \in S : \E i \in 1..Len(f) : f[i] = x
<1> DEFINE n == Cardinality(S)
           f == SetToSeq(S)
<1>1. n \in Nat /\ ExistsBijection(1..n, S)
  BY FS_CardinalityType
<1>2. PICK b \in Bijection(1..n, S) : TRUE
  BY <1>1, Fun_ExistsBij
<1>3. b \in [1..n -> S] /\ IsInjective(b)
  <2>1. b \in [1..n -> S] /\ \A i, j \in 1..n : b[i] = b[j] => i = j
    BY <1>2, Fun_BijectionProperties
  <2>2. DOMAIN b = 1..n
    BY <2>1
  <2> QED BY <2>1, <2>2 DEF IsInjective
<1>4. f \in [1..n -> S] /\ IsInjective(f)
  BY <1>3 DEF SetToSeq
<1> HIDE DEF f, n
<1>5. f \in Injection(1..n, S)
  BY <1>4, Fun_IsInj DEF IsInjective
<1>6. f \in Bijection(1..n, Range(f))
  BY <1>5, Fun_InjMeansBijImage
<1>7. Cardinality(Range(f)) = n
  BY <1>1, <1>6, Fun_ExistsBij, FS_CountingElements
<1>8. Range(f) \in SUBSET S
  BY <1>4 DEF Range
<1>9. Range(f) = S
  BY <1>7, <1>8, FS_Subset DEF n
<1>10. \A x \in S : \E i \in 1..n : f[i] = x
  BY <1>4, <1>9 DEF Range
<1>11. f \in Seq(S) /\ Len(f) = n
  BY <1>1, <1>4
<1> QED BY <1>4, <1>10, <1>11 DEF f, IsInjective

\* A set of numbers up to n has a largest one.
LEMMA LargestUpTo ==
  ASSUME NEW n \in Nat, NEW t \in SUBSET (1..n), t # {}
  PROVE  Max(t) \in t /\ \A y \in t : y <= Max(t)
<1> DEFINE Has(r) == \E x \in r : \A y \in r : x >= y
           S == {m \in 0..n : \A r \in SUBSET (1..m) : r # {} => Has(r)}
<1>1. 0 \in S
  <2>1. 1..0 = {}
    OBVIOUS
  <2>2. \A r \in SUBSET (1..0) : r = {}
    BY <2>1
  <2>3. \A r \in SUBSET (1..0) : r # {} => Has(r)
    BY <2>2
  <2> HIDE DEF Has
  <2> QED BY <2>3
<1>2. ASSUME NEW m \in 0..n - 1, m \in S PROVE m + 1 \in S
  <2> SUFFICES ASSUME NEW r \in SUBSET (1..m + 1), r # {} PROVE Has(r)
    OBVIOUS
  <2>1. CASE m + 1 \in r
    BY <2>1
  <2>2. CASE m + 1 \notin r
    <3>1. r \in SUBSET (1..m)
      BY <2>2
    <3> QED BY <1>2, <3>1
  <2> QED BY <2>1, <2>2
<1> HIDE DEF S
<1>3. 0..n \subseteq S
  BY <1>1, <1>2, NumbersUpTo
<1>4. \A r \in SUBSET (1..n) : r # {} => Has(r)
  <2>1. n \in S
    BY <1>3
  <2> QED BY <2>1 DEF S
<1>5. PICK x \in t : \A y \in t : x >= y
  BY <1>4
<1>6. Max(t) \in t /\ \A y \in t : Max(t) >= y
  BY <1>5 DEF Max
<1> QED BY <1>6

\* Of the values at some of the numbers up to n, one is the largest.
LEMMA LargestValue ==
  ASSUME NEW n \in Nat, NEW t \in SUBSET (1..n), t # {}, NEW F \in [t -> Int]
  PROVE  \E x \in t : \A y \in t : F[y] <= F[x]
<1> DEFINE Has(r) == \E x \in r : \A y \in r : F[y] <= F[x]
           S == {m \in 0..n : \A r \in SUBSET t : r \subseteq 1..m /\ r # {} => Has(r)}
<1>1. 0 \in S
  <2>1. \A r : r \subseteq 1..0 => r = {}
    OBVIOUS
  <2>2. 0 \in 0..n
    OBVIOUS
  <2> HIDE DEF Has
  <2> QED BY <2>1, <2>2
<1>2. ASSUME NEW m \in 0..n - 1, m \in S PROVE m + 1 \in S
  <2> SUFFICES ASSUME NEW r \in SUBSET t, r \subseteq 1..m + 1, r # {} PROVE Has(r)
    OBVIOUS
  <2> DEFINE q == r \ {m + 1}
  <2>1. q \in SUBSET t /\ q \subseteq 1..m
    OBVIOUS
  <2>2. CASE q = {}
    <3>1. r = {m + 1} /\ F[m + 1] \in Int
      BY <2>2
    <3> QED BY <3>1
  <2>3. CASE q # {}
    <3>1. PICK x \in q : \A y \in q : F[y] <= F[x]
      BY <1>2, <2>1, <2>3
    <3>2. CASE m + 1 \notin r
      BY <3>1, <3>2
    <3>3. CASE m + 1 \in r
      <4>1. /\ x \in r /\ m + 1 \in r /\ F[x] \in Int /\ F[m + 1] \in Int
            /\ \A y \in r : F[y] \in Int /\ (y \in q \/ y = m + 1)
        BY <3>3
      <4>2. CASE F[m + 1] <= F[x]
        BY <3>1, <4>1, <4>2
      <4>3. CASE F[x] <= F[m + 1]
        BY <3>1, <4>1, <4>3
      <4> QED BY <4>1, <4>2, <4>3
    <3> QED BY <3>2, <3>3
  <2> QED BY <2>2, <2>3
<1> HIDE DEF S
<1>3. 0..n \subseteq S
  BY <1>1, <1>2, NumbersUpTo
<1>4. n \in S
  BY <1>3
<1> QED BY <1>4 DEF S

\* A set of numbers up to n has a smallest one.
LEMMA SmallestUpTo ==
  ASSUME NEW n \in Nat, NEW t \in SUBSET (1..n), t # {}
  PROVE  Min(t) \in t /\ \A y \in t : Min(t) <= y
<1> DEFINE F == [i \in t |-> -i]
<1>1. F \in [t -> Int]
  OBVIOUS
<1>2. PICK x \in t : \A y \in t : F[y] <= F[x]
  <2> HIDE DEF F
  <2> QED BY <1>1, LargestValue
<1>3. \A y \in t : x <= y
  BY <1>2
<1> QED BY <1>3 DEF Min

\* And the largest of the numbers up to n is n.
LEMMA LargestOfAll ==
  ASSUME NEW n \in Nat, n # 0
  PROVE  Max(1..n) = n /\ (1..n) \ {n} = 1..n - 1
<1>1. 1..n \in SUBSET (1..n) /\ n \in 1..n
  OBVIOUS
<1>2. Max(1..n) \in 1..n /\ n <= Max(1..n)
  BY <1>1, LargestUpTo
<1> QED BY <1>2

\* How FoldLeft goes through the places of a list, from the last.
Folding(b, n, g, f) ==
  f = [t \in SUBSET (1..n) |-> IF t = {} THEN b ELSE g[Max(t)][f[t \ {Max(t)}]]]

\* There is a function that does.
LEMMA FoldingExists ==
  ASSUME NEW D, NEW b \in D, NEW n \in Nat, NEW g \in [1..n -> [D -> D]]
  PROVE  \E f \in [SUBSET (1..n) -> D] : Folding(b, n, g, f)
<1> DEFINE S == {m \in 0..n : \E f \in [SUBSET (1..m) -> D] : Folding(b, m, g, f)}
<1>1. 0 \in S
  <2> DEFINE f == [t \in SUBSET (1..0) |-> b]
  <2>1. f \in [SUBSET (1..0) -> D]
    OBVIOUS
  <2>2. \A t \in SUBSET (1..0) : t = {}
    OBVIOUS
  <2>3. Folding(b, 0, g, f)
    BY <2>2 DEF Folding
  <2> QED BY <2>1, <2>3
<1>2. ASSUME NEW m \in 0..n - 1, m \in S PROVE m + 1 \in S
  <2>1. PICK f \in [SUBSET (1..m) -> D] : Folding(b, m, g, f)
    BY <1>2
  <2> DEFINE N == m + 1
             h == [t \in SUBSET (1..N) |-> IF N \in t THEN g[N][f[t \ {N}]] ELSE f[t]]
  <2>2. N \in 1..n /\ N - 1 = m
    OBVIOUS
  <2>3. ASSUME NEW t \in SUBSET (1..N), N \in t
        PROVE  h[t] \in D /\ h[t] = g[Max(t)][h[t \ {Max(t)}]]
    <3>1. Max(t) = N
      <4>1. N \in Nat /\ t # {}
        BY <2>2, <2>3
      <4>2. Max(t) \in t /\ \A y \in t : y <= Max(t)
        BY <4>1, LargestUpTo
      <4>3. Max(t) \in 1..N /\ N <= Max(t)
        BY <2>3, <4>2
      <4> QED BY <2>2, <4>3
    <3>2. t \ {N} \in SUBSET (1..m) /\ t \ {N} \in SUBSET (1..N) /\ N \notin t \ {N}
      OBVIOUS
    <3>3. h[t] = g[N][f[t \ {N}]] /\ h[t \ {N}] = f[t \ {N}] /\ f[t \ {N}] \in D
      BY <2>3, <3>2
    <3>4. h[t] \in D
      BY <2>2, <3>3
    <3> QED BY <3>1, <3>3, <3>4
  <2>4. ASSUME NEW t \in SUBSET (1..N), N \notin t
        PROVE  h[t] \in D /\ h[t] = IF t = {} THEN b ELSE g[Max(t)][h[t \ {Max(t)}]]
    <3>1. t \in SUBSET (1..m)
      BY <2>4
    <3>2. h[t] = f[t] /\ f[t] \in D
      BY <2>4, <3>1
    <3>3. f[t] = IF t = {} THEN b ELSE g[Max(t)][f[t \ {Max(t)}]]
      BY <2>1, <3>1 DEF Folding
    <3>4. t \ {Max(t)} \in SUBSET (1..m) /\ t \ {Max(t)} \in SUBSET (1..N) /\ N \notin t \ {Max(t)}
      BY <2>4, <3>1
    <3>5. h[t \ {Max(t)}] = f[t \ {Max(t)}]
      BY <3>4
    <3> QED BY <3>2, <3>3, <3>5
  <2>5. \A t \in SUBSET (1..N) :
           h[t] \in D /\ h[t] = IF t = {} THEN b ELSE g[Max(t)][h[t \ {Max(t)}]]
    BY <2>3, <2>4
  <2>6. DOMAIN h = SUBSET (1..N) /\ h = [t \in SUBSET (1..N) |-> h[t]]
    OBVIOUS
  <2> HIDE DEF h
  <2>7. h \in [SUBSET (1..N) -> D] /\ Folding(b, N, g, h)
    BY <2>5, <2>6 DEF Folding
  <2>8. N \in 0..n
    BY <2>2
  <2> QED BY <2>7, <2>8
<1> HIDE DEF S
<1>3. 0..n \subseteq S
  BY <1>1, <1>2, NumbersUpTo
<1>4. n \in S
  BY <1>3
<1> QED BY <1>4 DEF S

\* The same of an f that g gives the values of as long as they stay in D.
FoldsIn(D, b, n, g, f) ==
  /\ f[{}] = b
  /\ \A t \in SUBSET (1..n) :
        t # {} /\ f[t \ {Max(t)}] \in D => f[t] = g[Max(t)][f[t \ {Max(t)}]]

\* The prefixes of the list that such a function goes through are a recursion.
LEMMA FoldingSteps ==
  ASSUME NEW D, NEW b \in D, NEW n \in Nat, NEW g \in [1..n -> [D -> D]], NEW f,
         FoldsIn(D, b, n, g, f)
  PROVE  \E h : Recursion(D, b, n, g, h) /\ f[1..n] = h[n]
<1> DEFINE h == [k \in 0..n |-> f[1..k]]
           S == {k \in 0..n : f[1..k] \in D}
<1>1. ASSUME NEW k \in 1..n, f[1..k - 1] \in D PROVE f[1..k] = g[k][f[1..k - 1]]
  <2>1. Max(1..k) = k /\ (1..k) \ {k} = 1..k - 1
    BY LargestOfAll
  <2>2. \A i \in 1..k : i \in 1..n
    OBVIOUS
  <2>3. 1..k \in SUBSET (1..n) /\ k \in 1..k
    BY <2>2
  <2>4. 1..k # {}
    BY <2>3
  <2> QED BY <1>1, <2>1, <2>3, <2>4 DEF FoldsIn
<1>2. 0 \in S
  BY 1..0 = {} DEF FoldsIn
<1>3. ASSUME NEW k \in 0..n - 1, k \in S PROVE k + 1 \in S
  <2>1. k + 1 \in 1..n /\ (k + 1) - 1 = k /\ f[1..k] \in D
    BY <1>3
  <2>2. f[1..k + 1] = g[k + 1][f[1..k]]
    BY <1>1, <2>1
  <2> QED BY <2>1, <2>2
<1> HIDE DEF S
<1>4. 0..n \subseteq S
  BY <1>2, <1>3, NumbersUpTo
<1>5. \A k \in 0..n : f[1..k] \in D
  BY <1>4 DEF S
<1>6. h[0] = b
  BY 1..0 = {} DEF FoldsIn
<1>7. ASSUME NEW k \in 1..n PROVE h[k] = g[k][h[k - 1]]
  <2>1. k - 1 \in 0..n
    OBVIOUS
  <2> QED BY <1>1, <1>5, <2>1
<1>8. h \in [0..n -> D] /\ f[1..n] = h[n]
  BY <1>5
<1> HIDE DEF h
<1>9. Recursion(D, b, n, g, h)
  BY <1>6, <1>7, <1>8 DEF Recursion
<1> QED BY <1>8, <1>9
=============================================================================
