---------------------------- MODULE DequeProofs ----------------------------
(***************************************************************************)
(* Proofs about HeteroDeque, for any objects, widths and size of the block *)
(* that DequeAssumption allows: the list in memory is what push_back makes *)
(* of it, and the pointer arithmetic never leaves the block.               *)
(***************************************************************************)
EXTENDS HeteroDeque, Induction

Memory == [Cell -> Header \cup {Body}]

\* The headers of a list of n elements, and the terminating one, are in the cells
\* pos[1], ..., pos[n + 1] of the memory m.
Chain(m, n, pos) ==
    /\ pos \in [1..n + 1 -> Cell]
    /\ pos[1] = 0
    /\ \A i \in 1..n : /\ m[pos[i]] \in Header
                       /\ m[pos[i]].access \in Element
                       /\ m[pos[i]].next = pos[i + 1]
                       /\ pos[i + 1] = pos[i] + 1 + Width[m[pos[i]].access]
    /\ m[pos[n + 1]] \in Header
    /\ m[pos[n + 1]].access = Nil
    /\ m[pos[n + 1]].next = Nil

\* The headers of a list come one after another, and there are fewer of them than
\* there are cells.
LEMMA ChainOrder ==
  ASSUME NEW m, NEW n \in Nat, NEW pos, Chain(m, n, pos)
  PROVE  /\ \A j \in 1..n + 1 : pos[j] \in Cell /\ pos[j] >= j - 1
         /\ \A j \in 1..n + 1 : \A i \in 1..j - 1 : pos[i] < pos[j]
<1>1. Size \in Nat /\ Width \in [Element -> Nat \ {0}]
  BY DequeAssumption
<1>2. ASSUME NEW i \in 1..n PROVE pos[i] \in Nat /\ pos[i + 1] \in Nat /\ pos[i + 1] > pos[i]
  <2>1. m[pos[i]].access \in Element /\ pos[i + 1] = pos[i] + 1 + Width[m[pos[i]].access]
    BY DEF Chain
  <2>2. pos[i] \in Cell
    BY DEF Chain
  <2>3. Width[m[pos[i]].access] \in Nat
    BY <1>1, <2>1
  <2> QED BY <1>1, <2>1, <2>2, <2>3 DEF Cell
<1> DEFINE P(j) == pos[j] >= j - 1 /\ \A i \in 1..j - 1 : pos[i] < pos[j]
           S == {k \in 0..n : P(k + 1)}
<1>3. 0 \in S
  BY DEF Chain
<1>4. ASSUME NEW k \in 0..n - 1, k \in S PROVE k + 1 \in S
  <2>1. k + 1 \in 1..n /\ k + 1 \in 0..n
    OBVIOUS
  <2>2. pos[k + 1] \in Nat /\ pos[k + 1 + 1] \in Nat /\ pos[k + 1 + 1] > pos[k + 1]
    BY <1>2, <2>1
  <2>3. pos[k + 1] >= k /\ \A i \in 1..k : pos[i] < pos[k + 1]
    BY <1>4
  <2>4. \A i \in 1..k : pos[i] \in Nat
    BY <1>2
  <2>5. ASSUME NEW i \in 1..k + 1 PROVE pos[i] < pos[k + 1 + 1]
    <3>1. CASE i = k + 1
      BY <2>2, <3>1
    <3>2. CASE i \in 1..k
      BY <2>2, <2>3, <2>4, <3>2
    <3> QED BY <3>1, <3>2
  <2> QED BY <2>1, <2>2, <2>3, <2>5
<1> HIDE DEF S
<1>5. 0..n \subseteq S
  BY <1>3, <1>4, NumbersUpTo
<1>6. ASSUME NEW j \in 1..n + 1 PROVE P(j)
  <2>1. j - 1 \in S
    BY <1>5
  <2> QED BY <2>1 DEF S
<1> QED BY <1>6 DEF Chain

\* One more step of an iteration: from a cell to the elements from it on, given
\* those from its successor on.
Further(m, walk) ==
  [c \in Pointer |-> IF c = Nil \/ m[c] = Body \/ m[c].access = Nil THEN <<>>
                     ELSE <<m[c].access>> \o walk[m[c].next]]

Nowhere == [c \in Pointer |-> <<>>]

WalkPath(m, f) == f = [n \in 0..Size |-> IF n = 0 THEN Nowhere ELSE Further(m, f[n - 1])]

\* The recursive function of Walk exists.
LEMMA WalkExists ==
  ASSUME NEW m \in Memory
  PROVE  \E f : WalkPath(m, f) /\ f \in [0..Size -> [Pointer -> Seq(Element)]]
<1> DEFINE D == [Pointer -> Seq(Element)]
           g == [k \in 1..Size |-> [w \in D |-> Further(m, w)]]
<1>1. Size \in Nat
  BY DequeAssumption
<1>2. Nowhere \in D
  BY DEF Nowhere
<1>3. ASSUME NEW w \in D PROVE Further(m, w) \in D
  <2>1. ASSUME NEW c \in Pointer, c # Nil, m[c] # Body, m[c].access # Nil
        PROVE  <<m[c].access>> \o w[m[c].next] \in Seq(Element)
    <3>1. m[c] \in Header
      BY <2>1 DEF Memory, Pointer
    <3>2. m[c].access \in Element /\ m[c].next \in Pointer
      BY <2>1, <3>1 DEF Header
    <3>3. w[m[c].next] \in Seq(Element) /\ <<m[c].access>> \in Seq(Element)
      BY <3>2
    <3> QED BY <3>3, ConcatProperties
  <2> QED BY <2>1 DEF Further
<1>4. g \in [1..Size -> [D -> D]]
  BY <1>3
<1>5. \A k \in 1..Size, w \in D : g[k][w] = Further(m, w)
  OBVIOUS
<1> HIDE DEF g, D
<1>6. PICK f : Recursion(D, Nowhere, Size, g, f)
  BY <1>1, <1>2, <1>4, RecursionExists
<1>7. ASSUME NEW k \in 0..Size
      PROVE  f[k] = IF k = 0 THEN Nowhere ELSE Further(m, f[k - 1])
  <2>1. k # 0 => k \in 1..Size /\ k - 1 \in 0..Size
    BY <1>1
  <2> QED BY <1>5, <1>6, <2>1 DEF Recursion
<1>8. WalkPath(m, f)
  BY <1>6, <1>7 DEF WalkPath, Recursion
<1> QED BY <1>6, <1>8 DEF Recursion, D

\* An iteration from the start of a list finds its elements, in their order.
LEMMA WalkIs ==
  ASSUME NEW m \in Memory, NEW n \in Nat, NEW pos, Chain(m, n, pos)
  PROVE  Walk(m, 0) = [i \in 1..n |-> m[pos[i]].access]
<1> DEFINE f == CHOOSE walk : WalkPath(m, walk)
           Rest(j) == [i \in 1..j |-> m[pos[n - j + i]].access]
           P(j) == \A k \in j..Size : f[k][pos[n + 1 - j]] = Rest(j)
           S == {j \in 0..n : P(j)}
<1>1. Size \in Nat /\ Nil \notin Element /\ Nil \notin Cell
  BY DequeAssumption DEF Cell
<1>2. WalkPath(m, f)
  BY WalkExists
<1>3. Walk(m, 0) = f[Size][0]
  <2>1. \A walk : WalkPath(m, walk) <=>
          walk = [k \in 0..Size |->
                   [c \in Pointer |->
                     IF k = 0 \/ c = Nil \/ m[c] = Body \/ m[c].access = Nil THEN <<>>
                     ELSE <<m[c].access>> \o walk[k - 1][m[c].next]]]
    BY DEF WalkPath, Nowhere, Further
  <2> QED BY <2>1 DEF Walk
<1> HIDE DEF f
<1>4. \A c \in Pointer : f[0][c] = <<>>
  BY <1>1, <1>2 DEF WalkPath, Nowhere
<1>5. \A k \in 0..Size - 1, c \in Pointer :
         f[k + 1][c] = IF c = Nil \/ m[c] = Body \/ m[c].access = Nil THEN <<>>
                       ELSE <<m[c].access>> \o f[k][m[c].next]
  <2>1. \A k \in 0..Size - 1 : f[k + 1] = Further(m, f[k])
    BY <1>1, <1>2 DEF WalkPath
  <2> QED BY <2>1 DEF Further
<1>6. 0 \in S
  <2>1. pos[n + 1] \in Pointer /\ m[pos[n + 1]].access = Nil
    BY DEF Chain, Pointer
  <2>2. ASSUME NEW k \in 0..Size PROVE f[k][pos[n + 1]] = <<>>
    <3>1. CASE k = 0
      BY <1>4, <2>1, <3>1
    <3>2. CASE k # 0
      <4>1. k - 1 \in 0..Size - 1 /\ k - 1 + 1 = k
        BY <1>1, <3>2
      <4>2. f[k - 1 + 1][pos[n + 1]] = <<>>
        BY <1>5, <2>1, <4>1
      <4> QED BY <4>1, <4>2
    <3> QED BY <3>1, <3>2
  <2>3. Rest(0) = <<>>
    OBVIOUS
  <2> QED BY <2>2, <2>3
<1>7. ASSUME NEW j \in 0..n - 1, j \in S PROVE j + 1 \in S
  <2> DEFINE i0 == n - j
             c == pos[i0]
  <2>1. i0 \in 1..n /\ i0 + 1 = n + 1 - j /\ n + 1 - (j + 1) = i0
    OBVIOUS
  <2>2. /\ c \in Cell /\ m[c] \in Header /\ m[c].access \in Element
        /\ m[c].next = pos[n + 1 - j]
    BY <2>1 DEF Chain
  <2>3. c \in Pointer /\ c # Nil /\ m[c] # Body /\ m[c].access # Nil
    BY <1>1, <2>2, CellAssumption DEF Pointer
  <2>4. Rest(j) \in Seq(Element) /\ Len(Rest(j)) = j
    <3>1. \A i \in 1..j : m[pos[n - j + i]].access \in Element
      BY DEF Chain
    <3> QED BY <3>1
  <2>5. <<m[c].access>> \o Rest(j) = Rest(j + 1)
    <3>1. <<m[c].access>> \o Rest(j) \in Seq(Element)
          /\ Len(<<m[c].access>> \o Rest(j)) = j + 1
          /\ \A i \in 1..j + 1 : (<<m[c].access>> \o Rest(j))[i] =
                                  IF i = 1 THEN m[c].access ELSE Rest(j)[i - 1]
      BY <2>2, <2>4
    <3>2. \A i \in 1..j + 1 : m[pos[n - (j + 1) + i]].access =
                              IF i = 1 THEN m[c].access ELSE Rest(j)[i - 1]
      OBVIOUS
    <3>3. <<m[c].access>> \o Rest(j) = [i \in 1..j + 1 |-> (<<m[c].access>> \o Rest(j))[i]]
      BY <3>1
    <3> QED BY <3>1, <3>2, <3>3
  <2>6. ASSUME NEW k \in j + 1..Size PROVE f[k][c] = Rest(j + 1)
    <3>1. k - 1 \in 0..Size - 1 /\ k - 1 \in j..Size /\ k - 1 + 1 = k
      BY <1>1
    <3>2. f[k - 1][pos[n + 1 - j]] = Rest(j)
      BY <1>7, <3>1
    <3>3. f[k - 1 + 1][c] = <<m[c].access>> \o f[k - 1][m[c].next]
      BY <1>5, <2>3, <3>1
    <3> QED BY <2>2, <2>5, <3>1, <3>2, <3>3
  <2> HIDE DEF Rest
  <2>7. P(j + 1)
    BY <2>1, <2>6
  <2> HIDE DEF P
  <2> QED BY <2>7
<1>8. 0..n \subseteq S
  <2> HIDE DEF S
  <2> QED BY <1>6, <1>7, NumbersUpTo
<1>9. n <= Size
  <2>1. pos[n + 1] \in Cell /\ pos[n + 1] >= n
    BY ChainOrder
  <2> QED BY <1>1, <2>1 DEF Cell
<1>10. f[Size][pos[1]] = Rest(n)
  <2>1. n \in S
    BY <1>8
  <2>2. Size \in n..Size /\ n + 1 - n = 1
    BY <1>1, <1>9
  <2> HIDE DEF Rest
  <2> QED BY <2>1, <2>2
<1>11. Rest(n) = [i \in 1..n |-> m[pos[i]].access]
  OBVIOUS
<1>12. pos[1] = 0
  BY DEF Chain
<1> QED BY <1>3, <1>10, <1>11, <1>12

-----------------------------------------------------------------------------
\* There is a list from the start of the block, and back is its last element, or
\* the start if it has none.
DequeInv ==
    /\ TypeOK
    /\ front = 0
    /\ \E n \in Nat : \E pos : Chain(memory, n, pos) /\ back = pos[IF n = 0 THEN 1 ELSE n]

\* The list with an element more.
Longer(n, pos, e) ==
  [i \in 1..n + 2 |-> IF i = n + 2 THEN pos[n + 1] + 1 + Width[e] ELSE pos[i]]

\* The list of one element.
Alone(e) == [i \in 1..2 |-> IF i = 1 THEN 0 ELSE 1 + Width[e]]

\* The memory after an element that fits behind the last one: the same list, and
\* the element at its end.
LEMMA Appends ==
  ASSUME DequeInv, NEW n \in Nat, NEW pos, Chain(memory, n, pos),
         back = pos[IF n = 0 THEN 1 ELSE n],
         NEW e \in Element, PushBack(e), pos[n + 1] + 2 + Width[e] <= Size
  PROVE  /\ memory' \in Memory
         /\ Chain(memory', n + 1, Longer(n, pos, e))
         /\ back' = pos[n + 1]
         /\ \A i \in 1..n : memory'[pos[i]].access = memory[pos[i]].access
         /\ memory'[pos[n + 1]].access = e
         /\ accepted'
<1> DEFINE p == pos[n + 1]
           q == p + 1 + Width[e]
<1>1. /\ Size \in Nat \ {0} /\ Width[e] \in Nat \ {0} /\ Nil \notin 0..Size /\ Nil \notin Element
      /\ Cell = 0..Size - 1 /\ Nil \notin Cell
  BY DequeAssumption DEF Cell
<1>2. /\ memory \in Memory /\ back \in Cell /\ front = 0
  BY DEF DequeInv, TypeOK, Memory
<1>3. /\ \A i \in 1..n + 1 : pos[i] \in Cell
      /\ \A i \in 1..n : pos[i] < p
  <2>1. n + 1 \in 1..n + 1 /\ n + 1 - 1 = n
    OBVIOUS
  <2>2. \A j \in 1..n + 1 : \A i \in 1..j - 1 : pos[i] < pos[j]
    BY ChainOrder
  <2> QED BY <2>1, <2>2 DEF Chain
<1>4. p \in Cell /\ q \in Cell /\ p < q
  BY <1>1, <1>3
<1>5. n = 0 => back = p /\ p = 0 /\ ~ NonEmpty(back)
  BY DEF Chain, NonEmpty
<1>6. n # 0 => back = pos[n] /\ back < p /\ memory[back].next = p /\ NonEmpty(back)
  <2> SUFFICES ASSUME n # 0 PROVE back = pos[n] /\ back < p /\ memory[back].next = p /\ NonEmpty(back)
    OBVIOUS
  <2>1. n \in 1..n /\ back = pos[n]
    OBVIOUS
  <2>2. memory[pos[n]].next = p
    BY <2>1 DEF Chain
  <2>3. p # Nil
    BY <1>1, <1>4
  <2> QED BY <1>3, <2>1, <2>2, <2>3 DEF NonEmpty
<1>7. BackPlace(e) = p /\ BackFits(e)
  <2>1. CASE n = 0
    BY <1>1, <1>5, <2>1 DEF BackPlace, BackFits
  <2>2. CASE n # 0
    <3>1. ~ (2 + Width[e] > Size - p)
      BY <1>1, <1>4
    <3>2. BackPlace(e) = p
      BY <1>6, <2>2, <3>1 DEF BackPlace
    <3> QED BY <1>1, <1>2, <1>4, <1>6, <2>2, <3>2 DEF BackFits
  <2> QED BY <2>1, <2>2
<1> DEFINE m == [Construct(memory, p, e) EXCEPT ![q] = End(p)]
<1>8. /\ memory' = IF p = back THEN m ELSE [m EXCEPT ![p].prev = back, ![back].next = p]
      /\ back' = p /\ accepted'
  BY <1>7 DEF PushBack, Return
<1>9. /\ m \in [Cell -> Header \cup {Body}]
      /\ m[p] = [access |-> e, next |-> q, prev |-> Nil]
      /\ m[q] = End(p)
      /\ \A c \in Cell : c < p => m[c] = memory[c]
  <2>1. [access |-> e, next |-> q, prev |-> Nil] \in Header
    BY <1>4 DEF Header, Pointer
  <2>2. End(p) \in Header
    BY <1>4 DEF Header, Pointer, End
  <2>3. Construct(memory, p, e) \in [Cell -> Header \cup {Body}]
    BY <1>2, <2>1 DEF Construct, Memory
  <2>4. Construct(memory, p, e)[p] = [access |-> e, next |-> q, prev |-> Nil]
    BY <1>4 DEF Construct
  <2>5. \A c \in Cell : c < p => Construct(memory, p, e)[c] = memory[c]
    BY <1>1, <1>4 DEF Construct
  <2> HIDE DEF p, q
  <2>6. m \in [Cell -> Header \cup {Body}] /\ m[q] = End(p)
        /\ \A c \in Cell : c # q => m[c] = Construct(memory, p, e)[c]
    BY <1>4, <2>2, <2>3
  <2>7. p # q /\ \A c \in Cell : c < p => c # q
    BY <1>1, <1>4
  <2> QED BY <1>4, <2>4, <2>5, <2>6, <2>7
<1> HIDE DEF m
<1>10. /\ memory' \in [Cell -> Header \cup {Body}]
       /\ memory'[p] \in Header /\ memory'[p].access = e /\ memory'[p].next = q
       /\ memory'[q] = End(p)
       /\ \A i \in 1..n : memory'[pos[i]] \in Header /\ memory'[pos[i]].access = memory[pos[i]].access
                         /\ memory'[pos[i]].next = memory[pos[i]].next
  <2> HIDE DEF p, q
  <2>0. m[p] \in Header
    BY <1>4, <1>9 DEF Header, Pointer
  <2>1. CASE n = 0
    BY <1>4, <1>5, <1>8, <1>9, <2>0, <2>1
  <2>2. CASE n # 0
    <3>1. back \in Cell /\ back < p /\ back # p /\ back # q /\ p # q
      BY <1>1, <1>2, <1>4, <1>6, <2>2
    <3>2. memory' = [m EXCEPT ![p].prev = back, ![back].next = p]
      BY <1>8, <3>1
    <3>3. /\ memory'[p] = [m[p] EXCEPT !.prev = back]
          /\ memory'[back] = [m[back] EXCEPT !.next = p]
          /\ \A c \in Cell : c # p /\ c # back => memory'[c] = m[c]
          /\ DOMAIN memory' = Cell
      BY <1>4, <1>9, <3>1, <3>2
    <3>4. m[back] = memory[back] /\ memory[back] \in Header /\ memory[back].next = p
      BY <1>6, <1>9, <2>2, <3>1 DEF Chain
    <3>5. memory'[back] = memory[back]
      BY <3>3, <3>4 DEF Header
    <3>6. memory'[p] \in Header /\ memory'[p].access = e /\ memory'[p].next = q
      BY <1>9, <2>0, <3>1, <3>3 DEF Header, Pointer
    <3>7. memory' \in [Cell -> Header \cup {Body}]
      <4>1. \A c \in Cell : memory'[c] \in Header \cup {Body}
        BY <1>9, <3>3, <3>4, <3>5, <3>6
      <4>2. memory' = [c \in Cell |-> memory'[c]]
        BY <1>9, <3>2
      <4> QED BY <4>1, <4>2
    <3>8. \A i \in 1..n : memory'[pos[i]] = memory[pos[i]] /\ memory[pos[i]] \in Header
      <4> SUFFICES ASSUME NEW i \in 1..n
                   PROVE memory'[pos[i]] = memory[pos[i]] /\ memory[pos[i]] \in Header
        OBVIOUS
      <4>1. pos[i] \in Cell /\ pos[i] < p /\ pos[i] # p
        BY <1>1, <1>3, <1>4 DEF p
      <4> QED BY <1>9, <3>3, <3>5, <4>1 DEF Chain
    <3> QED BY <1>4, <1>9, <3>1, <3>3, <3>6, <3>7, <3>8
  <2> QED BY <2>1, <2>2
<1> DEFINE new == Longer(n, pos, e)
<1>11. /\ new \in [1..n + 2 -> Cell]
       /\ \A i \in 1..n + 1 : new[i] = pos[i]
       /\ new[n + 2] = q
  BY <1>3, <1>4 DEF Longer
<1> HIDE DEF new, p, q
<1>12. pos[n + 1] = p /\ q = p + 1 + Width[e] /\ pos[1] = 0
  BY DEF p, q, Chain
<1>13. ASSUME NEW i \in 1..n + 1
       PROVE  /\ memory'[new[i]] \in Header
              /\ memory'[new[i]].access \in Element
              /\ memory'[new[i]].next = new[i + 1]
              /\ new[i + 1] = new[i] + 1 + Width[memory'[new[i]].access]
  <2>1. CASE i = n + 1
    BY <1>10, <1>11, <1>12, <2>1
  <2>2. CASE i # n + 1
    <3>1. i \in 1..n /\ i + 1 \in 1..n + 1 /\ new[i] = pos[i] /\ new[i + 1] = pos[i + 1]
      BY <1>11, <2>2
    <3> QED BY <1>10, <3>1 DEF Chain
  <2> QED BY <2>1, <2>2
<1>14. n + 1 \in Nat /\ n + 1 + 1 = n + 2 /\ 1 \in 1..n + 1
  OBVIOUS
<1>15. End(p) \in Header /\ End(p).access = Nil /\ End(p).next = Nil
  BY <1>4 DEF End, Header, Pointer
<1>16. Chain(memory', n + 1, new)
  BY <1>10, <1>11, <1>12, <1>13, <1>14, <1>15 DEF Chain
<1> QED BY <1>8, <1>10, <1>12, <1>16 DEF new, Memory

\* When an element of a cells does not fit behind the last one, of b cells, that one
\* begins behind what the element takes at the start of the block.
LEMMA LastIsFar ==
  ASSUME NEW a \in Nat, NEW b \in Nat, NEW last \in Nat, NEW size \in Nat,
         3 * (1 + a) < size, 3 * (1 + b) < size,
         ~ (last + 1 + b + 2 + a <= size)
  PROVE  last > 1 + a
OBVIOUS

\* The memory after an element that does not fit: the element is constructed over
\* the first one, out of the way of the last one, and is all that the list has.
LEMMA Wraps ==
  ASSUME DequeInv, NEW n \in Nat, NEW pos, Chain(memory, n, pos),
         back = pos[IF n = 0 THEN 1 ELSE n],
         NEW e \in Element, PushBack(e), ~ (pos[n + 1] + 2 + Width[e] <= Size)
  PROVE  /\ memory' \in Memory
         /\ Chain(memory', 1, Alone(e))
         /\ back' = 0
         /\ memory'[0].access = e
         /\ accepted'
<1> DEFINE q == 1 + Width[e]
           m == [Construct(memory, 0, e) EXCEPT ![q] = End(0)]
<1>1. /\ Size \in Nat \ {0} /\ Width[e] \in Nat \ {0} /\ Nil \notin 0..Size /\ Nil \notin Element
      /\ Cell = 0..Size - 1 /\ Nil \notin Cell /\ 3 * (1 + Width[e]) < Size
  BY DequeAssumption DEF Cell
<1>2. /\ memory \in [Cell -> Header \cup {Body}] /\ back \in Cell /\ front = 0
  BY DEF DequeInv, TypeOK
<1>3. n # 0
  BY <1>1 DEF Chain
<1>4. back = pos[n] /\ n \in 1..n
  BY <1>3
<1>5. /\ memory[back] \in Header /\ memory[back].access \in Element
      /\ memory[back].next = pos[n + 1] /\ pos[n + 1] = back + 1 + Width[memory[back].access]
  BY <1>4 DEF Chain
<1>6. 3 * (1 + Width[memory[back].access]) < Size /\ Width[memory[back].access] \in Nat
  BY <1>5, DequeAssumption
<1>7. q \in Cell /\ 0 \in Cell /\ back > q /\ q > 0
  <2>1. back \in Nat /\ ~ (back + 1 + Width[memory[back].access] + 2 + Width[e] <= Size)
    BY <1>1, <1>2, <1>5
  <2>2. back > 1 + Width[e]
    BY <1>1, <1>6, <2>1, LastIsFar
  <2> QED BY <1>1, <2>2
<1>8. pos[n + 1] \in Cell /\ pos[n + 1] > 0 /\ pos[n + 1] # Nil
  <2>1. pos[n + 1] \in Cell /\ pos[n + 1] >= n
    <3>1. n + 1 \in 1..n + 1 /\ n + 1 - 1 = n
      OBVIOUS
    <3>2. \A j \in 1..n + 1 : pos[j] \in Cell /\ pos[j] >= j - 1
      BY ChainOrder
    <3> QED BY <3>1, <3>2
  <2> QED BY <1>1, <1>3, <2>1
<1>9. BackPlace(e) = 0 /\ BackFits(e)
  <2>1. NonEmpty(back) /\ front < memory[back].next /\ 2 + Width[e] > Size - memory[back].next
    BY <1>1, <1>2, <1>5, <1>8 DEF NonEmpty
  <2>2. BackPlace(e) = 0
    BY <2>1 DEF BackPlace
  <2> QED BY <1>2, <2>1, <2>2 DEF BackFits
<1>10. /\ memory' = [m EXCEPT ![0].prev = back, ![back].next = 0]
       /\ back' = 0 /\ accepted'
  <2>1. 0 # back /\ 0 + 1 + Width[e] = q
    BY <1>1, <1>2, <1>7
  <2> QED BY <1>9, <2>1 DEF PushBack, Return
<1>11. /\ m \in [Cell -> Header \cup {Body}]
       /\ m[0] = [access |-> e, next |-> q, prev |-> Nil]
       /\ m[q] = End(0)
       /\ \A c \in Cell : c > q => m[c] = memory[c]
  <2>1. [access |-> e, next |-> q, prev |-> Nil] \in Header /\ End(0) \in Header
    BY <1>7 DEF Header, Pointer, End
  <2>2. /\ Construct(memory, 0, e) \in [Cell -> Header \cup {Body}]
        /\ Construct(memory, 0, e)[0] = [access |-> e, next |-> q, prev |-> Nil]
        /\ \A c \in Cell : c > q => Construct(memory, 0, e)[c] = memory[c]
    BY <1>1, <1>2, <1>7, <2>1 DEF Construct
  <2> HIDE DEF q
  <2>3. m \in [Cell -> Header \cup {Body}] /\ m[q] = End(0)
        /\ \A c \in Cell : c # q => m[c] = Construct(memory, 0, e)[c]
    BY <1>7, <2>1, <2>2
  <2>4. 0 # q /\ \A c \in Cell : c > q => c # q
    BY <1>1, <1>7
  <2> QED BY <1>7, <2>2, <2>3, <2>4
<1> HIDE DEF m, q
<1>12. /\ memory'[0] = [m[0] EXCEPT !.prev = back]
       /\ memory'[back] = [m[back] EXCEPT !.next = 0]
       /\ memory'[q] = End(0)
       /\ \A c \in Cell : c # 0 /\ c # back => memory'[c] = m[c]
       /\ memory' = [c \in Cell |-> memory'[c]]
  <2>1. 0 # back /\ q # 0 /\ q # back
    BY <1>1, <1>2, <1>7
  <2> QED BY <1>2, <1>7, <1>10, <1>11, <2>1
<1>13. memory'[0] \in Header /\ memory'[0].access = e /\ memory'[0].next = q
  BY <1>2, <1>7, <1>11, <1>12 DEF Header, Pointer
<1>14. memory'[back] \in Header
  <2>1. m[back] = memory[back]
    BY <1>2, <1>7, <1>11
  <2> QED BY <1>5, <1>7, <1>12, <2>1 DEF Header, Pointer
<1>15. memory' \in [Cell -> Header \cup {Body}]
  <2>1. \A c \in Cell : memory'[c] \in Header \cup {Body}
    BY <1>11, <1>12, <1>13, <1>14
  <2> QED BY <1>12, <2>1
<1>16. End(0) \in Header /\ End(0).access = Nil /\ End(0).next = Nil
  BY <1>7 DEF End, Header, Pointer
<1>17. Alone(e) \in [1..1 + 1 -> Cell] /\ Alone(e)[1] = 0 /\ Alone(e)[1 + 1] = q
       /\ q = 0 + 1 + Width[e]
  BY <1>1, <1>7 DEF Alone, q
<1>18. ASSUME NEW i \in 1..1
       PROVE  /\ memory'[Alone(e)[i]] \in Header
              /\ memory'[Alone(e)[i]].access \in Element
              /\ memory'[Alone(e)[i]].next = Alone(e)[i + 1]
              /\ Alone(e)[i + 1] = Alone(e)[i] + 1 + Width[memory'[Alone(e)[i]].access]
  <2>1. i = 1
    OBVIOUS
  <2> QED BY <1>13, <1>17, <2>1
<1>19. Chain(memory', 1, Alone(e))
  BY <1>12, <1>16, <1>17, <1>18 DEF Chain
<1> QED BY <1>10, <1>13, <1>15, <1>19 DEF Memory

\* Clear leaves an empty list.
LEMMA Clears ==
  ASSUME DequeInv, Clear
  PROVE  memory' \in Memory /\ back' = 0 /\ front' = 0 /\ Chain(memory', 0, [i \in 1..1 |-> 0])
<1>1. 0 \in Cell
  BY DequeAssumption DEF Cell
<1>2. memory \in [Cell -> Header \cup {Body}]
  BY DEF DequeInv, TypeOK
<1>3. memory' = [memory EXCEPT ![0] = End(Nil)] /\ back' = 0 /\ front' = 0
  BY DEF Clear
<1>4. End(Nil) \in Header /\ End(Nil).access = Nil /\ End(Nil).next = Nil
  BY DEF End, Header, Pointer
<1>5. memory' \in Memory /\ memory'[0] = End(Nil)
  BY <1>1, <1>2, <1>3, <1>4 DEF Memory
<1> DEFINE pos == [i \in 1..1 |-> 0]
<1>6. pos \in [1..0 + 1 -> Cell] /\ pos[1] = 0 /\ pos[0 + 1] = 0
  BY <1>1
<1> HIDE DEF pos
<1>7. Chain(memory', 0, pos)
  BY <1>4, <1>5, <1>6 DEF Chain
<1> QED BY <1>3, <1>5, <1>7 DEF pos

\* The invariant holds at the start, and every step keeps it.
LEMMA DequeInitInv == Init => DequeInv
<1> SUFFICES ASSUME Init PROVE DequeInv
  OBVIOUS
<1>1. 0 \in Cell
  BY DequeAssumption DEF Cell
<1>2. End(Nil) \in Header /\ End(Nil).access = Nil /\ End(Nil).next = Nil
  BY DEF End, Header, Pointer
<1>3. TypeOK
  BY <1>1, <1>2 DEF Init, TypeOK
<1>4. memory[0] = End(Nil) /\ back = 0 /\ front = 0
  BY <1>1 DEF Init
<1> DEFINE pos == [i \in 1..1 |-> 0]
<1>5. pos \in [1..0 + 1 -> Cell] /\ pos[1] = 0 /\ pos[0 + 1] = 0
  BY <1>1
<1> HIDE DEF pos
<1>6. Chain(memory, 0, pos)
  BY <1>2, <1>4, <1>5 DEF Chain
<1>7. 0 \in Nat /\ back = pos[IF 0 = 0 THEN 1 ELSE 0]
  BY <1>4, <1>5
<1> QED BY <1>3, <1>4, <1>6, <1>7 DEF DequeInv

\* A push leaves a chain, one longer or of one element, and clear () an empty one.
LEMMA DequeInvStep == DequeInv /\ [Next]_vars => DequeInv'
<1> SUFFICES ASSUME DequeInv, [Next]_vars PROVE DequeInv'
  OBVIOUS
<1>1. ASSUME NEW e \in Element, PushBack(e) PROVE DequeInv'
  <2>1. PICK n, pos : n \in Nat /\ Chain(memory, n, pos) /\ back = pos[IF n = 0 THEN 1 ELSE n]
    BY DEF DequeInv
  <2>2. front' = 0 /\ pushed' = e /\ accepted' \in BOOLEAN
    <3>1. BackFits(e) \in BOOLEAN
      <4>1. CASE NonEmpty(back)
        BY <4>1 DEF BackFits
      <4>2. CASE ~ NonEmpty(back)
        BY <4>2 DEF BackFits
      <4> QED BY <4>1, <4>2
    <3> QED BY <1>1, <3>1 DEF PushBack, Return, DequeInv
  <2>3. CASE pos[n + 1] + 2 + Width[e] <= Size
    <3>1. /\ memory' \in Memory /\ Chain(memory', n + 1, Longer(n, pos, e))
          /\ back' = pos[n + 1]
      BY <1>1, <2>1, <2>3, Appends
    <3>2. n + 1 \in Nat /\ n + 1 # 0 /\ Longer(n, pos, e)[n + 1] = pos[n + 1] /\ pos[n + 1] \in Cell
      BY <2>1 DEF Longer, Chain
    <3>3. TypeOK'
      BY <2>2, <3>1, <3>2, DequeAssumption DEF TypeOK, Memory, Cell
    <3> QED BY <2>2, <3>1, <3>2, <3>3 DEF DequeInv
  <2>4. CASE ~ (pos[n + 1] + 2 + Width[e] <= Size)
    <3>1. memory' \in Memory /\ Chain(memory', 1, Alone(e)) /\ back' = 0
      BY <1>1, <2>1, <2>4, Wraps
    <3>2. 1 \in Nat /\ 1 # 0 /\ Alone(e)[1] = 0
      BY DEF Alone
    <3>3. TypeOK'
      BY <2>2, <3>1, DequeAssumption DEF TypeOK, Memory, Cell
    <3> QED BY <2>2, <3>1, <3>2, <3>3 DEF DequeInv
  <2> QED BY <2>3, <2>4
<1>2. CASE Clear
  <2> DEFINE pos == [i \in 1..1 |-> 0]
  <2>1. memory' \in Memory /\ back' = 0 /\ front' = 0 /\ Chain(memory', 0, pos)
    BY <1>2, Clears
  <2>2. pushed' = Nil /\ accepted' = TRUE
    BY <1>2 DEF Clear, Return
  <2>3. TypeOK'
    BY <2>1, <2>2, DequeAssumption DEF TypeOK, Memory, Cell
  <2>4. 0 \in Nat /\ pos[1] = 0
    OBVIOUS
  <2> HIDE DEF pos
  <2> QED BY <2>1, <2>3, <2>4 DEF DequeInv
<1>3. CASE UNCHANGED vars
  BY <1>3 DEF vars, DequeInv, TypeOK
<1> QED BY <1>1, <1>2, <1>3 DEF Next

-----------------------------------------------------------------------------
TakenPath(d, f) ==
  f = [i \in 0..Len(d) |-> IF i = 0 THEN 0 ELSE f[i - 1] + 1 + Width[d[i]]]

\* The cells of a list, and those of one whose elements have one width: whichever
\* function f adds them up, Taken gives its last value.
LEMMA TakenIs ==
  ASSUME NEW d \in Seq(Element), NEW f, TakenPath(d, f)
  PROVE  Taken(d) = f[Len(d)]
<1> DEFINE g == CHOOSE cells : TakenPath(d, cells)
           S == {i \in 0..Len(d) : g[i] = f[i]}
<1>0. Len(d) \in Nat
  OBVIOUS
<1>1. TakenPath(d, g)
  OBVIOUS
<1>2. Taken(d) = g[Len(d)]
  BY DEF Taken, TakenPath
<1> HIDE DEF g
<1>3. /\ f[0] = 0 /\ g[0] = 0
      /\ \A i \in 0..Len(d) - 1 : /\ f[i + 1] = f[i] + 1 + Width[d[i + 1]]
                                  /\ g[i + 1] = g[i] + 1 + Width[d[i + 1]]
  BY <1>0, <1>1 DEF TakenPath
<1>4. 0 \in S
  BY <1>0, <1>3
<1>5. ASSUME NEW i \in 0..Len(d) - 1, i \in S PROVE i + 1 \in S
  BY <1>0, <1>3, <1>5
<1> HIDE DEF S
<1>6. 0..Len(d) \subseteq S
  BY <1>0, <1>4, <1>5, NumbersUpTo
<1> QED BY <1>0, <1>2, <1>6 DEF S

\* What the deque contains is the list in its memory, which ends where its elements
\* end.
LEMMA ContentIs ==
  ASSUME NEW m \in Memory, NEW n \in Nat, NEW pos, Chain(m, n, pos)
  PROVE  /\ Walk(m, 0) \in Seq(Element)
         /\ Len(Walk(m, 0)) = n
         /\ \A i \in 1..n : Walk(m, 0)[i] = m[pos[i]].access
         /\ Taken(Walk(m, 0)) = pos[n + 1]
<1> DEFINE d == Walk(m, 0)
           f == [i \in 0..n |-> pos[i + 1]]
<1>1. d = [i \in 1..n |-> m[pos[i]].access]
  BY WalkIs
<1>2. \A i \in 1..n : m[pos[i]].access \in Element
  BY DEF Chain
<1> HIDE DEF d
<1>3. d \in Seq(Element) /\ Len(d) = n /\ \A i \in 1..n : d[i] = m[pos[i]].access
  BY <1>1, <1>2
<1>4. ASSUME NEW i \in 0..n
      PROVE  f[i] = IF i = 0 THEN 0 ELSE f[i - 1] + 1 + Width[d[i]]
  <2>1. CASE i = 0
    BY <2>1 DEF Chain
  <2>2. CASE i # 0
    <3>1. i \in 1..n /\ f[i] = pos[i + 1] /\ f[i - 1] = pos[i]
      BY <2>2
    <3> HIDE DEF f
    <3> QED BY <1>3, <2>2, <3>1 DEF Chain
  <2> QED BY <2>1, <2>2
<1>5. f = [i \in 0..n |-> f[i]] /\ f[n] = pos[n + 1]
  OBVIOUS
<1> HIDE DEF f
<1>6. TakenPath(d, f)
  BY <1>3, <1>4, <1>5 DEF TakenPath
<1>7. Taken(d) = pos[n + 1]
  BY <1>3, <1>5, <1>6, TakenIs
<1> QED BY <1>3, <1>7 DEF d

\* Elements of one width take so many times its cells.
LEMMA TakenSameWidth ==
  ASSUME NEW d \in Seq(Element), NEW e \in Element, SameWidth(d, e)
  PROVE  Taken(d) = Len(d) * (1 + Width[e])
<1> DEFINE w == Width[e]
           f == [i \in 0..Len(d) |-> i * (1 + w)]
<1>1. w \in Nat /\ Len(d) \in Nat /\ \A i \in 1..Len(d) : Width[d[i]] = w
  BY DequeAssumption DEF SameWidth
<1> HIDE DEF w
<1>2. ASSUME NEW i \in 0..Len(d)
      PROVE  f[i] = IF i = 0 THEN 0 ELSE f[i - 1] + 1 + Width[d[i]]
  <2>1. CASE i = 0
    BY <1>1, <2>1
  <2>2. CASE i # 0
    <3>1. i \in 1..Len(d) /\ i - 1 \in 0..Len(d)
      BY <1>1, <2>2
    <3>2. i * (1 + w) = (i - 1) * (1 + w) + 1 + w
      BY <1>1
    <3> QED BY <1>1, <2>2, <3>1, <3>2
  <2> QED BY <2>1, <2>2
<1>3. f = [i \in 0..Len(d) |-> f[i]] /\ f[Len(d)] = Len(d) * (1 + w)
  BY <1>1
<1> HIDE DEF f
<1>4. TakenPath(d, f)
  BY <1>2, <1>3 DEF TakenPath
<1> QED BY <1>3, <1>4, TakenIs DEF w

\* A push, seen from outside.
Added(e) ==
  /\ accepted'
  /\ Content' = IF Taken(Content) + 2 + Width[e] <= Size THEN Append(Content, e) ELSE <<e>>

\* push_back is what it seems.
LEMMA PushAdds ==
  ASSUME DequeInv, NEW e \in Element, PushBack(e)
  PROVE  Content \in Seq(Element) /\ Added(e)
<1>1. PICK n, pos : n \in Nat /\ Chain(memory, n, pos) /\ back = pos[IF n = 0 THEN 1 ELSE n]
  BY DEF DequeInv
<1>2. memory \in Memory /\ front = 0 /\ front' = 0
  BY DEF DequeInv, TypeOK, Memory, PushBack
<1>3. /\ Content \in Seq(Element) /\ Len(Content) = n
      /\ \A i \in 1..n : Content[i] = memory[pos[i]].access
      /\ Taken(Content) = pos[n + 1]
  BY <1>1, <1>2, ContentIs DEF Content
<1>4. Content' = Walk(memory', 0)
  BY <1>2 DEF Content
<1>5. CASE pos[n + 1] + 2 + Width[e] <= Size
  <2> DEFINE new == Longer(n, pos, e)
  <2>1. /\ memory' \in Memory /\ Chain(memory', n + 1, new) /\ accepted'
        /\ \A i \in 1..n : memory'[pos[i]].access = memory[pos[i]].access
        /\ memory'[pos[n + 1]].access = e
    BY <1>1, <1>5, Appends
  <2>2. \A i \in 1..n + 1 : new[i] = pos[i]
    BY <1>1 DEF Longer
  <2>3. n + 1 \in Nat
    BY <1>1
  <2> HIDE DEF new
  <2>4. /\ Content' \in Seq(Element) /\ Len(Content') = n + 1
        /\ \A i \in 1..n + 1 : Content'[i] = memory'[new[i]].access
    BY <1>4, <2>1, <2>3, ContentIs
  <2>5. Append(Content, e) \in Seq(Element) /\ Len(Append(Content, e)) = n + 1
        /\ \A i \in 1..n + 1 : Append(Content, e)[i] = IF i = n + 1 THEN e ELSE Content[i]
    BY <1>3
  <2>6. ASSUME NEW i \in 1..n + 1 PROVE Content'[i] = Append(Content, e)[i]
    BY <1>3, <2>1, <2>2, <2>4, <2>5
  <2>7. Content' = Append(Content, e)
    BY <2>4, <2>5, <2>6, SeqEqual
  <2> QED BY <1>3, <1>5, <2>1, <2>7 DEF Added
<1>6. CASE ~ (pos[n + 1] + 2 + Width[e] <= Size)
  <2>1. memory' \in Memory /\ Chain(memory', 1, Alone(e)) /\ memory'[0].access = e /\ accepted'
    BY <1>1, <1>6, Wraps
  <2>2. Chain(memory', 1, Alone(e)) /\ Alone(e)[1] = 0 /\ 1 \in Nat
    BY <2>1 DEF Alone
  <2>3. ASSUME NEW k \in Nat, NEW new, Chain(memory', k, new)
        PROVE  /\ Content' \in Seq(Element) /\ Len(Content') = k
               /\ \A i \in 1..k : Content'[i] = memory'[new[i]].access
    BY <1>4, <2>1, <2>3, ContentIs
  <2>4. /\ Content' \in Seq(Element) /\ Len(Content') = 1
        /\ \A i \in 1..1 : Content'[i] = memory'[Alone(e)[i]].access
    BY <2>2, <2>3
  <2>5. Len(Content') = 1 /\ Content'[1] = e
    BY <2>1, <2>2, <2>4
  <2>6. Content' = <<e>>
    BY <2>4, <2>5
  <2> QED BY <1>3, <1>6, <2>1, <2>6 DEF Added
<1> QED BY <1>3, <1>5, <1>6

\* An event deque takes an event more as long as it has fewer than its capacity.
LEMMA CapacityIs ==
  ASSUME NEW n \in Nat, NEW w \in Nat
  PROVE  n < Capacity(w) <=> n * (1 + w) + 2 + w <= Size
<1>1. Size - 1 \in Nat /\ 1 + w \in Nat /\ 1 + w > 0
  BY DequeAssumption
<1>2. \A a, b \in Nat : b > 0 => (n < a \div b <=> (n + 1) * b <= a)
  OBVIOUS
<1>3. n < (Size - 1) \div (1 + w) <=> (n + 1) * (1 + w) <= Size - 1
  BY <1>1, <1>2
<1>4. (n + 1) * (1 + w) = n * (1 + w) + 1 + w
  OBVIOUS
<1>5. n * (1 + w) \in Nat /\ Size \in Nat
  BY DequeAssumption
<1> QED BY <1>3, <1>4, <1>5 DEF Capacity

\* The push of module TripleBuffer, for events of width w.
LEMMA DequePushIs ==
  ASSUME NEW w, NEW d, NEW e
  PROVE  EventDeque(w)!DequePush(d, e) = IF Len(d) < Capacity(w) THEN Append(d, e) ELSE <<e>>
BY DEF EventDeque!DequePush, EventDeque!HasRoom

-----------------------------------------------------------------------------
\* The memory block has headers and objects only, and the two pointers stay in it.
THEOREM DequeTypes == Spec => []TypeOK
<1>1. DequeInv => TypeOK
  BY DEF DequeInv
<1> QED BY <1>1, DequeInitInv, DequeInvStep, PTL DEF Spec

\* _back is the last element that an iteration from _front finds, also after the
\* list has wrapped around.
THEOREM LinksAlwaysSound == Spec => []LinksAreSound
<1>1. DequeInv => LinksAreSound
  <2> SUFFICES ASSUME DequeInv PROVE LinksAreSound
    OBVIOUS
  <2>1. PICK n, pos : n \in Nat /\ Chain(memory, n, pos) /\ back = pos[IF n = 0 THEN 1 ELSE n]
    BY DEF DequeInv
  <2>2. memory \in Memory /\ front = 0
    BY DEF DequeInv, TypeOK, Memory
  <2>3. /\ Content \in Seq(Element) /\ Len(Content) = n
        /\ \A i \in 1..n : Content[i] = memory[pos[i]].access
    BY <2>1, <2>2, ContentIs DEF Content
  <2>4. CASE n = 0
    <3>1. back = 0 /\ ~ NonEmpty(0)
      BY <2>1, <2>4 DEF Chain, NonEmpty
    <3> QED BY <2>2, <3>1 DEF LinksAreSound
  <2>5. CASE n # 0
    <3>1. n \in 1..n /\ 1 \in 1..n /\ back = pos[n] /\ pos[1] = 0
      BY <2>1, <2>5 DEF Chain
    <3>2. \A i \in 1..n : memory[pos[i]].next = pos[i + 1] /\ pos[i + 1] \in Cell
      BY <2>1 DEF Chain
    <3>3. NonEmpty(back) /\ NonEmpty(0)
      BY <3>1, <3>2, DequeAssumption DEF NonEmpty, Cell
    <3>4. Content # <<>> /\ memory[back].access = Content[Len(Content)]
      BY <2>3, <2>5, <3>1
    <3> QED BY <2>2, <3>3, <3>4 DEF LinksAreSound
  <2> QED BY <2>4, <2>5
<1> QED BY <1>1, DequeInitInv, DequeInvStep, PTL DEF Spec

\* A push adds the event at the end of the list if there is space behind it, and
\* else the event is all that is left, whatever was pushed before.
THEOREM PushesAlwaysBySpace == Spec => PushesBySpace
<1> DEFINE A == pushed' # Nil => Added(pushed')
<1>1. DequeInv /\ [Next]_vars => [A]_vars
  <2> SUFFICES ASSUME DequeInv, Next, pushed' # Nil PROVE Added(pushed')
    OBVIOUS
  <2>1. ~ Clear
    BY DEF Clear, Return
  <2>2. PICK e \in Element : PushBack(e)
    BY <2>1 DEF Next
  <2>3. pushed' = e
    BY <2>2 DEF PushBack, Return
  <2> QED BY <2>2, <2>3, PushAdds
<1>2. Spec => [][A]_vars
  BY <1>1, DequeInitInv, DequeInvStep, PTL DEF Spec
<1> QED BY <1>2 DEF PushesBySpace, Added

\* Events of one size are pushed the way module TripleBuffer says, with the capacity
\* that the size of the block gives.
THEOREM PushesAreDequePush == Spec => PushesLikeDequePush
<1> DEFINE A == pushed' # Nil /\ accepted' /\ SameWidth(Content, pushed') =>
                  Content' = EventDeque(Width[pushed'])!DequePush(Content, pushed')
<1>1. DequeInv /\ [Next]_vars => [A]_vars
  <2> SUFFICES ASSUME DequeInv, Next, pushed' # Nil, SameWidth(Content, pushed')
               PROVE  Content' = EventDeque(Width[pushed'])!DequePush(Content, pushed')
    OBVIOUS
  <2>1. ~ Clear
    BY DEF Clear, Return
  <2>2. PICK e \in Element : PushBack(e)
    BY <2>1 DEF Next
  <2>3. pushed' = e
    BY <2>2 DEF PushBack, Return
  <2>4. Content \in Seq(Element) /\ Added(e)
    BY <2>2, PushAdds
  <2>5. Taken(Content) = Len(Content) * (1 + Width[e])
    BY <2>3, <2>4, TakenSameWidth
  <2>6. Len(Content) \in Nat /\ Width[e] \in Nat
    BY <2>4, DequeAssumption
  <2>7. Len(Content) < Capacity(Width[e]) <=> Taken(Content) + 2 + Width[e] <= Size
    BY <2>5, <2>6, CapacityIs
  <2> QED BY <2>3, <2>4, <2>7, DequePushIs DEF Added
<1>2. Spec => [][A]_vars
  BY <1>1, DequeInitInv, DequeInvStep, PTL DEF Spec
<1> QED BY <1>2 DEF PushesLikeDequePush
=============================================================================
