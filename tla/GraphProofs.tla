---------------------------- MODULE GraphProofs ----------------------------
(***************************************************************************)
(* Proofs about GraphSync, for any graph: that the RT side catches up with *)
(* the user's, and that it is a sound graph at every event on the way.     *)
(***************************************************************************)
EXTENDS GraphSync, FunctionTheorems, FiniteSetTheorems, Induction

-----------------------------------------------------------------------------
(***************************************************************************)
(* Lists of changes.                                                       *)
(***************************************************************************)
Path(s, c, f) ==
  f = [k \in 0..Len(c) |-> IF k = 0 THEN s ELSE Apply(f[k - 1], c[k])]

\* The sides on a path.
LEMMA PathSteps ==
  ASSUME NEW s, NEW c, Len(c) \in Nat, NEW f, Path(s, c, f)
  PROVE  f[0] = s /\ \A k \in 1..Len(c) : f[k] = Apply(f[k - 1], c[k])
BY DEF Path

\* There is one path at most.
LEMMA PathUnique ==
  ASSUME NEW s, NEW c, Len(c) \in Nat, NEW f, NEW g, Path(s, c, f), Path(s, c, g)
  PROVE  f = g
<1> DEFINE n == Len(c)
           S == {k \in 0..n : f[k] = g[k]}
<1>1. 0 \in S
  BY DEF Path
<1>2. ASSUME NEW k \in 0..n - 1, k \in S PROVE k + 1 \in S
  BY <1>2 DEF Path
<1> HIDE DEF S
<1>3. 0..n \subseteq S
  BY <1>1, <1>2, NumbersUpTo
<1>4. \A k \in 0..n : f[k] = g[k]
  BY <1>3 DEF S
<1> QED BY <1>4 DEF Path

\* A change of a side is a side.
LEMMA ApplyType ==
  ASSUME NEW s \in Side, NEW c \in Change
  PROVE  Apply(s, c) \in Side
<1> USE GraphAssumption DEF Side
<1>1. CASE c.do = "set"
  <2> c.node \in Control /\ c.to \in Value
    BY <1>1 DEF Change
  <2> QED BY <1>1 DEF Apply
<1>2. CASE c.do = "source"
  <2> c.node \in Node /\ c.to \in Node \cup {None}
    BY <1>2 DEF Change
  <2> QED BY <1>2 DEF Apply
<1>3. CASE c.do \in {"addRef", "delRef"}
  <2> c.node \in Node /\ c.to \in Node
    BY <1>3 DEF Change
  <2>1. s.refs[c.node] \cup {c.to} \in SUBSET Node
        /\ s.refs[c.node] \ {c.to} \in SUBSET Node
    OBVIOUS
  <2> QED BY <1>3, <2>1 DEF Apply
<1>4. CASE c.do \in {"addChild", "delChild"}
  <2> c.node \in Node
    BY <1>4 DEF Change
  <2>1. s.childs \cup {c.node} \in SUBSET Node /\ s.childs \ {c.node} \in SUBSET Node
    OBVIOUS
  <2> QED BY <1>4, <2>1 DEF Apply
<1>5. CASE c.do \in {"addSink", "delSink"}
  <2> c.node \in Sink
    BY <1>5 DEF Change
  <2>1. s.sinks \cup {c.node} \in SUBSET Sink /\ s.sinks \ {c.node} \in SUBSET Sink
    OBVIOUS
  <2> QED BY <1>5, <2>1 DEF Apply
<1>6. c.do \in {"set", "source", "addRef", "delRef", "addChild", "delChild",
                "addSink", "delSink"}
  BY DEF Change
<1> QED BY <1>1, <1>2, <1>3, <1>4, <1>5, <1>6

\* The recursive function of Sides exists, and it has sides for values.
LEMMA SidesDef ==
  ASSUME NEW s \in Side, NEW c \in Seq(Change)
  PROVE  /\ Path(s, c, Sides(s, c))
         /\ Sides(s, c) \in [0..Len(c) -> Side]
<1> DEFINE n == Len(c)
           g == [k \in 1..n |-> [d \in Side |-> Apply(d, c[k])]]
<1>1. n \in Nat
  OBVIOUS
<1>2. g \in [1..n -> [Side -> Side]]
  <2>1. ASSUME NEW k \in 1..n, NEW d \in Side PROVE Apply(d, c[k]) \in Side
    BY ApplyType
  <2> QED BY <2>1
<1>3. \A k \in 1..n, d \in Side : g[k][d] = Apply(d, c[k])
  OBVIOUS
<1> HIDE DEF g, n
<1>4. PICK f : Recursion(Side, s, n, g, f)
  BY <1>1, <1>2, RecursionExists
<1>5. ASSUME NEW k \in 0..n
      PROVE  f[k] = IF k = 0 THEN s ELSE Apply(f[k - 1], c[k])
  BY <1>1, <1>3, <1>4, <1>5 DEF Recursion
<1>6. Path(s, c, f)
  BY <1>4, <1>5 DEF Path, n, Recursion
<1>7. Sides(s, c) = CHOOSE side : Path(s, c, side)
  BY DEF Sides, Path
<1>8. Path(s, c, Sides(s, c))
  BY <1>6, <1>7
<1>9. Sides(s, c) = f
  BY <1>1, <1>6, <1>8, PathUnique DEF n
<1> QED BY <1>4, <1>8, <1>9 DEF n, Recursion

\* No change, and one.
LEMMA AppliedFew ==
  ASSUME NEW s \in Side
  PROVE  /\ Sides(s, << >>)[0] = s
         /\ ApplyAll(s, << >>) = s
         /\ \A e \in Change : /\ Sides(s, <<e>>)[0] = s
                              /\ Sides(s, <<e>>)[1] = Apply(s, e)
                              /\ ApplyAll(s, <<e>>) = Apply(s, e)
<1>1. Sides(s, << >>)[0] = s
  <2>1. << >> \in Seq(Change) /\ Len(<< >>) = 0
    OBVIOUS
  <2>2. Path(s, << >>, Sides(s, << >>))
    BY <2>1, SidesDef
  <2> QED BY <2>1, <2>2, PathSteps
<1>2. ASSUME NEW e \in Change
      PROVE  Sides(s, <<e>>)[0] = s /\ Sides(s, <<e>>)[1] = Apply(s, e)
  <2>1. <<e>> \in Seq(Change) /\ Len(<<e>>) = 1 /\ <<e>>[1] = e
    OBVIOUS
  <2>2. Path(s, <<e>>, Sides(s, <<e>>))
    BY <2>1, SidesDef
  <2>3. /\ Sides(s, <<e>>)[0] = s
        /\ \A k \in 1..1 : Sides(s, <<e>>)[k] = Apply(Sides(s, <<e>>)[k - 1], <<e>>[k])
    BY <2>1, <2>2, PathSteps
  <2>4. 1 \in 1..1 /\ 1 - 1 = 0
    OBVIOUS
  <2> QED BY <2>1, <2>3, <2>4
<1> QED BY <1>1, <1>2 DEF ApplyAll

\* Every change of a list: a side.
LEMMA AppliedType ==
  ASSUME NEW s \in Side, NEW c \in Seq(Change)
  PROVE  ApplyAll(s, c) \in Side
BY SidesDef, LenProperties DEF ApplyAll

\* The sides along a list and then another one.
LEMMA SidesConcat ==
  ASSUME NEW s \in Side, NEW c \in Seq(Change), NEW d \in Seq(Change)
  PROVE  \A k \in 0..Len(c) + Len(d) :
           Sides(s, c \o d)[k] =
             IF k <= Len(c) THEN Sides(s, c)[k]
                            ELSE Sides(ApplyAll(s, c), d)[k - Len(c)]
<1> DEFINE t == ApplyAll(s, c)
           h == [k \in 0..Len(c) + Len(d) |->
                   IF k <= Len(c) THEN Sides(s, c)[k] ELSE Sides(t, d)[k - Len(c)]]
<1>1. Len(c) \in Nat /\ Len(d) \in Nat /\ c \o d \in Seq(Change)
      /\ Len(c \o d) = Len(c) + Len(d)
      /\ \A i \in 1..Len(c) + Len(d) :
            (c \o d)[i] = IF i <= Len(c) THEN c[i] ELSE d[i - Len(c)]
  BY ConcatProperties, LenProperties
<1>2. t \in Side /\ t = Sides(s, c)[Len(c)]
  BY AppliedType DEF ApplyAll
<1>3. Path(s, c, Sides(s, c)) /\ Path(t, d, Sides(t, d)) /\ Path(s, c \o d, Sides(s, c \o d))
  BY <1>1, <1>2, SidesDef
<1> HIDE DEF t
<1>4. ASSUME NEW k \in 0..Len(c) + Len(d)
      PROVE  h[k] = IF k = 0 THEN s ELSE Apply(h[k - 1], (c \o d)[k])
  <2>1. CASE k = 0
    <3>1. h[k] = Sides(s, c)[0]
      BY <1>1, <2>1
    <3> QED BY <1>1, <1>3, <2>1, <3>1, PathSteps
  <2>2. CASE k \in 1..Len(c)
    <3>1. h[k] = Sides(s, c)[k] /\ h[k - 1] = Sides(s, c)[k - 1]
      BY <1>1, <2>2
    <3>2. Sides(s, c)[k] = Apply(Sides(s, c)[k - 1], c[k])
      BY <1>1, <1>3, <2>2, PathSteps
    <3> QED BY <1>1, <2>2, <3>1, <3>2
  <2>3. CASE k = Len(c) + 1
    <3>1. h[k] = Sides(t, d)[1] /\ h[k - 1] = t
      BY <1>1, <1>2, <2>3
    <3>2. Sides(t, d)[0] = t /\ Sides(t, d)[1] = Apply(Sides(t, d)[0], d[1])
      BY <1>1, <1>3, <2>3, PathSteps
    <3> QED BY <1>1, <2>3, <3>1, <3>2
  <2>4. CASE k > Len(c) + 1
    <3> DEFINE j == k - Len(c)
    <3>1. h[k] = Sides(t, d)[j] /\ h[k - 1] = Sides(t, d)[j - 1]
      BY <1>1, <2>4
    <3>2. j \in 1..Len(d) /\ Sides(t, d)[j] = Apply(Sides(t, d)[j - 1], d[j])
      BY <1>1, <1>3, <2>4, PathSteps
    <3> QED BY <1>1, <2>4, <3>1, <3>2
  <2> QED BY <1>1, <2>1, <2>2, <2>3, <2>4
<1>5. h = [k \in 0..Len(c \o d) |-> h[k]]
  BY <1>1
<1> HIDE DEF h
<1>6. \A k \in 0..Len(c \o d) : h[k] = IF k = 0 THEN s ELSE Apply(h[k - 1], (c \o d)[k])
  BY <1>1, <1>4
<1>7. Path(s, c \o d, h)
  BY <1>5, <1>6 DEF Path
<1>8. h = Sides(s, c \o d)
  BY <1>1, <1>3, <1>7, PathUnique
<1> QED BY <1>8 DEF h, t

\* A list of changes and then another one are applied in this order.
LEMMA AppliedConcat ==
  ASSUME NEW s \in Side, NEW c \in Seq(Change), NEW d \in Seq(Change)
  PROVE  ApplyAll(s, c \o d) = ApplyAll(ApplyAll(s, c), d)
<1>1. Len(c) \in Nat /\ Len(d) \in Nat /\ Len(c \o d) = Len(c) + Len(d)
  BY ConcatProperties, LenProperties
<1>2. ApplyAll(s, c \o d) = IF Len(d) = 0 THEN Sides(s, c)[Len(c)]
                            ELSE Sides(ApplyAll(s, c), d)[Len(d)]
  <2>1. ApplyAll(s, c \o d) = Sides(s, c \o d)[Len(c) + Len(d)]
    BY <1>1 DEF ApplyAll
  <2>2. Len(c) + Len(d) \in 0..Len(c) + Len(d)
        /\ Len(c) + Len(d) - Len(c) = Len(d)
        /\ (Len(c) + Len(d) <= Len(c) <=> Len(d) = 0)
    BY <1>1
  <2>3. Sides(s, c \o d)[Len(c) + Len(d)] =
          IF Len(c) + Len(d) <= Len(c) THEN Sides(s, c)[Len(c) + Len(d)]
          ELSE Sides(ApplyAll(s, c), d)[Len(c) + Len(d) - Len(c)]
    BY <2>2, SidesConcat
  <2>4. CASE Len(d) = 0
    <3>1. Len(c) + Len(d) = Len(c)
      BY <1>1, <2>4
    <3> QED BY <2>1, <2>2, <2>3, <2>4, <3>1
  <2>5. CASE Len(d) # 0
    BY <2>1, <2>2, <2>3, <2>5
  <2> QED BY <2>4, <2>5
<1>3. Len(d) = 0 => ApplyAll(ApplyAll(s, c), d) = ApplyAll(s, c)
  BY AppliedType, AppliedFew, EmptySeq
<1> QED BY <1>2, <1>3 DEF ApplyAll

\* The first change, and then the others.
LEMMA AppliedHead ==
  ASSUME NEW s \in Side, NEW c \in Seq(Change), c # << >>
  PROVE  ApplyAll(s, c) = ApplyAll(Apply(s, Head(c)), Tail(c))
<1>1. Head(c) \in Change /\ <<Head(c)>> \in Seq(Change) /\ Tail(c) \in Seq(Change)
      /\ c = <<Head(c)>> \o Tail(c)
  OBVIOUS
<1>2. ApplyAll(s, <<Head(c)>> \o Tail(c)) = ApplyAll(ApplyAll(s, <<Head(c)>>), Tail(c))
  BY <1>1, AppliedConcat
<1> QED BY <1>1, <1>2, AppliedFew

-----------------------------------------------------------------------------
(***************************************************************************)
(* What a list of changes goes through.                                    *)
(***************************************************************************)
\* An output port refers to the input ports that it is the source of.
Wired(s) == \A m, n \in Node : n \in s.refs[m] <=> s.source[n] = m

\* A side between two operations of the user.
Tidy(s) ==
    /\ Wired(s)
    /\ s.sinks = s.childs \cap Sink
    /\ \A n \in s.childs : s.source[n] \in s.childs \cup {None}
    /\ \A n \in Node \ s.childs : s.source[n] = None

\* What is pulled from is a child.
Sound(s) == \A n \in s.childs \cup s.sinks : s.source[n] \in s.childs \cup {None}

\* The hook that c links is in no list.
Linkable(s, c) ==
    /\ c.do = "addRef" => \A m \in Node : c.to \notin s.refs[m]
    /\ c.do = "addChild" => c.node \notin s.childs

\* Wherever a flip cuts the list c, the side is sound, and no change of it
\* links a hook twice.
Safe(s, c) ==
    /\ \A k \in 0..Len(c) : Sound(Sides(s, c)[k])
    /\ \A k \in 1..Len(c) : Linkable(Sides(s, c)[k - 1], c[k])

\* Safe lists of no change, and of one.
LEMMA SafeFew ==
  ASSUME NEW s \in Side, Sound(s)
  PROVE  /\ Safe(s, << >>)
         /\ \A e \in Change :
              Linkable(s, e) /\ Sound(Apply(s, e)) => Safe(s, <<e>>)
<1>1. Safe(s, << >>)
  <2>1. Len(<< >>) = 0 /\ Sides(s, << >>)[0] = s
    BY AppliedFew
  <2> QED BY <2>1 DEF Safe
<1>2. ASSUME NEW e \in Change, Linkable(s, e), Sound(Apply(s, e))
      PROVE  Safe(s, <<e>>)
  <2>1. Len(<<e>>) = 1 /\ <<e>>[1] = e
    OBVIOUS
  <2>2. Sides(s, <<e>>)[0] = s /\ Sides(s, <<e>>)[1] = Apply(s, e)
    BY AppliedFew
  <2>3. ASSUME NEW k \in 0..1 PROVE Sound(Sides(s, <<e>>)[k])
    <3>1. k = 0 \/ k = 1
      OBVIOUS
    <3> QED BY <1>2, <2>2, <3>1
  <2>4. ASSUME NEW k \in 1..1 PROVE Linkable(Sides(s, <<e>>)[k - 1], <<e>>[k])
    <3>1. k = 1 /\ k - 1 = 0
      OBVIOUS
    <3> QED BY <1>2, <2>1, <2>2, <3>1
  <2> QED BY <2>1, <2>3, <2>4 DEF Safe
<1> QED BY <1>1, <1>2

\* Two safe lists make one.
LEMMA SafeConcat ==
  ASSUME NEW s \in Side, NEW c \in Seq(Change), NEW d \in Seq(Change),
         Safe(s, c), Safe(ApplyAll(s, c), d)
  PROVE  Safe(s, c \o d)
<1> DEFINE t == ApplyAll(s, c)
<1>1. Len(c) \in Nat /\ Len(d) \in Nat /\ Len(c \o d) = Len(c) + Len(d)
      /\ \A i \in 1..Len(c) + Len(d) :
            (c \o d)[i] = IF i <= Len(c) THEN c[i] ELSE d[i - Len(c)]
  BY ConcatProperties, LenProperties
<1>2. t \in Side /\ Sides(t, d)[0] = t /\ Sides(s, c)[Len(c)] = t
  <2>1. t \in Side
    BY AppliedType
  <2>2. Path(t, d, Sides(t, d))
    BY <2>1, SidesDef
  <2> QED BY <1>1, <2>1, <2>2, PathSteps DEF ApplyAll
<1>3. \A k \in 0..Len(c) + Len(d) :
         Sides(s, c \o d)[k] =
           IF k <= Len(c) THEN Sides(s, c)[k] ELSE Sides(t, d)[k - Len(c)]
  BY SidesConcat
<1>4. ASSUME NEW k \in 0..Len(c) + Len(d) PROVE Sound(Sides(s, c \o d)[k])
  <2>1. CASE k <= Len(c)
    <3>1. k \in 0..Len(c)
      BY <1>1, <2>1
    <3> QED BY <1>3, <2>1, <3>1 DEF Safe
  <2>2. CASE ~ (k <= Len(c))
    <3>1. k - Len(c) \in 0..Len(d)
      BY <1>1, <2>2
    <3> QED BY <1>3, <2>2, <3>1 DEF Safe
  <2> QED BY <2>1, <2>2
<1>5. ASSUME NEW k \in 1..Len(c) + Len(d)
      PROVE  Linkable(Sides(s, c \o d)[k - 1], (c \o d)[k])
  <2>0. k - 1 \in 0..Len(c) + Len(d)
    BY <1>1
  <2>1. CASE k <= Len(c)
    <3>1. k \in 1..Len(c) /\ k - 1 <= Len(c) /\ (c \o d)[k] = c[k]
      BY <1>1, <2>1
    <3>2. Sides(s, c \o d)[k - 1] = Sides(s, c)[k - 1]
      BY <1>3, <2>0, <3>1
    <3> QED BY <3>1, <3>2 DEF Safe
  <2>2. CASE ~ (k <= Len(c))
    <3> DEFINE j == k - Len(c)
    <3>1. j \in 1..Len(d) /\ (c \o d)[k] = d[j]
      BY <1>1, <2>2
    <3>2. Sides(s, c \o d)[k - 1] = Sides(t, d)[j - 1]
      <4>1. CASE j = 1
        <5>1. k - 1 = Len(c) /\ j - 1 = 0
          BY <1>1, <4>1
        <5> QED BY <1>1, <1>2, <1>3, <2>0, <5>1
      <4>2. CASE j # 1
        <5>1. ~ (k - 1 <= Len(c)) /\ k - 1 - Len(c) = j - 1
          BY <1>1, <3>1, <4>2
        <5> QED BY <1>3, <2>0, <5>1
      <4> QED BY <4>1, <4>2
    <3> HIDE DEF j
    <3>3. Linkable(Sides(t, d)[j - 1], d[j])
      BY <3>1 DEF Safe
    <3> QED BY <3>1, <3>2, <3>3
  <2> QED BY <2>1, <2>2
<1> QED BY <1>1, <1>4, <1>5 DEF Safe

\* What is left of a safe list after its first change is safe.
LEMMA SafeTail ==
  ASSUME NEW s \in Side, NEW c \in Seq(Change), c # << >>, Safe(s, c)
  PROVE  /\ Linkable(s, Head(c))
         /\ Safe(Apply(s, Head(c)), Tail(c))
<1> DEFINE e == Head(c)  d == Tail(c)  t == Apply(s, e)
<1>1. e \in Change /\ <<e>> \in Seq(Change) /\ d \in Seq(Change) /\ c = <<e>> \o d
      /\ Len(<<e>>) = 1 /\ Len(d) \in Nat /\ Len(c) = 1 + Len(d)
      /\ c[1] = e /\ \A k \in 1..Len(d) : d[k] = c[k + 1]
  OBVIOUS
<1>2. t \in Side /\ ApplyAll(s, <<e>>) = t /\ Sides(s, <<e>>)[0] = s /\ Sides(s, <<e>>)[1] = t
  BY <1>1, AppliedFew, ApplyType
<1>3. Sides(t, d)[0] = t
  BY <1>1, <1>2, SidesDef, PathSteps
<1> HIDE DEF d, e, t
<1>4. \A k \in 0..1 + Len(d) :
         Sides(s, <<e>> \o d)[k] =
           IF k <= 1 THEN Sides(s, <<e>>)[k] ELSE Sides(t, d)[k - 1]
  <2>1. \A k \in 0..Len(<<e>>) + Len(d) :
           Sides(s, <<e>> \o d)[k] =
             IF k <= Len(<<e>>) THEN Sides(s, <<e>>)[k]
                                ELSE Sides(ApplyAll(s, <<e>>), d)[k - Len(<<e>>)]
    BY <1>1, SidesConcat
  <2> QED BY <1>1, <1>2, <2>1
<1>5. Sides(s, c)[0] = s
  BY <1>1, <1>2, <1>4
<1>6. ASSUME NEW k \in 0..Len(d) PROVE Sides(s, c)[k + 1] = Sides(t, d)[k]
  <2>1. k + 1 \in 0..1 + Len(d) /\ (k + 1 <= 1 <=> k = 0) /\ k + 1 - 1 = k
    BY <1>1
  <2>2. CASE k = 0
    <3>1. Sides(s, c)[0 + 1] = Sides(s, <<e>>)[0 + 1]
      BY <1>1, <1>4, <2>1, <2>2
    <3>2. 0 + 1 = 1
      OBVIOUS
    <3> QED BY <1>2, <1>3, <2>2, <3>1, <3>2
  <2>3. CASE k # 0
    BY <1>1, <1>4, <2>1, <2>3
  <2> QED BY <2>2, <2>3
<1>7. Linkable(s, e)
  <2>1. 1 \in 1..Len(c) /\ 1 - 1 = 0
    BY <1>1
  <2>2. Linkable(Sides(s, c)[1 - 1], c[1])
    BY <2>1 DEF Safe
  <2> QED BY <1>1, <1>5, <2>1, <2>2
<1>8. ASSUME NEW k \in 0..Len(d) PROVE Sound(Sides(t, d)[k])
  <2>1. k + 1 \in 0..Len(c)
    BY <1>1
  <2> QED BY <1>6, <2>1 DEF Safe
<1>9. ASSUME NEW k \in 1..Len(d) PROVE Linkable(Sides(t, d)[k - 1], d[k])
  <2>1. k + 1 \in 1..Len(c) /\ k - 1 \in 0..Len(d) /\ k + 1 - 1 = k /\ k - 1 + 1 = k
    BY <1>1
  <2>2. Linkable(Sides(s, c)[k + 1 - 1], c[k + 1])
    BY <2>1 DEF Safe
  <2>3. Sides(s, c)[k - 1 + 1] = Sides(t, d)[k - 1]
    BY <1>6, <2>1
  <2> QED BY <1>1, <2>1, <2>2, <2>3
<1>10. Safe(t, d)
  BY <1>8, <1>9 DEF Safe
<1> QED BY <1>7, <1>10 DEF d, e, t

-----------------------------------------------------------------------------
(***************************************************************************)
(* The changes of every operation.                                         *)
(***************************************************************************)
\* The changes of a connection are changes.
LEMMA ReconnectType ==
  ASSUME NEW s \in Side, NEW n \in Node, NEW src \in Node \cup {None}
  PROVE  Reconnect(s, n, src) \in Seq(Change)
<1>1. s.source[n] \in Node \cup {None}
  BY DEF Side
<1>2. [do |-> "source", node |-> n, to |-> src] \in Change
  BY DEF Change
<1>3. src # None => [do |-> "addRef", node |-> src, to |-> n] \in Change
  BY DEF Change
<1>4. s.source[n] # None => [do |-> "delRef", node |-> s.source[n], to |-> n] \in Change
  BY <1>1 DEF Change
<1> QED BY <1>2, <1>3, <1>4 DEF Reconnect

Ref(op, m, n) == [do |-> op, node |-> m, to |-> n]

\* t is s, but for the references of m, which are r.
Refers(s, t, m, r) ==
    /\ t \in Side
    /\ t.childs = s.childs /\ t.sinks = s.sinks /\ t.source = s.source
    /\ \A x \in Node : t.refs[x] = IF x = m THEN r ELSE s.refs[x]

\* A reference more, and one less.
LEMMA ApplyRef ==
  ASSUME NEW s \in Side, NEW m \in Node, NEW n \in Node
  PROVE  /\ Ref("addRef", m, n) \in Change
         /\ Ref("delRef", m, n) \in Change
         /\ Refers(s, Apply(s, Ref("addRef", m, n)), m, s.refs[m] \cup {n})
         /\ Refers(s, Apply(s, Ref("delRef", m, n)), m, s.refs[m] \ {n})
<1> DEFINE a == Ref("addRef", m, n)
           d == Ref("delRef", m, n)
<1>1. a \in Change /\ d \in Change
  BY DEF Change, Ref
<1>2. Apply(s, a) \in Side /\ Apply(s, d) \in Side
  BY <1>1, ApplyType
<1>3. s = [childs |-> s.childs, value |-> s.value, source |-> s.source,
           refs |-> s.refs, sinks |-> s.sinks] /\ s.refs \in [Node -> SUBSET Node]
  BY DEF Side
<1>4. Apply(s, a) = [s EXCEPT !.refs = [s.refs EXCEPT ![m] = s.refs[m] \cup {n}]]
  BY <1>3 DEF Apply, Ref
<1>5. Apply(s, d) = [s EXCEPT !.refs = [s.refs EXCEPT ![m] = s.refs[m] \ {n}]]
  BY <1>3 DEF Apply, Ref
<1>6. ASSUME NEW t, NEW r, t = [s EXCEPT !.refs = [s.refs EXCEPT ![m] = r]], t \in Side
      PROVE  Refers(s, t, m, r)
  <2>1. t.childs = s.childs /\ t.sinks = s.sinks /\ t.source = s.source
        /\ t.refs = [s.refs EXCEPT ![m] = r]
    BY <1>3, <1>6
  <2>2. \A x \in Node : t.refs[x] = IF x = m THEN r ELSE s.refs[x]
    BY <1>3, <2>1
  <2> QED BY <1>6, <2>1, <2>2 DEF Refers
<1> QED BY <1>1, <1>2, <1>4, <1>5, <1>6

\* t is s, but for the source of the input port of n.
Rewired(s, t, n, src) ==
    /\ t \in Side /\ Wired(t) /\ Sound(t)
    /\ t.source = [s.source EXCEPT ![n] = src]
    /\ t.childs = s.childs
    /\ t.sinks = s.sinks

\* in_port_base::_connect: a port that is connected to a child, or to nothing,
\* changes its source and the lists of the two output ports, and every cut of
\* its three changes is sound.
LEMMA ReconnectSafe ==
  ASSUME NEW s \in Side, Wired(s), Sound(s),
         NEW n \in Node, NEW src \in s.childs \cup {None}
  PROVE  /\ Safe(s, Reconnect(s, n, src))
         /\ Rewired(s, ApplyAll(s, Reconnect(s, n, src)), n, src)
<1> DEFINE old == s.source[n]
           A == IF old # None THEN <<Ref("delRef", old, n)>> ELSE <<>>
           B == IF src # None THEN <<Ref("addRef", src, n)>> ELSE <<>>
           e == [do |-> "source", node |-> n, to |-> src]
           s1 == ApplyAll(s, A)
           s2 == ApplyAll(s1, B)
           t == Apply(s2, e)
<1>1. old \in Node \cup {None} /\ src \in Node \cup {None} /\ None \notin Node
  BY GraphAssumption DEF Side
<1>2. /\ s1 \in Side /\ A \in Seq(Change) /\ Safe(s, A)
      /\ s1.childs = s.childs /\ s1.sinks = s.sinks /\ s1.source = s.source
      /\ \A m \in Node : s1.refs[m] = s.refs[m] \ {n}
  <2>1. CASE old = None
    <3>1. A = << >> /\ s1 = s
      BY <2>1, AppliedFew
    <3>2. \A m \in Node : n \notin s.refs[m]
      BY <1>1, <2>1 DEF Wired
    <3> QED BY <3>1, <3>2, SafeFew
  <2>2. CASE old # None
    <3> DEFINE d == Ref("delRef", old, n)
    <3>1. d \in Change /\ A = <<d>> /\ s1 = Apply(s, d)
      <4>1. d \in Change
        BY <1>1, <2>2 DEF Change, Ref
      <4> QED BY <2>2, <4>1, AppliedFew
    <3>3. \A m \in Node : m # old => n \notin s.refs[m]
      BY DEF Wired
    <3>4. Apply(s, d) \in Side
      BY <3>1, ApplyType
    <3>5. /\ Apply(s, d).childs = s.childs /\ Apply(s, d).sinks = s.sinks
          /\ Apply(s, d).source = s.source
          /\ \A m \in Node : Apply(s, d).refs[m] = IF m = old THEN s.refs[m] \ {n} ELSE s.refs[m]
      <4>1. old \in Node
        BY <1>1, <2>2
      <4>2. Refers(s, Apply(s, d), old, s.refs[old] \ {n})
        BY <4>1, ApplyRef
      <4> HIDE DEF d, old
      <4> QED BY <4>2 DEF Refers
    <3>6. Linkable(s, d) /\ Sound(Apply(s, d))
      BY <3>5 DEF Linkable, Sound, Ref
    <3>7. Safe(s, A)
      BY <3>1, <3>6, SafeFew
    <3>8. A \in Seq(Change)
      BY <3>1
    <3>9. \A m \in Node : Apply(s, d).refs[m] = s.refs[m] \ {n}
      BY <3>3, <3>5
    <3> QED BY <3>1, <3>4, <3>5, <3>7, <3>8, <3>9
  <2> QED BY <2>1, <2>2
<1> HIDE DEF A, s1
<1>3. Sound(s1)
  BY <1>2 DEF Sound
<1>4. /\ s2 \in Side /\ B \in Seq(Change) /\ Safe(s1, B)
      /\ s2.childs = s.childs /\ s2.sinks = s.sinks /\ s2.source = s.source
      /\ \A m \in Node : s2.refs[m] = IF m = src THEN s1.refs[m] \cup {n} ELSE s1.refs[m]
  <2>1. CASE src = None
    <3>1. B = << >> /\ s2 = s1
      BY <1>2, <2>1, AppliedFew
    <3> QED BY <1>1, <1>2, <1>3, <2>1, <3>1, SafeFew
  <2>2. CASE src # None
    <3> DEFINE d == Ref("addRef", src, n)
    <3>1. d \in Change /\ B = <<d>> /\ s2 = Apply(s1, d)
      <4>1. d \in Change
        BY <1>1, <2>2 DEF Change, Ref
      <4> QED BY <1>2, <2>2, <4>1, AppliedFew
    <3>3. Apply(s1, d) \in Side
      BY <1>2, <3>1, ApplyType
    <3>4. /\ Apply(s1, d).childs = s1.childs /\ Apply(s1, d).sinks = s1.sinks
          /\ Apply(s1, d).source = s1.source
          /\ \A m \in Node : Apply(s1, d).refs[m] =
                              IF m = src THEN s1.refs[m] \cup {n} ELSE s1.refs[m]
      <4>1. src \in Node
        BY <1>1, <2>2
      <4>2. Refers(s1, Apply(s1, d), src, s1.refs[src] \cup {n})
        BY <1>2, <4>1, ApplyRef
      <4> HIDE DEF d
      <4> QED BY <1>2, <4>2 DEF Refers
    <3>5. Sound(Apply(s1, d))
      BY <1>3, <3>4 DEF Sound
    <3>6. Linkable(s1, d)
      BY <1>2 DEF Linkable, Ref
    <3>7. Safe(s1, B)
      BY <1>2, <1>3, <3>1, <3>5, <3>6, SafeFew
    <3>8. B \in Seq(Change)
      BY <3>1
    <3> QED BY <1>2, <3>1, <3>3, <3>4, <3>7, <3>8
  <2> QED BY <2>1, <2>2
<1> HIDE DEF B, s2
<1>5. e \in Change
  BY <1>1 DEF Change
<1>6. t = [s2 EXCEPT !.source[n] = src]
  BY DEF Apply
<1>7. t \in Side
  BY <1>4, <1>5, ApplyType
<1> HIDE DEF e
<1>8. /\ t.childs = s.childs /\ t.sinks = s.sinks
      /\ t.source = [s.source EXCEPT ![n] = src]
      /\ t.refs = s2.refs
  BY <1>4, <1>6 DEF Side
<1>9. Wired(t)
  <2> SUFFICES ASSUME NEW m \in Node, NEW x \in Node
               PROVE  x \in t.refs[m] <=> t.source[x] = m
    BY DEF Wired
  <2>1. t.refs[m] = IF m = src THEN (s.refs[m] \ {n}) \cup {n} ELSE s.refs[m] \ {n}
    BY <1>2, <1>4, <1>8
  <2>2. x \in s.refs[m] <=> s.source[x] = m
    BY DEF Wired
  <2>3. t.source[x] = IF x = n THEN src ELSE s.source[x]
    BY <1>8 DEF Side
  <2> QED BY <2>1, <2>2, <2>3
<1>10. Sound(t)
  <2> SUFFICES ASSUME NEW x \in t.childs \cup t.sinks
               PROVE  t.source[x] \in t.childs \cup {None}
    BY DEF Sound
  <2>1. x \in s.childs \cup s.sinks /\ x \in Node
    BY <1>8, GraphAssumption DEF Side
  <2>2. s.source[x] \in s.childs \cup {None}
    BY <2>1 DEF Sound
  <2>3. t.source[x] = IF x = n THEN src ELSE s.source[x]
    BY <1>8, <2>1 DEF Side
  <2> QED BY <1>8, <2>2, <2>3
<1>11. Sound(s2)
  BY <1>2, <1>3, <1>4 DEF Sound
<1>12. Linkable(s2, e)
  BY DEF Linkable, e
<1>13. Safe(s2, <<e>>) /\ ApplyAll(s2, <<e>>) = t /\ <<e>> \in Seq(Change)
  <2> HIDE DEF t
  <2>1. t = Apply(s2, e)
    BY DEF t
  <2> QED BY <1>4, <1>5, <1>10, <1>11, <1>12, <2>1, SafeFew, AppliedFew
<1> HIDE DEF t
<1>14. Reconnect(s, n, src) = (A \o B) \o <<e>>
  BY DEF Reconnect, A, B, e, Ref
<1>15. A \o B \in Seq(Change) /\ Safe(s, A \o B) /\ ApplyAll(s, A \o B) = s2
  BY <1>2, <1>4, SafeConcat, AppliedConcat DEF s1, s2
<1>16. Safe(s, (A \o B) \o <<e>>) /\ ApplyAll(s, (A \o B) \o <<e>>) = t
  BY <1>13, <1>15, SafeConcat, AppliedConcat
<1> QED BY <1>7, <1>8, <1>9, <1>10, <1>14, <1>16 DEF Rewired

Member(op, n) == [do |-> op, node |-> n]

\* t is s, but for the children and the sinks.
Moves(s, t, childs, sinks) ==
    /\ t \in Side
    /\ t.source = s.source /\ t.refs = s.refs
    /\ t.childs = childs /\ t.sinks = sinks

\* A child more or less, and a sink more or less.
LEMMA ApplyMember ==
  ASSUME NEW s \in Side, NEW n \in Node
  PROVE  /\ Member("addChild", n) \in Change
         /\ Member("delChild", n) \in Change
         /\ Moves(s, Apply(s, Member("addChild", n)), s.childs \cup {n}, s.sinks)
         /\ Moves(s, Apply(s, Member("delChild", n)), s.childs \ {n}, s.sinks)
         /\ n \in Sink =>
              /\ Member("addSink", n) \in Change
              /\ Member("delSink", n) \in Change
              /\ Moves(s, Apply(s, Member("addSink", n)), s.childs, s.sinks \cup {n})
              /\ Moves(s, Apply(s, Member("delSink", n)), s.childs, s.sinks \ {n})
<1>1. s = [childs |-> s.childs, value |-> s.value, source |-> s.source,
           refs |-> s.refs, sinks |-> s.sinks]
  BY DEF Side
<1>2. Member("addChild", n) \in Change /\ Member("delChild", n) \in Change
  BY DEF Change, Member
<1>3. Moves(s, Apply(s, Member("addChild", n)), s.childs \cup {n}, s.sinks)
  <2>1. Apply(s, Member("addChild", n)) \in Side
    BY <1>2, ApplyType
  <2>2. Apply(s, Member("addChild", n)) = [s EXCEPT !.childs = s.childs \cup {n}]
    BY <1>1 DEF Apply, Member
  <2> QED BY <1>1, <2>1, <2>2 DEF Moves
<1>4. Moves(s, Apply(s, Member("delChild", n)), s.childs \ {n}, s.sinks)
  <2>1. Apply(s, Member("delChild", n)) \in Side
    BY <1>2, ApplyType
  <2>2. Apply(s, Member("delChild", n)) = [s EXCEPT !.childs = s.childs \ {n}]
    BY <1>1 DEF Apply, Member
  <2> QED BY <1>1, <2>1, <2>2 DEF Moves
<1>5. ASSUME n \in Sink
      PROVE  /\ Member("addSink", n) \in Change
             /\ Member("delSink", n) \in Change
             /\ Moves(s, Apply(s, Member("addSink", n)), s.childs, s.sinks \cup {n})
             /\ Moves(s, Apply(s, Member("delSink", n)), s.childs, s.sinks \ {n})
  <2>1. Member("addSink", n) \in Change /\ Member("delSink", n) \in Change
    BY <1>5 DEF Change, Member
  <2>2. Apply(s, Member("addSink", n)) \in Side /\ Apply(s, Member("delSink", n)) \in Side
    BY <2>1, ApplyType
  <2>3. Apply(s, Member("addSink", n)) = [s EXCEPT !.sinks = s.sinks \cup {n}]
    BY <1>1 DEF Apply, Member
  <2>4. Apply(s, Member("delSink", n)) = [s EXCEPT !.sinks = s.sinks \ {n}]
    BY <1>1 DEF Apply, Member
  <2>5. Moves(s, Apply(s, Member("addSink", n)), s.childs, s.sinks \cup {n})
    BY <1>1, <2>2, <2>3 DEF Moves
  <2>6. Moves(s, Apply(s, Member("delSink", n)), s.childs, s.sinks \ {n})
    BY <1>1, <2>2, <2>4 DEF Moves
  <2> QED BY <2>1, <2>5, <2>6
<1> QED BY <1>2, <1>3, <1>4, <1>5

\* The changes of patch::add.
Joining(n) ==
    <<Member("addChild", n)>>
    \o (IF n \in Sink THEN <<Member("addSink", n)>> ELSE <<>>)

\* patch::add: a node that is not in the patch is connected to nothing.
LEMMA JoinSafe ==
  ASSUME NEW s \in Side, Tidy(s), NEW n \in Node \ s.childs
  PROVE  /\ Joining(n) \in Seq(Change)
         /\ Safe(s, Joining(n))
         /\ Tidy(ApplyAll(s, Joining(n)))
<1> DEFINE A == <<Member("addChild", n)>>
           B == IF n \in Sink THEN <<Member("addSink", n)>> ELSE <<>>
           s1 == Apply(s, Member("addChild", n))
           t == ApplyAll(s1, B)
<1>0. Sound(s) /\ s.childs \in SUBSET Node
  BY DEF Sound, Tidy, Side
<1>1. Moves(s, s1, s.childs \cup {n}, s.sinks) /\ Member("addChild", n) \in Change
  BY ApplyMember
<1>2. Sound(s1) /\ s1 \in Side
  BY <1>0, <1>1 DEF Sound, Tidy, Moves
<1>3. Safe(s, A) /\ A \in Seq(Change) /\ ApplyAll(s, A) = s1
  <2>1. Linkable(s, Member("addChild", n))
    BY DEF Linkable, Member
  <2> QED BY <1>0, <1>1, <1>2, <2>1, SafeFew, AppliedFew
<1>4. /\ Safe(s1, B) /\ B \in Seq(Change)
      /\ Moves(s, t, s.childs \cup {n}, (s.childs \cup {n}) \cap Sink)
  <2>1. CASE n \in Sink
    <3> DEFINE e == Member("addSink", n)
    <3>1. e \in Change /\ Moves(s1, Apply(s1, e), s1.childs, s1.sinks \cup {n})
      BY <1>2, <2>1, ApplyMember
    <3>2. Sound(Apply(s1, e))
      BY <1>1, <1>2, <3>1 DEF Sound, Moves
    <3>3. Linkable(s1, e)
      BY DEF Linkable, Member
    <3> HIDE DEF e
    <3>4. Safe(s1, <<e>>) /\ ApplyAll(s1, <<e>>) = Apply(s1, e) /\ <<e>> \in Seq(Change)
      BY <1>2, <3>1, <3>2, <3>3, SafeFew, AppliedFew
    <3>5. B = <<e>>
      BY <2>1 DEF e
    <3>6. Moves(s, t, s.childs \cup {n}, (s.childs \cup {n}) \cap Sink)
      BY <1>1, <2>1, <3>1, <3>4, <3>5 DEF Moves, Tidy
    <3> QED BY <3>4, <3>5, <3>6
  <2>2. CASE n \notin Sink
    <3>1. B = << >> /\ t = s1
      BY <1>2, <2>2, AppliedFew
    <3>2. Safe(s1, << >>) /\ << >> \in Seq(Change)
      BY <1>2, SafeFew
    <3> QED BY <1>1, <2>2, <3>1, <3>2 DEF Moves, Tidy
  <2> QED BY <2>1, <2>2
<1> HIDE DEF A, B, s1
<1>5. Joining(n) = A \o B
  BY DEF Joining, A, B
<1>6. A \o B \in Seq(Change) /\ Safe(s, A \o B) /\ ApplyAll(s, A \o B) = t
  BY <1>3, <1>4, SafeConcat, AppliedConcat
<1> HIDE DEF t
<1>7. Tidy(t)
  BY <1>4 DEF Tidy, Wired, Moves
<1> QED BY <1>5, <1>6, <1>7

\* The changes that remove a node leave the patch last: nothing is connected to
\* the node, and it is not connected.
LEMMA LeaveSafe ==
  ASSUME NEW s \in Side, Wired(s), Sound(s), s.sinks = s.childs \cap Sink,
         \A x \in Node \ s.childs : s.source[x] = None,
         NEW n \in s.childs, s.source[n] = None, \A x \in Node : s.source[x] # n
  PROVE  /\ LeavePatch(n) \in Seq(Change)
         /\ Safe(s, LeavePatch(n))
         /\ Tidy(ApplyAll(s, LeavePatch(n)))
<1> DEFINE A == <<Member("delChild", n)>>
           B == IF n \in Sink THEN <<Member("delSink", n)>> ELSE <<>>
           s1 == Apply(s, Member("delChild", n))
           t == ApplyAll(s1, B)
<1>0. s.childs \in SUBSET Node /\ n \in Node
  BY DEF Side
<1>1. Moves(s, s1, s.childs \ {n}, s.sinks) /\ Member("delChild", n) \in Change
  BY <1>0, ApplyMember
<1>2. Sound(s1) /\ s1 \in Side
  BY <1>0, <1>1 DEF Sound, Moves
<1>3. Safe(s, A) /\ A \in Seq(Change) /\ ApplyAll(s, A) = s1
  <2>1. Linkable(s, Member("delChild", n))
    BY DEF Linkable, Member
  <2> QED BY <1>0, <1>1, <1>2, <2>1, SafeFew, AppliedFew
<1>4. /\ Safe(s1, B) /\ B \in Seq(Change)
      /\ Moves(s, t, s.childs \ {n}, (s.childs \ {n}) \cap Sink)
  <2>1. CASE n \in Sink
    <3> DEFINE e == Member("delSink", n)
    <3>1. e \in Change /\ Moves(s1, Apply(s1, e), s1.childs, s1.sinks \ {n})
      BY <1>0, <1>2, <2>1, ApplyMember
    <3>2. Sound(Apply(s1, e))
      BY <1>1, <1>2, <3>1 DEF Sound, Moves
    <3>3. Linkable(s1, e)
      BY DEF Linkable, Member
    <3> HIDE DEF e
    <3>4. Safe(s1, <<e>>) /\ ApplyAll(s1, <<e>>) = Apply(s1, e) /\ <<e>> \in Seq(Change)
      BY <1>2, <3>1, <3>2, <3>3, SafeFew, AppliedFew
    <3>5. B = <<e>>
      BY <2>1 DEF e
    <3>6. Moves(s, t, s.childs \ {n}, (s.childs \ {n}) \cap Sink)
      BY <1>1, <2>1, <3>1, <3>4, <3>5 DEF Moves
    <3> QED BY <3>4, <3>5, <3>6
  <2>2. CASE n \notin Sink
    <3>1. B = << >> /\ t = s1
      BY <1>2, <2>2, AppliedFew
    <3>2. Safe(s1, << >>) /\ << >> \in Seq(Change)
      BY <1>2, SafeFew
    <3> QED BY <1>1, <2>2, <3>1, <3>2 DEF Moves
  <2> QED BY <2>1, <2>2
<1> HIDE DEF A, B, s1
<1>5. LeavePatch(n) = A \o B
  BY DEF LeavePatch, A, B, Member
<1>6. A \o B \in Seq(Change) /\ Safe(s, A \o B) /\ ApplyAll(s, A \o B) = t
  BY <1>3, <1>4, SafeConcat, AppliedConcat
<1> HIDE DEF t
<1>7. Tidy(t)
  BY <1>0, <1>4 DEF Tidy, Wired, Moves, Sound, Side
<1> QED BY <1>5, <1>6, <1>7

DropPath(ports, f) ==
  f = [k \in 0..Len(ports) |->
         IF k = 0 THEN <<>> ELSE f[k - 1] \o Reconnect(user, ports[k], None)]

\* The recursive function of DropReferences exists.
LEMMA DropExists ==
  ASSUME user \in Side, NEW ports \in Seq(Node)
  PROVE  \E f : DropPath(ports, f) /\ f \in [0..Len(ports) -> Seq(Change)]
<1> DEFINE n == Len(ports)
           g == [k \in 1..n |-> [d \in Seq(Change) |-> d \o Reconnect(user, ports[k], None)]]
<1>1. n \in Nat /\ << >> \in Seq(Change)
  OBVIOUS
<1>2. g \in [1..n -> [Seq(Change) -> Seq(Change)]]
  <2>1. ASSUME NEW k \in 1..n, NEW d \in Seq(Change)
        PROVE  d \o Reconnect(user, ports[k], None) \in Seq(Change)
    <3>1. Reconnect(user, ports[k], None) \in Seq(Change)
      BY ReconnectType
    <3> QED BY <3>1
  <2> QED BY <2>1
<1>3. \A k \in 1..n, d \in Seq(Change) : g[k][d] = d \o Reconnect(user, ports[k], None)
  OBVIOUS
<1> HIDE DEF g, n
<1>4. PICK f : Recursion(Seq(Change), << >>, n, g, f)
  BY <1>1, <1>2, RecursionExists
<1>5. ASSUME NEW k \in 0..n
      PROVE  f[k] = IF k = 0 THEN << >> ELSE f[k - 1] \o Reconnect(user, ports[k], None)
  <2>1. k # 0 => k \in 1..n /\ k - 1 \in 0..n
    BY <1>1
  <2> QED BY <1>3, <1>4, <2>1 DEF Recursion
<1>6. DropPath(ports, f)
  BY <1>4, <1>5 DEF DropPath, n, Recursion
<1> QED BY <1>4, <1>6 DEF n, Recursion

\* The side s with the sources of the ports in X taken away.
Unplugged(s, t, X) ==
    /\ t \in Side /\ Wired(t) /\ Sound(t)
    /\ t.source = [x \in Node |-> IF x \in X THEN None ELSE s.source[x]]
    /\ t.childs = s.childs
    /\ t.sinks = s.sinks

\* After the input port of a node, the ports connected to its output port are
\* disconnected one by one, each from what the user's side says it is connected
\* to: that is still so when its turn comes, since no port comes twice.
LEMMA DropSafe ==
  ASSUME user \in Side, NEW n \in Node, NEW s, Unplugged(user, s, {n})
  PROVE  /\ DropReferences(n) \in Seq(Change)
         /\ Safe(s, DropReferences(n))
         /\ Unplugged(user, ApplyAll(s, DropReferences(n)), user.refs[n] \cup {n})
<1> DEFINE ports == SetToSeq(user.refs[n] \ {n})
           f == CHOOSE drop : DropPath(ports, drop)
           Gone(k) == {n} \cup {ports[i] : i \in 1..k}
<1>1. user.refs[n] \in SUBSET Node /\ IsFiniteSet(user.refs[n] \ {n})
  BY GraphAssumption, FS_Subset DEF Side
<1>2. /\ ports \in Seq(user.refs[n] \ {n})
      /\ \A i, j \in 1..Len(ports) : ports[i] = ports[j] => i = j
      /\ \A x \in user.refs[n] \ {n} : \E i \in 1..Len(ports) : ports[i] = x
  BY <1>1, ListsSet
<1> HIDE DEF ports
<1>3. ports \in Seq(Node) /\ Len(ports) \in Nat
      /\ \A i \in 1..Len(ports) : ports[i] \in Node /\ ports[i] # n
  BY <1>1, <1>2
<1>4. DropPath(ports, f)
  BY <1>3, DropExists
<1>5. DropReferences(n) = f[Len(ports)]
  BY DEF DropReferences, DropPath, ports
<1> HIDE DEF f
<1>6. /\ f[0] = << >>
      /\ \A k \in 0..Len(ports) - 1 : f[k + 1] = f[k] \o Reconnect(user, ports[k + 1], None)
  BY <1>3, <1>4 DEF DropPath
<1> DEFINE P(k) == /\ f[k] \in Seq(Change)
                   /\ Safe(s, f[k])
                   /\ Unplugged(user, ApplyAll(s, f[k]), Gone(k))
           S == {k \in 0..Len(ports) : P(k)}
<1>7. s \in Side /\ Sound(s)
  BY DEF Unplugged
<1>8. 0 \in S
  <2>1. Gone(0) = {n}
    OBVIOUS
  <2>2. << >> \in Seq(Change) /\ Safe(s, << >>) /\ ApplyAll(s, << >>) = s
    BY <1>7, SafeFew, AppliedFew
  <2>3. P(0)
    BY <1>6, <2>1, <2>2
  <2>4. 0 \in 0..Len(ports)
    BY <1>3
  <2> HIDE DEF P
  <2> QED BY <2>3, <2>4
<1>9. ASSUME NEW k \in 0..Len(ports) - 1, k \in S PROVE k + 1 \in S
  <2> DEFINE m == ports[k + 1]
             t == ApplyAll(s, f[k])
             c == Reconnect(user, m, None)
             u == ApplyAll(t, c)
  <2>1. k + 1 \in 1..Len(ports) /\ k + 1 - 1 = k
    BY <1>3
  <2>2. m \in Node /\ f[k + 1] = f[k] \o c
    <3>1. m \in Node
      BY <1>3, <2>1
    <3> QED BY <1>6, <3>1
  <2>3. P(k)
    BY <1>9
  <2>4. m \notin Gone(k)
    BY <1>2, <1>3, <2>1
  <2>5. Gone(k + 1) = Gone(k) \cup {m}
    <3>1. 1..k + 1 = 1..k \cup {k + 1}
      BY <2>1
    <3> QED BY <3>1
  <2> HIDE DEF Gone
  <2>6. t \in Side /\ Wired(t) /\ Sound(t) /\ t.childs = user.childs /\ t.sinks = user.sinks
        /\ t.source = [x \in Node |-> IF x \in Gone(k) THEN None ELSE user.source[x]]
    BY <2>3 DEF Unplugged
  <2> HIDE DEF t, m
  <2>7. c = Reconnect(t, m, None)
    <3>1. t.source[m] = user.source[m]
      BY <2>2, <2>4, <2>6
    <3> QED BY <3>1 DEF Reconnect
  <2>8. Safe(t, c) /\ Rewired(t, u, m, None)
    BY <2>2, <2>6, <2>7, ReconnectSafe
  <2>9. c \in Seq(Change)
    BY <2>2, ReconnectType, GraphAssumption
  <2> HIDE DEF c
  <2>10. f[k + 1] \in Seq(Change) /\ Safe(s, f[k + 1]) /\ ApplyAll(s, f[k + 1]) = u
    BY <1>7, <2>2, <2>3, <2>8, <2>9, SafeConcat, AppliedConcat DEF t
  <2> HIDE DEF u
  <2>11. u.source = [x \in Node |-> IF x \in Gone(k + 1) THEN None ELSE user.source[x]]
    <3>1. u.source = [t.source EXCEPT ![m] = None]
      BY <2>8 DEF Rewired
    <3> QED BY <2>2, <2>5, <2>6, <3>1
  <2>12. Unplugged(user, u, Gone(k + 1))
    BY <2>6, <2>8, <2>11 DEF Unplugged, Rewired
  <2> QED BY <2>1, <2>10, <2>12
<1> HIDE DEF S
<1>10. 0..Len(ports) \subseteq S
  BY <1>3, <1>8, <1>9, NumbersUpTo
<1>11. P(Len(ports))
  <2>1. Len(ports) \in 0..Len(ports)
    BY <1>3
  <2> HIDE DEF P
  <2> QED BY <1>10, <2>1 DEF S
<1>12. Gone(Len(ports)) = user.refs[n] \cup {n}
  BY <1>1, <1>2, <1>3
<1> QED BY <1>5, <1>11, <1>12

\* The changes of patch::remove.
Leaving(n) == Reconnect(user, n, None) \o DropReferences(n) \o LeavePatch(n)

\* patch::remove: the node is disconnected before it leaves.
LEMMA RemoveSafe ==
  ASSUME user \in Side, Tidy(user), NEW n \in user.childs
  PROVE  /\ Leaving(n) \in Seq(Change)
         /\ Safe(user, Leaving(n))
         /\ Tidy(ApplyAll(user, Leaving(n)))
<1> DEFINE A == Reconnect(user, n, None)
           B == DropReferences(n)
           C == LeavePatch(n)
           s == ApplyAll(user, A)
           t == ApplyAll(s, B)
<1>1. n \in Node /\ Wired(user) /\ Sound(user) /\ user.sinks = user.childs \cap Sink
  BY DEF Side, Tidy, Sound
<1>2. A \in Seq(Change) /\ Safe(user, A) /\ Rewired(user, s, n, None)
  BY <1>1, ReconnectType, ReconnectSafe
<1>3. Unplugged(user, s, {n})
  <2>1. s.source = [x \in Node |-> IF x \in {n} THEN None ELSE user.source[x]]
    BY <1>1, <1>2 DEF Rewired, Side
  <2> QED BY <1>2, <2>1 DEF Unplugged, Rewired
<1>4. B \in Seq(Change) /\ Safe(s, B) /\ Unplugged(user, t, user.refs[n] \cup {n})
  BY <1>1, <1>3, DropSafe
<1>5. A \o B \in Seq(Change) /\ Safe(user, A \o B) /\ ApplyAll(user, A \o B) = t
  BY <1>2, <1>4, SafeConcat, AppliedConcat
<1> HIDE DEF t
<1>6. /\ t \in Side /\ Wired(t) /\ Sound(t) /\ t.sinks = t.childs \cap Sink
      /\ t.childs = user.childs
      /\ t.source = [x \in Node |-> IF x \in user.refs[n] \cup {n} THEN None ELSE user.source[x]]
  BY <1>1, <1>4 DEF Unplugged
<1>7. t.source[n] = None
  BY <1>1, <1>6
<1>8. \A x \in Node : t.source[x] # n
  <2> SUFFICES ASSUME NEW x \in Node PROVE t.source[x] # n
    OBVIOUS
  <2>1. user.source[x] = n => x \in user.refs[n]
    BY <1>1 DEF Wired
  <2> QED BY <1>1, <1>6, <2>1, GraphAssumption
<1>9. \A x \in Node \ t.childs : t.source[x] = None
  BY <1>6 DEF Tidy
<1>10. C \in Seq(Change) /\ Safe(t, C) /\ Tidy(ApplyAll(t, C))
  BY <1>6, <1>7, <1>8, <1>9, LeaveSafe
<1> DEFINE D == A \o B
<1>11. Leaving(n) = D \o C
  BY DEF Leaving
<1> HIDE DEF A, B, C, D
<1>12. D \in Seq(Change) /\ Safe(user, D) /\ ApplyAll(user, D) = t
  BY <1>5 DEF D
<1>13. D \o C \in Seq(Change) /\ Safe(user, D \o C) /\ ApplyAll(user, D \o C) = ApplyAll(t, C)
  BY <1>10, <1>12, SafeConcat, AppliedConcat
<1> QED BY <1>10, <1>11, <1>13

-----------------------------------------------------------------------------
(***************************************************************************)
(* The inductive invariant.                                                *)
(***************************************************************************)
\* The controls that are updated are listed once each, until the block ends.
Updating ==
    /\ phase = "idle" => posts = <<>>
    /\ updated = {posts[i] : i \in 1..Len(posts)}
    /\ \A i, j \in 1..Len(posts) : posts[i] = posts[j] => i = j

\* The user's side is in order, and what a flip delivered is executed by then.
GraphInv ==
    /\ TypeOK
    /\ Tidy(user)
    /\ phase # "events" => front = <<>>
    /\ Updating

\* The RT side goes to the user's side, by sound sides.
CatchUpInv == ApplyAll(rt, UnderWay) = user /\ Safe(rt, UnderWay)

\* What an operation of the user has to say of its changes.
Proper(changes) ==
    /\ changes \in Seq(Change)
    /\ Safe(user, changes)
    /\ Tidy(ApplyAll(user, changes))

\* A tidy side is sound.
LEMMA TidySound == ASSUME NEW s \in Side, Tidy(s) PROVE Sound(s)
BY DEF Side, Tidy, Sound

\* in_control::set: the nodes stay as they are.
LEMMA SetProper ==
  ASSUME GraphInv, NEW n \in Control, NEW v \in Value
  PROVE  Proper(<<[do |-> "set", node |-> n, to |-> v]>>)
<1> DEFINE e == [do |-> "set", node |-> n, to |-> v]
           t == Apply(user, e)
<1>1. user \in Side /\ Tidy(user) /\ Sound(user)
  BY TidySound DEF GraphInv, TypeOK
<1>2. e \in Change
  BY DEF Change
<1>3. t = [user EXCEPT !.value[n] = v]
  BY DEF Apply
<1>4. t.childs = user.childs /\ t.sinks = user.sinks /\ t.source = user.source
      /\ t.refs = user.refs
  BY <1>1, <1>3 DEF Side
<1>5. Tidy(t) /\ Sound(t)
  BY <1>1, <1>4 DEF Tidy, Wired, Sound
<1>6. Linkable(user, e)
  BY DEF Linkable
<1> HIDE DEF t, e
<1>7. <<e>> \in Seq(Change) /\ Safe(user, <<e>>) /\ ApplyAll(user, <<e>>) = t
  BY <1>1, <1>2, <1>5, <1>6, SafeFew, AppliedFew DEF t
<1> QED BY <1>5, <1>7 DEF Proper, e

\* in_port_base::connect and disconnect, of a child with a child or with nothing.
LEMMA ConnectProper ==
  ASSUME GraphInv, NEW n \in user.childs, NEW src \in user.childs \cup {None}
  PROVE  Proper(Reconnect(user, n, src))
<1> DEFINE t == ApplyAll(user, Reconnect(user, n, src))
<1>1. user \in Side /\ Tidy(user) /\ Sound(user) /\ Wired(user)
  BY TidySound DEF GraphInv, TypeOK, Tidy
<1>2. n \in Node /\ src \in Node \cup {None}
  BY <1>1 DEF Side
<1>3. Safe(user, Reconnect(user, n, src)) /\ Rewired(user, t, n, src)
  BY <1>1, <1>2, ReconnectSafe
<1>4. Reconnect(user, n, src) \in Seq(Change)
  BY <1>1, <1>2, ReconnectType
<1> HIDE DEF t
<1>5. Tidy(t)
  <2>1. /\ Wired(t) /\ t.childs = user.childs /\ t.sinks = user.sinks
        /\ t.source = [user.source EXCEPT ![n] = src]
    BY <1>3 DEF Rewired
  <2>2. \A x \in Node : t.source[x] = IF x = n THEN src ELSE user.source[x]
    BY <1>1, <2>1 DEF Side
  <2>3. user.childs \subseteq Node
    BY <1>1 DEF Side
  <2> QED BY <1>1, <2>1, <2>2, <2>3 DEF Tidy
<1> QED BY <1>3, <1>4, <1>5 DEF Proper, t

\* patch::add.
LEMMA AddProper ==
  ASSUME GraphInv, NEW n \in Node \ user.childs
  PROVE  Proper(<<[do |-> "addChild", node |-> n]>>
                \o (IF n \in Sink THEN <<[do |-> "addSink", node |-> n]>> ELSE <<>>))
<1>1. user \in Side /\ Tidy(user)
  BY DEF GraphInv, TypeOK
<1>2. Proper(Joining(n))
  BY <1>1, JoinSafe DEF Proper
<1> QED BY <1>2 DEF Joining, Member

\* patch::remove.
LEMMA RemoveProper ==
  ASSUME GraphInv, NEW n \in user.childs
  PROVE  Proper(Reconnect(user, n, None) \o DropReferences(n) \o LeavePatch(n))
<1>1. user \in Side /\ Tidy(user)
  BY DEF GraphInv, TypeOK
<1>2. Proper(Leaving(n))
  BY <1>1, RemoveSafe DEF Proper
<1> QED BY <1>2 DEF Leaving

\* An operation keeps the invariant, whichever way its changes go.
LEMMA SendKeepsInv ==
  ASSUME GraphInv, NEW live \in BOOLEAN, NEW changes, Proper(changes), Send(live, changes)
  PROVE  GraphInv'
<1>1. changes \in Seq(Change) /\ user' = ApplyAll(user, changes) /\ Tidy(user')
  BY DEF Proper, Send
<1>2. user' \in Side
  BY <1>1, AppliedType DEF GraphInv, TypeOK
<1>3. front \in Seq(Change) /\ pending \in Seq(Change) /\ MaxPending \in Nat
      /\ rt \in Side /\ Len(pending) <= MaxPending
  BY GraphAssumption DEF GraphInv, TypeOK
<1>4. rt' \in Side /\ pending' \in Seq(Change) /\ Len(pending') <= MaxPending
  <2>1. CASE live
    <3>1. /\ Len(UnderWay) + Len(changes) <= MaxPending
          /\ pending' = pending \o changes /\ rt' = rt
      BY <2>1 DEF Send
    <3>2. Len(UnderWay) = Len(front) + Len(pending)
      BY <1>3, ConcatProperties DEF UnderWay
    <3>3. pending' \in Seq(Change) /\ Len(pending') = Len(pending) + Len(changes)
      BY <1>1, <1>3, <3>1, ConcatProperties
    <3>4. Len(front) \in Nat /\ Len(pending) \in Nat /\ Len(changes) \in Nat
      BY <1>1, <1>3
    <3> QED BY <1>3, <3>1, <3>2, <3>3, <3>4
  <2>2. CASE ~ live
    <3>1. rt' = ApplyAll(rt, changes) /\ pending' = pending
      BY <2>2 DEF Send
    <3> QED BY <1>1, <1>3, <3>1, AppliedType
  <2> QED BY <2>1, <2>2
<1>5. UNCHANGED <<isRunning, phase, front, updated, posts, processed>>
  BY DEF Send, blockVars
<1>6. TypeOK'
  BY <1>2, <1>4, <1>5 DEF GraphInv, TypeOK
<1>7. Updating'
  BY <1>5 DEF GraphInv, Updating
<1> QED BY <1>1, <1>5, <1>6, <1>7 DEF GraphInv

\* And the RT side still goes to the user's side, if nothing is under way when it
\* is changed directly.
LEMMA SendKeepsCatchUp ==
  ASSUME GraphInv, Patient, CatchUpInv,
         NEW live \in BOOLEAN, NEW changes, Proper(changes), Send(live, changes)
  PROVE  CatchUpInv'
<1>1. /\ changes \in Seq(Change) /\ Safe(user, changes)
      /\ user' = ApplyAll(user, changes) /\ Tidy(user') /\ front' = front
  BY DEF Proper, Send, blockVars
<1>2. rt \in Side /\ user \in Side /\ front \in Seq(Change) /\ pending \in Seq(Change)
      /\ UnderWay \in Seq(Change)
  BY ConcatProperties DEF GraphInv, TypeOK, UnderWay
<1>3. CASE live
  <2>1. pending' = pending \o changes /\ rt' = rt
    BY <1>3 DEF Send
  <2>2. UnderWay' = UnderWay \o changes
    BY <1>1, <1>2, <2>1, ConcatAssociative DEF UnderWay
  <2>3. ApplyAll(rt, UnderWay) = user /\ Safe(rt, UnderWay)
    BY DEF CatchUpInv
  <2>4. Safe(rt, UnderWay \o changes)
    BY <1>1, <1>2, <2>3, SafeConcat
  <2>5. ApplyAll(rt, UnderWay \o changes) = user'
    BY <1>1, <1>2, <2>3, AppliedConcat
  <2> QED BY <2>1, <2>2, <2>4, <2>5 DEF CatchUpInv
<1>4. CASE ~ live
  <2>1. UnderWay = << >> /\ rt' = ApplyAll(rt, changes) /\ pending' = pending
    BY <1>4 DEF Send
  <2>2. rt = user /\ rt' = user'
    BY <1>1, <1>2, <2>1, AppliedFew DEF CatchUpInv
  <2>3. UnderWay' = << >>
    BY <1>1, <2>1 DEF UnderWay
  <2>4. rt' \in Side /\ Sound(rt')
    BY <1>1, <1>2, <2>2, AppliedType, TidySound
  <2> QED BY <2>2, <2>3, <2>4, SafeFew, AppliedFew DEF CatchUpInv
<1> QED BY <1>3, <1>4

\* Every operation of the user is a proper list of changes that is sent.
LEMMA UserSends ==
  ASSUME GraphInv, UserNext
  PROVE  \/ \E live \in BOOLEAN : \E changes : Proper(changes) /\ Send(live, changes)
         \/ Start \/ Stop
<1>1. ASSUME NEW n \in Control, NEW v \in Value, SetControl(n, v)
      PROVE  \E live \in BOOLEAN : \E changes : Proper(changes) /\ Send(live, changes)
  <2>1. Live(n) \in BOOLEAN
    BY DEF Live
  <2> QED BY <1>1, <2>1, SetProper DEF SetControl
<1>2. ASSUME NEW n \in Node, NEW src \in Node, Connect(n, src)
      PROVE  \E live \in BOOLEAN : \E changes : Proper(changes) /\ Send(live, changes)
  <2>1. Live(n) \in BOOLEAN /\ n \in user.childs /\ src \in user.childs \cup {None}
    BY <1>2 DEF Live, Connect
  <2>2. Proper(Reconnect(user, n, src))
    BY <2>1, ConnectProper
  <2> QED BY <1>2, <2>1, <2>2 DEF Connect
<1>3. ASSUME NEW n \in Node, Disconnect(n)
      PROVE  \E live \in BOOLEAN : \E changes : Proper(changes) /\ Send(live, changes)
  <2>1. Live(n) \in BOOLEAN /\ n \in user.childs /\ None \in user.childs \cup {None}
    BY <1>3 DEF Live, Disconnect
  <2>2. Proper(Reconnect(user, n, None))
    BY <2>1, ConnectProper
  <2> QED BY <1>3, <2>1, <2>2 DEF Disconnect
<1>4. isRunning \in BOOLEAN
  BY DEF GraphInv, TypeOK
<1>5. ASSUME NEW n \in Node, AddNode(n)
      PROVE  \E live \in BOOLEAN : \E changes : Proper(changes) /\ Send(live, changes)
  BY <1>4, <1>5, AddProper DEF AddNode
<1>6. ASSUME NEW n \in Node, RemoveNode(n)
      PROVE  \E live \in BOOLEAN : \E changes : Proper(changes) /\ Send(live, changes)
  BY <1>4, <1>6, RemoveProper DEF RemoveNode
<1> QED BY <1>1, <1>2, <1>3, <1>5, <1>6 DEF UserNext

VisitPath(todo, f) ==
  f = [k \in 0..Cardinality(Node) |->
         IF k = 0 THEN todo \ processed
         ELSE f[k - 1] \cup ({rt.source[n] : n \in f[k - 1]} \ (processed \cup {None}))]

\* node::rt_process visits nodes.
LEMMA VisitedType ==
  ASSUME rt \in Side, NEW todo \in SUBSET Node
  PROVE  Visited(todo) \in SUBSET Node
<1> DEFINE N == Cardinality(Node)
           more(S) == S \cup ({rt.source[n] : n \in S} \ (processed \cup {None}))
           g == [k \in 1..N |-> [S \in SUBSET Node |-> more(S)]]
           v == CHOOSE f : VisitPath(todo, f)
<1>1. N \in Nat
  BY GraphAssumption, FS_CardinalityType
<1>2. ASSUME NEW S \in SUBSET Node PROVE more(S) \in SUBSET Node
  BY DEF Side
<1>3. g \in [1..N -> [SUBSET Node -> SUBSET Node]]
  BY <1>2
<1>4. \A k \in 1..N, S \in SUBSET Node : g[k][S] = more(S)
  OBVIOUS
<1>5. todo \ processed \in SUBSET Node
  OBVIOUS
<1> HIDE DEF g, N, more
<1>6. PICK f : Recursion(SUBSET Node, todo \ processed, N, g, f)
  BY <1>1, <1>3, <1>5, RecursionExists
<1>7. ASSUME NEW k \in 0..N
      PROVE  f[k] = IF k = 0 THEN todo \ processed ELSE more(f[k - 1])
  <2>1. k # 0 => k \in 1..N /\ k - 1 \in 0..N
    BY <1>1
  <2> QED BY <1>4, <1>6, <2>1 DEF Recursion
<1>8. VisitPath(todo, f)
  BY <1>6, <1>7 DEF VisitPath, N, more, Recursion
<1>9. VisitPath(todo, v)
  BY <1>8
<1> HIDE DEF v
<1>10. v[0] = todo \ processed /\ \A k \in 0..N - 1 : v[k + 1] = more(v[k])
  BY <1>1, <1>9 DEF VisitPath, N, more
<1> DEFINE T == {k \in Nat : v[k] \in SUBSET Node}
<1>11. 0 \in T
  BY <1>5, <1>10
<1>12. ASSUME NEW k \in 0..N - 1, k \in T PROVE k + 1 \in T
  <2>1. v[k + 1] \in SUBSET Node
    BY <1>2, <1>10, <1>12
  <2> QED BY <2>1
<1> HIDE DEF T
<1>13. 0..N \subseteq T
  BY <1>1, <1>11, <1>12, NumbersUpTo
<1>14. v[N] \in SUBSET Node
  <2>1. N \in 0..N
    BY <1>1
  <2> QED BY <1>13, <2>1 DEF T
<1>15. Visited(todo) = v[N]
  BY DEF Visited, VisitPath, v, N
<1> QED BY <1>14, <1>15

\* Every step keeps the invariant.
LEMMA GraphInvStep == GraphInv /\ [Next]_vars => GraphInv'
<1> SUFFICES ASSUME GraphInv, [Next]_vars PROVE GraphInv'
  OBVIOUS
<1>0. /\ isRunning \in BOOLEAN /\ user \in Side /\ rt \in Side
      /\ pending \in Seq(Change) /\ Len(pending) <= MaxPending /\ front \in Seq(Change)
      /\ phase \in {"idle", "events", "local"} /\ updated \in SUBSET Control
      /\ posts \in Seq(Control) /\ processed \in SUBSET Node
  BY DEF GraphInv, TypeOK
<1>1. CASE UserNext
  <2>1. ASSUME NEW live \in BOOLEAN, NEW changes, Proper(changes), Send(live, changes)
        PROVE  GraphInv'
    BY <2>1, SendKeepsInv
  <2>2. CASE Start
    BY <2>2 DEF Start, blockVars, GraphInv, TypeOK, Updating
  <2>3. CASE Stop
    BY <2>3 DEF Stop, blockVars, GraphInv, TypeOK, Updating
  <2> QED BY <1>1, <2>1, <2>2, <2>3, UserSends
<1>2. CASE BeginBlock
  <2>1. PICK k \in 0..Len(pending) : /\ front' = SubSeq(pending, 1, k)
                                     /\ pending' = SubSeq(pending, k + 1, Len(pending))
    BY <1>2 DEF BeginBlock
  <2>2. front' \in Seq(Change) /\ pending' \in Seq(Change) /\ Len(pending') <= Len(pending)
    BY <1>0, <2>1
  <2>3. Len(pending') \in Nat /\ Len(pending) \in Nat /\ MaxPending \in Nat
    BY <1>0, <2>2, GraphAssumption
  <2>4. Len(pending') <= MaxPending
    BY <1>0, <2>2, <2>3
  <2>5. UNCHANGED <<isRunning, user, rt, updated, posts, processed>> /\ phase' = "events"
    BY <1>2 DEF BeginBlock
  <2>6. TypeOK'
    BY <1>0, <2>2, <2>4, <2>5 DEF TypeOK
  <2>7. Updating'
    BY <2>5 DEF GraphInv, Updating
  <2> QED BY <2>5, <2>6, <2>7 DEF GraphInv
<1>3. CASE Execute
  <2> DEFINE c == Head(front)
  <2>1. c \in Change /\ front' = Tail(front) /\ front' \in Seq(Change)
        /\ rt' = Apply(rt, c) /\ phase = "events"
        /\ UNCHANGED <<isRunning, user, pending, phase, processed>>
    BY <1>0, <1>3 DEF Execute
  <2>2. rt' \in Side
    BY <1>0, <2>1, ApplyType
  <2>3. /\ updated' \in SUBSET Control /\ posts' \in Seq(Control)
        /\ updated' = {posts'[i] : i \in 1..Len(posts')}
        /\ \A i, j \in 1..Len(posts') : posts'[i] = posts'[j] => i = j
    <3>1. CASE c.do = "set" /\ c.node \notin updated
      <4>1. c.node \in Control
        BY <2>1, <3>1 DEF Change
      <4>2. updated' = updated \cup {c.node} /\ posts' = Append(posts, c.node)
        BY <1>3, <3>1 DEF Execute
      <4>3. Len(posts') = Len(posts) + 1 /\ Len(posts) \in Nat /\ posts' \in Seq(Control)
            /\ posts'[Len(posts) + 1] = c.node
            /\ \A i \in 1..Len(posts) : posts'[i] = posts[i]
        BY <1>0, <4>1, <4>2
      <4>4. updated = {posts[i] : i \in 1..Len(posts)}
        BY DEF GraphInv, Updating
      <4>5. updated' = {posts'[i] : i \in 1..Len(posts')}
        BY <4>2, <4>3, <4>4
      <4>6. ASSUME NEW i \in 1..Len(posts'), NEW j \in 1..Len(posts'), posts'[i] = posts'[j]
            PROVE  i = j
        <5>1. \A m \in 1..Len(posts) : posts'[m] # c.node
          BY <3>1, <4>3, <4>4
        <5> QED BY <4>3, <4>6, <5>1 DEF GraphInv, Updating
      <4> QED BY <1>0, <4>1, <4>2, <4>3, <4>5, <4>6
    <3>2. CASE ~ (c.do = "set" /\ c.node \notin updated)
      <4>1. updated' = updated /\ posts' = posts
        BY <1>3, <3>2 DEF Execute
      <4> QED BY <1>0, <4>1 DEF GraphInv, Updating
    <3> QED BY <3>1, <3>2
  <2>4. TypeOK'
    BY <1>0, <2>1, <2>2, <2>3 DEF TypeOK
  <2>5. Updating'
    BY <2>1, <2>3 DEF Updating
  <2> QED BY <2>1, <2>4, <2>5 DEF GraphInv
<1>4. CASE ProcessSinks
  <2>1. Visited(rt.sinks) \in SUBSET Node
    <3>1. rt.sinks \in SUBSET Node
      BY <1>0, GraphAssumption DEF Side
    <3> QED BY <1>0, <3>1, VisitedType
  <2>2. processed' \in SUBSET Node /\ front = <<>> /\ phase' = "local"
        /\ UNCHANGED <<isRunning, user, rt, pending, front, updated, posts>>
    BY <1>0, <1>4, <2>1 DEF ProcessSinks
  <2>3. TypeOK'
    BY <1>0, <2>2 DEF TypeOK
  <2> QED BY <2>2, <2>3 DEF GraphInv, Updating
<1>5. CASE ExecutePost
  <2>1. /\ posts # <<>> /\ phase = "local" /\ updated' = updated \ {Head(posts)}
        /\ posts' = Tail(posts)
        /\ UNCHANGED <<isRunning, user, rt, pending, front, phase, processed>>
    BY <1>5 DEF ExecutePost
  <2>2. /\ posts' \in Seq(Control) /\ Len(posts') = Len(posts) - 1 /\ Len(posts) \in Nat \ {0}
        /\ Head(posts) = posts[1] /\ \A i \in 1..Len(posts') : posts'[i] = posts[i + 1]
    BY <1>0, <2>1
  <2>3. updated = {posts[i] : i \in 1..Len(posts)}
        /\ \A i, j \in 1..Len(posts) : posts[i] = posts[j] => i = j
    BY DEF GraphInv, Updating
  <2>4. updated' = {posts'[i] : i \in 1..Len(posts')}
    <3>1. ASSUME NEW x \in updated' PROVE x \in {posts'[i] : i \in 1..Len(posts')}
      <4>1. PICK i \in 1..Len(posts) : x = posts[i]
        BY <2>1, <2>3
      <4>2. i # 1
        BY <2>1, <2>2, <4>1
      <4>3. i - 1 \in 1..Len(posts') /\ posts'[i - 1] = x
        BY <2>2, <4>1, <4>2
      <4> QED BY <4>3
    <3>2. ASSUME NEW i \in 1..Len(posts') PROVE posts'[i] \in updated'
      <4>1. i + 1 \in 1..Len(posts) /\ 1 \in 1..Len(posts) /\ i + 1 # 1
        BY <2>2
      <4>2. posts[i + 1] # posts[1] /\ posts[i + 1] \in updated
        BY <2>3, <4>1
      <4> QED BY <2>1, <2>2, <4>2
    <3> QED BY <3>1, <3>2
  <2>5. \A i, j \in 1..Len(posts') : posts'[i] = posts'[j] => i = j
    <3> SUFFICES ASSUME NEW i \in 1..Len(posts'), NEW j \in 1..Len(posts'), posts'[i] = posts'[j]
                 PROVE  i = j
      OBVIOUS
    <3>1. i + 1 \in 1..Len(posts) /\ j + 1 \in 1..Len(posts) /\ posts[i + 1] = posts[j + 1]
      BY <2>2
    <3>2. i + 1 = j + 1
      BY <2>3, <3>1
    <3> QED BY <3>2
  <2>6. TypeOK'
    BY <1>0, <2>1, <2>2 DEF TypeOK
  <2>7. Updating'
    BY <2>1, <2>4, <2>5 DEF Updating
  <2> QED BY <2>1, <2>6, <2>7 DEF GraphInv
<1>6. CASE EndBlock
  BY <1>6 DEF EndBlock, GraphInv, TypeOK, Updating
<1>7. CASE UNCHANGED vars
  BY <1>7 DEF vars, GraphInv, TypeOK, Updating
<1> QED BY <1>1, <1>2, <1>3, <1>4, <1>5, <1>6, <1>7 DEF Next, BlockNext

\* Every step keeps the RT side on its way to the user's side.
LEMMA CatchUpStep == Patient /\ GraphInv /\ CatchUpInv /\ [Next]_vars => CatchUpInv'
<1> SUFFICES ASSUME Patient, GraphInv, CatchUpInv, [Next]_vars PROVE CatchUpInv'
  OBVIOUS
<1>0. /\ rt \in Side /\ pending \in Seq(Change) /\ front \in Seq(Change)
      /\ (phase # "events" => front = <<>>)
  BY DEF GraphInv, TypeOK
<1>1. CASE UserNext
  <2>1. ASSUME NEW live \in BOOLEAN, NEW changes, Proper(changes), Send(live, changes)
        PROVE  CatchUpInv'
    BY <2>1, SendKeepsCatchUp
  <2>2. CASE Start \/ Stop
    BY <2>2 DEF Start, Stop, blockVars, CatchUpInv, UnderWay
  <2> QED BY <1>1, <2>1, <2>2, UserSends
<1>2. CASE BeginBlock
  <2>1. PICK k \in 0..Len(pending) : /\ front' = SubSeq(pending, 1, k)
                                     /\ pending' = SubSeq(pending, k + 1, Len(pending))
    BY <1>2 DEF BeginBlock
  <2>2. front' \o pending' = pending
    <3>1. SubSeq(pending, 1, k) \o SubSeq(pending, k + 1, Len(pending))
            = SubSeq(pending, 1, Len(pending))
      <4>1. 1 \in 1..Len(pending) + 1 /\ k \in 1 - 1..Len(pending)
            /\ Len(pending) \in k..Len(pending)
        BY <1>0
      <4> QED BY <1>0, <4>1, ConcatAdjacentSubSeq
    <3>2. SubSeq(pending, 1, Len(pending)) = pending
      BY <1>0, SubSeqFull
    <3> QED BY <2>1, <3>1, <3>2
  <2>3. front = <<>> /\ user' = user /\ rt' = rt
    BY <1>0, <1>2 DEF BeginBlock
  <2>4. UnderWay' = UnderWay
    BY <1>0, <2>2, <2>3 DEF UnderWay
  <2> QED BY <2>3, <2>4 DEF CatchUpInv
<1>3. CASE Execute
  <2>1. front # <<>> /\ rt' = Apply(rt, Head(front)) /\ front' = Tail(front)
        /\ pending' = pending /\ user' = user
    BY <1>3 DEF Execute
  <2>2. UnderWay \in Seq(Change) /\ UnderWay # <<>> /\ Head(UnderWay) = Head(front)
        /\ Tail(UnderWay) = Tail(front) \o pending
    BY <1>0, <2>1 DEF UnderWay
  <2>3. UnderWay' = Tail(UnderWay)
    BY <2>1, <2>2 DEF UnderWay
  <2>4. ApplyAll(rt', UnderWay') = user'
    BY <1>0, <2>1, <2>2, <2>3, AppliedHead DEF CatchUpInv
  <2>5. Safe(rt', UnderWay')
    BY <1>0, <2>1, <2>2, <2>3, SafeTail DEF CatchUpInv
  <2> QED BY <2>4, <2>5 DEF CatchUpInv
<1>4. CASE ProcessSinks \/ ExecutePost \/ EndBlock \/ UNCHANGED vars
  BY <1>4 DEF ProcessSinks, ExecutePost, EndBlock, vars, CatchUpInv, UnderWay
<1> QED BY <1>1, <1>2, <1>3, <1>4 DEF Next, BlockNext

\* The empty graph, the same on both sides.
LEMMA GraphInit == Init => GraphInv /\ CatchUpInv
<1> SUFFICES ASSUME Init PROVE GraphInv /\ CatchUpInv
  OBVIOUS
<1>1. /\ isRunning = FALSE /\ rt = user /\ pending = <<>> /\ front = <<>> /\ phase = "idle"
      /\ updated = {} /\ posts = <<>> /\ processed = {}
  BY DEF Init
<1>2. PICK v \in Value :
         user = [childs |-> {}, value |-> [n \in Control |-> v],
                 source |-> [n \in Node |-> None], refs |-> [n \in Node |-> {}],
                 sinks |-> {}]
  BY DEF Init
<1>3. user \in Side
  BY <1>2 DEF Side
<1>4. Tidy(user)
  BY <1>2, GraphAssumption DEF Tidy, Wired
<1>5. TypeOK
  <2>1. Len(pending) = 0 /\ pending \in Seq(Change) /\ front \in Seq(Change)
        /\ posts \in Seq(Control)
    BY <1>1
  <2>2. 0 <= MaxPending
    BY GraphAssumption
  <2> QED BY <1>1, <1>3, <2>1, <2>2 DEF TypeOK
<1>6. Updating
  BY <1>1 DEF Updating
<1>7. UnderWay = <<>>
  BY <1>1 DEF UnderWay
<1>8. CatchUpInv
  BY <1>1, <1>3, <1>4, <1>7, TidySound, SafeFew, AppliedFew DEF CatchUpInv
<1> QED BY <1>1, <1>4, <1>5, <1>6, <1>8 DEF GraphInv

-----------------------------------------------------------------------------
\* Types, in every state.
THEOREM GraphTypes == Spec => []TypeOK
<1>1. GraphInv => TypeOK
  BY DEF GraphInv
<1> QED BY <1>1, GraphInit, GraphInvStep, PTL DEF Spec

\* A control is marked as updated within a block only, and each that is marked has
\* its post-update event in the local buffer.
THEOREM UpdatesEnd == Spec => []UpdatesEndWithBlock
<1>1. GraphInv => UpdatesEndWithBlock
  BY DEF GraphInv, Updating, UpdatesEndWithBlock
<1> QED BY <1>1, GraphInit, GraphInvStep, PTL DEF Spec

\* If the user lets the RT thread execute all events before stopping it and before
\* changing RT state directly, the events under way lead the RT side to the user's.
THEOREM RtAlwaysCatchesUp == ASSUME Patient PROVE Spec => []RtCatchesUp
<1>1. CatchUpInv => RtCatchesUp
  BY DEF CatchUpInv, RtCatchesUp
<1>2. GraphInv /\ CatchUpInv /\ [Next]_vars => GraphInv' /\ CatchUpInv'
  BY GraphInvStep, CatchUpStep
<1> QED BY <1>1, <1>2, GraphInit, PTL DEF Spec

\* Under the same discipline the RT thread pulls from children only, wherever a
\* flip has cut the events of an operation.
THEOREM PullsFromChilds == ASSUME Patient PROVE Spec => []SourcesAreChilds
<1>1. GraphInv /\ CatchUpInv => SourcesAreChilds
  <2> SUFFICES ASSUME GraphInv, CatchUpInv PROVE SourcesAreChilds
    OBVIOUS
  <2>1. rt \in Side /\ UnderWay \in Seq(Change)
    BY ConcatProperties DEF GraphInv, TypeOK, UnderWay
  <2>2. Sides(rt, UnderWay)[0] = rt /\ 0 \in 0..Len(UnderWay)
    BY <2>1, SidesDef, PathSteps
  <2>3. Sound(rt)
    BY <2>2 DEF CatchUpInv, Safe
  <2> QED BY <2>3 DEF Sound, SourcesAreChilds
<1>2. GraphInv /\ CatchUpInv /\ [Next]_vars => GraphInv' /\ CatchUpInv'
  BY GraphInvStep, CatchUpStep
<1> QED BY <1>1, <1>2, GraphInit, PTL DEF Spec

\* And no event links a hook of an intrusive list that is linked already.
THEOREM HooksAlwaysLinkedOnce == ASSUME Patient PROVE Spec => []HooksLinkedOnce
<1>1. GraphInv /\ CatchUpInv => HooksLinkedOnce
  <2> SUFFICES ASSUME GraphInv, CatchUpInv, front # <<>>
               PROVE  Linkable(rt, Head(front))
    BY DEF HooksLinkedOnce, Linkable
  <2>1. rt \in Side /\ front \in Seq(Change) /\ pending \in Seq(Change)
    BY DEF GraphInv, TypeOK
  <2>2. UnderWay \in Seq(Change) /\ UnderWay # <<>> /\ Head(UnderWay) = Head(front)
    BY <2>1 DEF UnderWay
  <2> QED BY <2>1, <2>2, SafeTail DEF CatchUpInv
<1>2. GraphInv /\ CatchUpInv /\ [Next]_vars => GraphInv' /\ CatchUpInv'
  BY GraphInvStep, CatchUpStep
<1> QED BY <1>1, <1>2, GraphInit, PTL DEF Spec
=============================================================================
