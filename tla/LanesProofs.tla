---------------------------- MODULE LanesProofs ----------------------------
(***************************************************************************)
(* The triple buffers, locks and threads of module Processor implement the *)
(* lanes of module EventLanes, for programs whose user thread pushes no    *)
(* async events.                                                           *)
(***************************************************************************)
EXTENDS ProcessorProofs, SequenceTheorems

-----------------------------------------------------------------------------
(***************************************************************************)
(* The steps of the lanes.                                                 *)
(***************************************************************************)
LEMMA LanesStutter ==
  ASSUME \A l \in Lane : LanePending(l)' = LanePending(l), Ran' = Ran
  PROVE  UNCHANGED Lanes!vars
BY DEF Lanes!vars

(* An event appended to the deque behind the part F of a lane that the     *)
(* reader has taken is accepted, or overflows the deque.                   *)
LEMMA LanesPush ==
  ASSUME NEW l \in Lane, NEW e \in Event, Lanes!Fresh(e),
         NEW F \in Seq(Event), NEW d \in Seq(Event), Len(d) <= QueueSize,
         LanePending(l) = F \o d,
         LanePending(l)' = F \o DequePush(d, e),
         \A m \in Lane \ {l} : LanePending(m)' = LanePending(m),
         Ran' = Ran
  PROVE  Lanes!Next
<1> DEFINE pending == [m \in Lane |-> LanePending(m)]
<1>1. pending[l] = F \o d
  OBVIOUS
<1>2. CASE HasRoom(d)
  <2>1. Append(F \o d, e) = F \o Append(d, e)
    <3>1. F \o d \in Seq(Event) /\ <<e>> \in Seq(Event)
      BY ConcatProperties
    <3>2. Append(F \o d, e) = (F \o d) \o <<e>> /\ Append(d, e) = d \o <<e>>
      BY <3>1, AppendIsConcat
    <3> QED  BY <3>1, <3>2, ConcatAssociative
  <2>2. pending' = [pending EXCEPT ![l] = Append(@, e)]
    BY <1>2, <2>1 DEF DequePush
  <2>3. Lanes!Accept(l, e)
    BY <2>2 DEF Lanes!Accept
  <2> QED  BY <2>3 DEF Lanes!Next
<1>3. CASE ~HasRoom(d)
  <2>1. Len(d) = QueueSize /\ Len(F) \in Nat /\ Len(F \o d) = Len(F) + Len(d)
    BY <1>3, QueueSizeAssumption, ConcatProperties, LenProperties DEF HasRoom
  <2>2. /\ Len(F \o d) >= QueueSize
        /\ Len(F) \in 0..(Len(F \o d) - QueueSize)
    BY <2>1, QueueSizeAssumption
  <2>3. SubSeq(F \o d, 1, Len(F)) = F
    <3>1. CASE Len(F) = 0
      <4>1. F = <<>>
        BY <3>1, EmptySeq
      <4> QED  BY <3>1, <4>1, SubSeqEmpty
    <3>2. CASE Len(F) # 0
      <4>1. 1 \in 1..Len(F) /\ Len(F) \in 1..Len(F)
        BY <2>1, <3>2
      <4> QED  BY <4>1, SubSeqOfConcat1, SubSeqFull
    <3> QED  BY <3>1, <3>2
  <2>4. pending' = [pending EXCEPT ![l] = SubSeq(@, 1, Len(F)) \o <<e>>]
    BY <1>3, <2>3 DEF DequePush
  <2>5. Lanes!Overflow(l, e)
    BY <1>1, <2>2, <2>4 DEF Lanes!Overflow
  <2> QED  BY <2>5 DEF Lanes!Next
<1> QED  BY <1>2, <1>3

(* The reader of a lane takes the first event of what it has in hand.      *)
LEMMA LanesExecute ==
  ASSUME NEW l \in Lane,
         NEW F \in Seq(Event), F # <<>>, NEW d \in Seq(Event),
         LanePending(l) = F \o d,
         LanePending(l)' = Tail(F) \o d,
         \A m \in Lane \ {l} : LanePending(m)' = LanePending(m),
         Ran' = Ran \cup {Head(F)}
  PROVE  Lanes!Next
<1> DEFINE pending == [m \in Lane |-> LanePending(m)]
<1>1. pending[l] = F \o d
  OBVIOUS
<1>2. /\ Len(F) \in Nat \ {0} /\ Len(d) \in Nat
      /\ F \o d \in Seq(Event) /\ Len(F \o d) = Len(F) + Len(d)
      /\ \A i \in 1..(Len(F) + Len(d)) :
           (F \o d)[i] = IF i <= Len(F) THEN F[i] ELSE d[i - Len(F)]
  BY ConcatProperties, EmptySeq, LenProperties
<1>3. F \o d # <<>>
  BY <1>2
<1>4. Head(F \o d) = Head(F)
  BY <1>2
<1>5. Tail(F \o d) = Tail(F) \o d
  <2>1. /\ Tail(F) \in Seq(Event) /\ Len(Tail(F)) = Len(F) - 1
        /\ \A i \in 1..(Len(F) - 1) : Tail(F)[i] = F[i + 1]
    BY HeadTailProperties
  <2>2. /\ Tail(F \o d) \in Seq(Event) /\ Len(Tail(F \o d)) = Len(F) + Len(d) - 1
        /\ \A i \in 1..(Len(F) + Len(d) - 1) : Tail(F \o d)[i] = (F \o d)[i + 1]
    BY <1>2, <1>3, HeadTailProperties
  <2>3. /\ Tail(F) \o d \in Seq(Event) /\ Len(Tail(F) \o d) = Len(F) - 1 + Len(d)
        /\ \A i \in 1..(Len(F) - 1 + Len(d)) : (Tail(F) \o d)[i] =
             IF i <= Len(F) - 1 THEN Tail(F)[i] ELSE d[i - (Len(F) - 1)]
    BY <2>1, ConcatProperties
  <2>4. ASSUME NEW i \in 1..(Len(F) + Len(d) - 1)
        PROVE  Tail(F \o d)[i] = (Tail(F) \o d)[i]
    <3>1. i + 1 \in 1..(Len(F) + Len(d)) /\ i \in Nat
      BY <1>2
    <3>2. Tail(F \o d)[i] = IF i + 1 <= Len(F) THEN F[i + 1] ELSE d[i + 1 - Len(F)]
      BY <1>2, <2>2, <3>1
    <3> QED  BY <1>2, <2>1, <2>3, <3>1, <3>2
  <2> QED  BY <1>2, <2>2, <2>3, <2>4, SeqEqual
<1>6. Lanes!Execute(l)
  BY <1>1, <1>3, <1>4, <1>5 DEF Lanes!Execute
<1> QED  BY <1>6 DEF Lanes!Next

-----------------------------------------------------------------------------
(***************************************************************************)
(* Every event is in one place at most.                                    *)
(***************************************************************************)
AllQueued(C, st, f) == \A c \in C : \A i \in 1..Len(st[c]) : f[st[c][i]] = "queued"

AllOnce(C, st) ==
  \A c, d \in C : \A i \in 1..Len(st[c]), j \in 1..Len(st[d]) :
    st[c][i] = st[d][j] => c = d /\ i = j

LEMMA OnePlaceOnly ==
  ASSUME NEW C, NEW st, AllOnce(C, st),
         NEW c \in C, NEW d \in C, NEW i \in 1..Len(st[c]), NEW j \in 1..Len(st[d]),
         st[c][i] = st[d][j]
  PROVE  c = d /\ i = j
BY DEF AllOnce

(* A push into the deque c of some deques st. *)
StoresPushed(C, st, st2, f, g, c, e) ==
  /\ st \in [C -> Seq(Event)] /\ st2 \in [C -> Seq(Event)] /\ c \in C /\ e \in Event
  /\ st2[c] = DequePush(st[c], e)
  /\ \A d \in C \ {c} : st2[d] = st[d]
  /\ f[e] # "queued" /\ g[e] = "queued"
  /\ \A x \in Event \ {e} :
       f[x] = "queued" /\ (HasRoom(st[c]) \/ \A i \in 1..Len(st[c]) : x # st[c][i])
         => g[x] = "queued"

LEMMA StoresPush ==
  ASSUME NEW C, NEW st, NEW st2, NEW f, NEW g, NEW c, NEW e,
         AllQueued(C, st, f), AllOnce(C, st),
         StoresPushed(C, st, st2, f, g, c, e)
  PROVE  AllQueued(C, st2, g) /\ AllOnce(C, st2)
<1> USE DEF StoresPushed
<1> DEFINE New(d, i) == d = c /\ i = Len(st2[c]) /\ st2[d][i] = e
           Old(d, i) == /\ i \in 1..Len(st[d]) /\ st2[d][i] = st[d][i]
                        /\ HasRoom(st[c]) \/ d # c
<1>1. ASSUME NEW d \in C, NEW i \in 1..Len(st2[d])
      PROVE  New(d, i) \/ Old(d, i)
  <2>1. CASE d # c
    BY <2>1
  <2>2. CASE d = c /\ HasRoom(st[c])
    <3>1. st2[c] = Append(st[c], e)
      BY <2>2 DEF DequePush
    <3> QED  BY <2>2, <3>1, AppendProperties, LenProperties
  <2>3. CASE d = c /\ ~HasRoom(st[c])
    <3>1. st2[c] = <<e>>
      BY <2>3 DEF DequePush
    <3>2. Len(<<e>>) = 1 /\ <<e>>[1] = e
      OBVIOUS
    <3>3. st2[d] = <<e>> /\ st2[c] = <<e>> /\ d = c
      BY <2>3, <3>1
    <3>4. Len(st2[d]) = 1
      BY <3>2, <3>3
    <3>5. i = 1
      BY <3>4
    <3> QED  BY <3>2, <3>3, <3>5
  <2> QED  BY <2>1, <2>2, <2>3
<1>2. ASSUME NEW d \in C, NEW i \in 1..Len(st2[d]), Old(d, i)
      PROVE  /\ st2[d][i] \in Event \ {e}
             /\ g[st2[d][i]] = "queued"
  <2>1. st[d][i] \in Event /\ f[st[d][i]] = "queued"
    BY <1>2, ElementOfSeq DEF AllQueued
  <2>2. HasRoom(st[c]) \/ \A j \in 1..Len(st[c]) : st[d][i] # st[c][j]
    BY <1>2 DEF AllOnce
  <2> QED  BY <1>2, <2>1, <2>2
<1>3. AllQueued(C, st2, g)
  <2> SUFFICES ASSUME NEW d \in C, NEW i \in 1..Len(st2[d])
               PROVE  g[st2[d][i]] = "queued"
    BY DEF AllQueued
  <2>1. New(d, i) \/ Old(d, i)
    BY <1>1
  <2> QED  BY <1>2, <2>1
<1>4. ASSUME NEW d1 \in C, NEW d2 \in C,
             NEW i \in 1..Len(st2[d1]), NEW j \in 1..Len(st2[d2]),
             st2[d1][i] = st2[d2][j]
      PROVE  d1 = d2 /\ i = j
  <2>1. CASE Old(d1, i) /\ Old(d2, j)
    <3>1. st[d1][i] = st[d2][j] /\ i \in 1..Len(st[d1]) /\ j \in 1..Len(st[d2])
      BY <1>4, <2>1
    <3> QED  BY <3>1, OnePlaceOnly
  <2>2. CASE New(d1, i) /\ New(d2, j)
    BY <2>2
  <2>3. CASE Old(d1, i) /\ New(d2, j)
    BY <1>2, <1>4, <2>3
  <2>4. CASE New(d1, i) /\ Old(d2, j)
    BY <1>2, <1>4, <2>4
  <2>5. (New(d1, i) \/ Old(d1, i)) /\ (New(d2, j) \/ Old(d2, j))
    BY <1>1
  <2> QED  BY <2>1, <2>2, <2>3, <2>4, <2>5
<1> QED  BY <1>3, <1>4 DEF AllOnce

(* The reader takes the first event of the deque c. *)
StoresPopped(C, st, st2, f, g, c) ==
  /\ st \in [C -> Seq(Event)] /\ st2 \in [C -> Seq(Event)] /\ c \in C
  /\ st[c] # <<>> /\ st2[c] = Tail(st[c])
  /\ \A d \in C \ {c} : st2[d] = st[d]
  /\ \A x \in Event \ {Head(st[c])} : g[x] = f[x]

LEMMA StoresPop ==
  ASSUME NEW C, NEW st, NEW st2, NEW f, NEW g, NEW c,
         AllQueued(C, st, f), AllOnce(C, st),
         StoresPopped(C, st, st2, f, g, c)
  PROVE  AllQueued(C, st2, g) /\ AllOnce(C, st2)
<1> USE DEF StoresPopped
<1> DEFINE Was(d, i) == IF d = c THEN i + 1 ELSE i
<1>1. /\ st[c] \in Seq(Event)
      /\ Len(st[c]) \in Nat \ {0}
      /\ Head(st[c]) = st[c][1]
      /\ Len(Tail(st[c])) = Len(st[c]) - 1
      /\ \A i \in 1..Len(Tail(st[c])) : Tail(st[c])[i] = st[c][i + 1]
  BY EmptySeq, HeadTailProperties
<1>2. ASSUME NEW d \in C, NEW i \in 1..Len(st2[d])
      PROVE  /\ Was(d, i) \in 1..Len(st[d])
             /\ st2[d][i] = st[d][Was(d, i)]
             /\ st2[d][i] \in Event \ {Head(st[c])}
  <2>1. Was(d, i) \in 1..Len(st[d]) /\ st2[d][i] = st[d][Was(d, i)]
    <3>1. CASE d = c
      <4>1. i \in 1..(Len(st[c]) - 1) /\ st2[d][i] = Tail(st[c])[i]
        BY <1>1, <3>1
      <4> QED  BY <1>1, <3>1, <4>1
    <3>2. CASE d # c
      BY <3>2
    <3> QED  BY <3>1, <3>2
  <2>2. st[d][Was(d, i)] \in Event
    <3> HIDE DEF Was
    <3> QED  BY <2>1, ElementOfSeq
  <2>3. ~(d = c /\ Was(d, i) = 1) /\ 1 \in 1..Len(st[c])
    BY <1>1
  <2>4. st[d][Was(d, i)] # st[c][1]
    <3> HIDE DEF Was
    <3> QED  BY <2>1, <2>3 DEF AllOnce
  <2> QED  BY <1>1, <2>1, <2>2, <2>4
<1>3. AllQueued(C, st2, g)
  <2> SUFFICES ASSUME NEW d \in C, NEW i \in 1..Len(st2[d])
               PROVE  g[st2[d][i]] = "queued"
    BY DEF AllQueued
  <2> HIDE DEF Was
  <2>1. /\ Was(d, i) \in 1..Len(st[d])
        /\ st2[d][i] = st[d][Was(d, i)]
        /\ st2[d][i] \in Event \ {Head(st[c])}
    BY <1>2
  <2>2. f[st[d][Was(d, i)]] = "queued"
    BY <2>1 DEF AllQueued
  <2> QED  BY <2>1, <2>2
<1>4. ASSUME NEW d1 \in C, NEW d2 \in C,
             NEW i \in 1..Len(st2[d1]), NEW j \in 1..Len(st2[d2]),
             st2[d1][i] = st2[d2][j]
      PROVE  d1 = d2 /\ i = j
  <2>1. /\ Was(d1, i) \in 1..Len(st[d1]) /\ st2[d1][i] = st[d1][Was(d1, i)]
        /\ Was(d2, j) \in 1..Len(st[d2]) /\ st2[d2][j] = st[d2][Was(d2, j)]
    BY <1>2
  <2>2. d1 = d2 /\ Was(d1, i) = Was(d2, j)
    <3> HIDE DEF Was
    <3>1. st[d1][Was(d1, i)] = st[d2][Was(d2, j)]
      BY <1>4, <2>1
    <3> QED  BY <2>1, <3>1, OnePlaceOnly
  <2> QED  BY <2>2
<1> QED  BY <1>3, <1>4 DEF AllOnce

(* A loop over the front ends when the front is empty: clear() is idle. *)
LEMMA ClearEmptyFront ==
  ASSUME NEW b \in TripleBuffers, Front(b) = <<>>
  PROVE  ClearFront(b) = b
<1>1. b.store = [b.store EXCEPT ![b.front] = <<>>]
  BY DEF Front, TripleBuffers
<1>2. b = [b EXCEPT !.store = b.store]
  BY DEF TripleBuffers
<1> QED  BY <1>1, <1>2 DEF ClearFront

-----------------------------------------------------------------------------
(***************************************************************************)
(* The six deques of the processor as one function, and the invariant: an  *)
(* event is stored once and only while its fate is to be executed, and the *)
(* events of pushes under way are not stored yet.                          *)
(***************************************************************************)
Cell   == {"rt", "async"} \X Slot
Stores == [c \in Cell |-> IF c[1] = "rt" THEN rtBuffers.store[c[2]]
                                         ELSE asyncBuffers.store[c[2]]]

StoreInv == AllQueued(Cell, Stores, fate) /\ AllOnce(Cell, Stores)

Pushed(p) == pushing[p].queue # "none"

PushInv ==
  /\ \A p \in Pusher : Pushed(p) => fate[pushing[p].event] = "pushing"
  /\ Pushed("user") /\ Pushed("async") => pushing["user"].event # pushing["async"].event

EventInv == StoreInv /\ PushInv

(* Only the deque s of one of the buffers changes. *)
LEMMA RtStores ==
  ASSUME TypeOK, TypeOK', NEW s \in Slot,
         \A r \in Slot \ {s} : rtBuffers'.store[r] = rtBuffers.store[r],
         UNCHANGED asyncBuffers
  PROVE  /\ Stores \in [Cell -> Seq(Event)] /\ Stores' \in [Cell -> Seq(Event)]
         /\ <<"rt", s>> \in Cell
         /\ Stores[<<"rt", s>>] = rtBuffers.store[s]
         /\ Stores'[<<"rt", s>>] = rtBuffers'.store[s]
         /\ \A d \in Cell \ {<<"rt", s>>} : Stores'[d] = Stores[d]
<1>1. /\ \A r \in Slot : rtBuffers.store[r] \in Seq(Event)
                       /\ rtBuffers'.store[r] \in Seq(Event)
                       /\ asyncBuffers.store[r] \in Seq(Event)
                       /\ asyncBuffers'.store[r] = asyncBuffers.store[r]
  BY DEF TypeOK, TripleBuffers
<1>2. \A c \in Cell : c[1] \in {"rt", "async"} /\ c[2] \in Slot /\ c = <<c[1], c[2]>>
  BY DEF Cell
<1>3. <<"rt", s>> \in Cell
  BY DEF Cell
<1>4. ASSUME NEW d \in Cell \ {<<"rt", s>>} PROVE Stores'[d] = Stores[d]
  <2>1. d[1] = "async" \/ d[2] # s
    BY <1>2
  <2> QED  BY <1>1, <1>2, <2>1 DEF Stores
<1> QED  BY <1>1, <1>2, <1>3, <1>4 DEF Stores

LEMMA AsyncStores ==
  ASSUME TypeOK, TypeOK', NEW s \in Slot,
         \A r \in Slot \ {s} : asyncBuffers'.store[r] = asyncBuffers.store[r],
         UNCHANGED rtBuffers
  PROVE  /\ Stores \in [Cell -> Seq(Event)] /\ Stores' \in [Cell -> Seq(Event)]
         /\ <<"async", s>> \in Cell
         /\ Stores[<<"async", s>>] = asyncBuffers.store[s]
         /\ Stores'[<<"async", s>>] = asyncBuffers'.store[s]
         /\ \A d \in Cell \ {<<"async", s>>} : Stores'[d] = Stores[d]
<1>1. /\ \A r \in Slot : asyncBuffers.store[r] \in Seq(Event)
                       /\ asyncBuffers'.store[r] \in Seq(Event)
                       /\ rtBuffers.store[r] \in Seq(Event)
                       /\ rtBuffers'.store[r] = rtBuffers.store[r]
  BY DEF TypeOK, TripleBuffers
<1>2. \A c \in Cell : c[1] \in {"rt", "async"} /\ c[2] \in Slot /\ c = <<c[1], c[2]>>
  BY DEF Cell
<1>3. <<"async", s>> \in Cell
  BY DEF Cell
<1>4. ASSUME NEW d \in Cell \ {<<"async", s>>} PROVE Stores'[d] = Stores[d]
  <2>1. d[1] = "rt" \/ d[2] # s
    BY <1>2
  <2> QED  BY <1>1, <1>2, <2>1 DEF Stores
<1> QED  BY <1>1, <1>2, <1>3, <1>4 DEF Stores

(* What a push does to the fate of the events. *)
LEMMA FateAfterPush ==
  ASSUME TypeOK, NEW b \in TripleBuffers, NEW s \in Slot, NEW e \in Event,
         \A i \in 1..Len(b.store[s]) : fate[b.store[s][i]] = "queued"
  PROVE  /\ FateOfPush(b, s, e)[e] = "queued"
         /\ \A x \in Event \ {e} :
              /\ fate[x] # "queued" => FateOfPush(b, s, e)[x] = fate[x]
              /\ FateOfPush(b, s, e)[x] \in {fate[x], "lost"}
              /\ (HasRoom(b.store[s]) \/ \A i \in 1..Len(b.store[s]) : x # b.store[s][i])
                   => FateOfPush(b, s, e)[x] = fate[x]
<1>1. \A x \in Overwritten(b, s) : fate[x] = "queued"
  BY DEF Overwritten
<1>2. FateOfPush(b, s, e)[e] = "queued"
  BY DEF FateOfPush
<1>3. ASSUME NEW x \in Event \ {e}
      PROVE  FateOfPush(b, s, e)[x] = IF x \in Overwritten(b, s) THEN "lost" ELSE fate[x]
  BY DEF FateOfPush
<1>4. ASSUME NEW x \in Event,
             HasRoom(b.store[s]) \/ \A i \in 1..Len(b.store[s]) : x # b.store[s][i]
      PROVE  x \notin Overwritten(b, s)
  BY <1>4 DEF Overwritten
<1> QED  BY <1>1, <1>2, <1>3, <1>4

LEMMA StoredAreQueued ==
  ASSUME TypeOK, StoreInv, NEW s \in Slot
  PROVE  /\ \A i \in 1..Len(rtBuffers.store[s]) : fate[rtBuffers.store[s][i]] = "queued"
         /\ \A i \in 1..Len(asyncBuffers.store[s]) : fate[asyncBuffers.store[s][i]] = "queued"
<1>1. <<"rt", s>> \in Cell /\ <<"async", s>> \in Cell
  BY DEF Cell
<1>2. Stores[<<"rt", s>>] = rtBuffers.store[s] /\ Stores[<<"async", s>>] = asyncBuffers.store[s]
  BY <1>1 DEF Stores
<1>3. \A c \in Cell : \A i \in 1..Len(Stores[c]) : fate[Stores[c][i]] = "queued"
  BY DEF StoreInv, AllQueued
<1> QED  BY <1>1, <1>2, <1>3

(* What a push changes. *)
LEMMA RtPushEffect ==
  ASSUME TypeOK, TypeOK', StoreInv,
         NEW s \in Slot, NEW e \in Event, fate[e] \in {"new", "pushing"},
         rtBuffers' = PushAt(rtBuffers, s, e),
         fate' = FateOfPush(rtBuffers, s, e),
         UNCHANGED asyncBuffers
  PROVE  /\ StoreInv'
         /\ Ran' = Ran
         /\ \A x \in Event \ {e} : fate[x] = "pushing" => fate'[x] = "pushing"
<1>0. rtBuffers \in TripleBuffers /\ Bounded(rtBuffers)
  BY DEF TypeOK
<1>1. /\ fate'[e] = "queued"
      /\ \A x \in Event \ {e} :
           /\ fate[x] # "queued" => fate'[x] = fate[x]
           /\ fate'[x] \in {fate[x], "lost"}
           /\ (HasRoom(rtBuffers.store[s])
                \/ \A i \in 1..Len(rtBuffers.store[s]) : x # rtBuffers.store[s][i])
                => fate'[x] = fate[x]
  BY <1>0, StoredAreQueued, FateAfterPush
<1>2. /\ rtBuffers'.store[s] = DequePush(rtBuffers.store[s], e)
      /\ \A r \in Slot \ {s} : rtBuffers'.store[r] = rtBuffers.store[r]
  BY <1>0, PushAtType DEF PushAt, TripleBuffers
<1>3. StoreInv'
  <2>1. /\ Stores \in [Cell -> Seq(Event)] /\ Stores' \in [Cell -> Seq(Event)]
        /\ <<"rt", s>> \in Cell
        /\ Stores[<<"rt", s>>] = rtBuffers.store[s]
        /\ Stores'[<<"rt", s>>] = rtBuffers'.store[s]
        /\ \A d \in Cell \ {<<"rt", s>>} : Stores'[d] = Stores[d]
    BY <1>2, RtStores
  <2>2. AllQueued(Cell, Stores, fate) /\ AllOnce(Cell, Stores)
    BY DEF StoreInv
  <2>3. StoresPushed(Cell, Stores, Stores', fate, fate', <<"rt", s>>, e)
    BY <1>1, <1>2, <2>1 DEF StoresPushed
  <2>4. AllQueued(Cell, Stores', fate') /\ AllOnce(Cell, Stores')
    BY <2>2, <2>3, StoresPush
  <2> QED  BY <2>4 DEF StoreInv, AllQueued, AllOnce, Cell
<1>4. Ran' = Ran
  BY <1>1 DEF Ran
<1> QED  BY <1>1, <1>3, <1>4

LEMMA AsyncPushEffect ==
  ASSUME TypeOK, TypeOK', StoreInv,
         NEW s \in Slot, NEW e \in Event, fate[e] \in {"new", "pushing"},
         asyncBuffers' = PushAt(asyncBuffers, s, e),
         fate' = FateOfPush(asyncBuffers, s, e),
         UNCHANGED rtBuffers
  PROVE  /\ StoreInv'
         /\ Ran' = Ran
         /\ \A x \in Event \ {e} : fate[x] = "pushing" => fate'[x] = "pushing"
<1>0. asyncBuffers \in TripleBuffers /\ Bounded(asyncBuffers)
  BY DEF TypeOK
<1>1. /\ fate'[e] = "queued"
      /\ \A x \in Event \ {e} :
           /\ fate[x] # "queued" => fate'[x] = fate[x]
           /\ fate'[x] \in {fate[x], "lost"}
           /\ (HasRoom(asyncBuffers.store[s])
                \/ \A i \in 1..Len(asyncBuffers.store[s]) : x # asyncBuffers.store[s][i])
                => fate'[x] = fate[x]
  BY <1>0, StoredAreQueued, FateAfterPush
<1>2. /\ asyncBuffers'.store[s] = DequePush(asyncBuffers.store[s], e)
      /\ \A r \in Slot \ {s} : asyncBuffers'.store[r] = asyncBuffers.store[r]
  BY <1>0, PushAtType DEF PushAt, TripleBuffers
<1>3. StoreInv'
  <2>1. /\ Stores \in [Cell -> Seq(Event)] /\ Stores' \in [Cell -> Seq(Event)]
        /\ <<"async", s>> \in Cell
        /\ Stores[<<"async", s>>] = asyncBuffers.store[s]
        /\ Stores'[<<"async", s>>] = asyncBuffers'.store[s]
        /\ \A d \in Cell \ {<<"async", s>>} : Stores'[d] = Stores[d]
    BY <1>2, AsyncStores
  <2>2. AllQueued(Cell, Stores, fate) /\ AllOnce(Cell, Stores)
    BY DEF StoreInv
  <2>3. StoresPushed(Cell, Stores, Stores', fate, fate', <<"async", s>>, e)
    BY <1>1, <1>2, <2>1 DEF StoresPushed
  <2>4. AllQueued(Cell, Stores', fate') /\ AllOnce(Cell, Stores')
    BY <2>2, <2>3, StoresPush
  <2> QED  BY <2>4 DEF StoreInv, AllQueued, AllOnce, Cell
<1>4. Ran' = Ran
  BY <1>1 DEF Ran
<1> QED  BY <1>1, <1>3, <1>4

(* What the next turn of a loop over the front changes. *)
LEMMA RtPopEffect ==
  ASSUME TypeOK, TypeOK', StoreInv, Front(rtBuffers) # <<>>,
         rtBuffers' = PopFront(rtBuffers),
         fate' = [fate EXCEPT ![Head(Front(rtBuffers))] = "ran"],
         UNCHANGED asyncBuffers
  PROVE  /\ StoreInv'
         /\ Ran' = Ran \cup {Head(Front(rtBuffers))}
         /\ \A x \in Event : fate[x] = "pushing" => fate'[x] = "pushing"
<1> DEFINE s == rtBuffers.front
           h == Head(Front(rtBuffers))
<1>0. /\ rtBuffers \in TripleBuffers /\ Bounded(rtBuffers) /\ s \in Slot
      /\ Front(rtBuffers) = rtBuffers.store[s] /\ rtBuffers.store[s] \in Seq(Event)
  BY DEF TypeOK, TripleBuffers, Front
<1>1. h \in Event /\ fate[h] = "queued"
  <2>1. h = rtBuffers.store[s][1] /\ 1 \in 1..Len(rtBuffers.store[s])
    BY <1>0, EmptySeq
  <2> QED  BY <1>0, <2>1, StoredAreQueued, PopFrontType
<1>2. fate'[h] = "ran" /\ \A x \in Event \ {h} : fate'[x] = fate[x]
  BY <1>1 DEF TypeOK
<1>3. /\ rtBuffers'.store[s] = Tail(rtBuffers.store[s])
      /\ \A r \in Slot \ {s} : rtBuffers'.store[r] = rtBuffers.store[r]
  BY <1>0, PopFrontType DEF PopFront, TripleBuffers
<1>4. StoreInv'
  <2>1. /\ Stores \in [Cell -> Seq(Event)] /\ Stores' \in [Cell -> Seq(Event)]
        /\ <<"rt", s>> \in Cell
        /\ Stores[<<"rt", s>>] = rtBuffers.store[s]
        /\ Stores'[<<"rt", s>>] = rtBuffers'.store[s]
        /\ \A d \in Cell \ {<<"rt", s>>} : Stores'[d] = Stores[d]
    BY <1>0, <1>3, RtStores
  <2>2. AllQueued(Cell, Stores, fate) /\ AllOnce(Cell, Stores)
    BY DEF StoreInv
  <2>3. StoresPopped(Cell, Stores, Stores', fate, fate', <<"rt", s>>)
    BY <1>0, <1>2, <1>3, <2>1 DEF StoresPopped
  <2>4. AllQueued(Cell, Stores', fate') /\ AllOnce(Cell, Stores')
    BY <2>2, <2>3, StoresPop
  <2> QED  BY <2>4 DEF StoreInv, AllQueued, AllOnce, Cell
<1>5. Ran' = Ran \cup {h}
  BY <1>1, <1>2 DEF Ran
<1> QED  BY <1>1, <1>2, <1>4, <1>5

LEMMA AsyncPopEffect ==
  ASSUME TypeOK, TypeOK', StoreInv, Front(asyncBuffers) # <<>>,
         asyncBuffers' = PopFront(asyncBuffers),
         fate' = [fate EXCEPT ![Head(Front(asyncBuffers))] = "ran"],
         UNCHANGED rtBuffers
  PROVE  /\ StoreInv'
         /\ Ran' = Ran \cup {Head(Front(asyncBuffers))}
         /\ \A x \in Event : fate[x] = "pushing" => fate'[x] = "pushing"
<1> DEFINE s == asyncBuffers.front
           h == Head(Front(asyncBuffers))
<1>0. /\ asyncBuffers \in TripleBuffers /\ Bounded(asyncBuffers) /\ s \in Slot
      /\ Front(asyncBuffers) = asyncBuffers.store[s] /\ asyncBuffers.store[s] \in Seq(Event)
  BY DEF TypeOK, TripleBuffers, Front
<1>1. h \in Event /\ fate[h] = "queued"
  <2>1. h = asyncBuffers.store[s][1] /\ 1 \in 1..Len(asyncBuffers.store[s])
    BY <1>0, EmptySeq
  <2> QED  BY <1>0, <2>1, StoredAreQueued, PopFrontType
<1>2. fate'[h] = "ran" /\ \A x \in Event \ {h} : fate'[x] = fate[x]
  BY <1>1 DEF TypeOK
<1>3. /\ asyncBuffers'.store[s] = Tail(asyncBuffers.store[s])
      /\ \A r \in Slot \ {s} : asyncBuffers'.store[r] = asyncBuffers.store[r]
  BY <1>0, PopFrontType DEF PopFront, TripleBuffers
<1>4. StoreInv'
  <2>1. /\ Stores \in [Cell -> Seq(Event)] /\ Stores' \in [Cell -> Seq(Event)]
        /\ <<"async", s>> \in Cell
        /\ Stores[<<"async", s>>] = asyncBuffers.store[s]
        /\ Stores'[<<"async", s>>] = asyncBuffers'.store[s]
        /\ \A d \in Cell \ {<<"async", s>>} : Stores'[d] = Stores[d]
    BY <1>0, <1>3, AsyncStores
  <2>2. AllQueued(Cell, Stores, fate) /\ AllOnce(Cell, Stores)
    BY DEF StoreInv
  <2>3. StoresPopped(Cell, Stores, Stores', fate, fate', <<"async", s>>)
    BY <1>0, <1>2, <1>3, <2>1 DEF StoresPopped
  <2>4. AllQueued(Cell, Stores', fate') /\ AllOnce(Cell, Stores')
    BY <2>2, <2>3, StoresPop
  <2> QED  BY <2>4 DEF StoreInv, AllQueued, AllOnce, Cell
<1>5. Ran' = Ran \cup {h}
  BY <1>1, <1>2 DEF Ran
<1> QED  BY <1>1, <1>2, <1>4, <1>5

LEMMA EventInvStep ==
  ASSUME ~UserAsync
  PROVE  TypeOK /\ TypeOK' /\ AsyncInv /\ EventInv /\ [Next]_vars => EventInv'
<1> SUFFICES ASSUME TypeOK, TypeOK', AsyncInv, EventInv, [Next]_vars PROVE EventInv'
  OBVIOUS
<1> USE DEF userVars, rtVars, asyncVars, lockVars
<1>0. /\ StoreInv /\ rtBuffers \in TripleBuffers /\ Bounded(rtBuffers)
      /\ asyncBuffers \in TripleBuffers /\ Bounded(asyncBuffers)
  BY DEF EventInv, TypeOK
<1>1. CASE /\ rtBuffers'.store = rtBuffers.store
           /\ asyncBuffers'.store = asyncBuffers.store
           /\ UNCHANGED <<fate, pushing>>
  <2>1. Stores' = Stores
    BY <1>1 DEF Stores, Cell
  <2> QED  BY <1>1, <2>1 DEF EventInv, StoreInv, AllQueued, AllOnce, PushInv, Pushed, Cell
<1>2. ASSUME NEW p \in Pusher, NEW e \in Event, LockRtBack(p, e) \/ LockAsyncLocal(p, e)
      PROVE  EventInv'
  <2>1. /\ UNCHANGED <<rtBuffers, asyncBuffers>>
        /\ fate[e] = "new" /\ fate' = [fate EXCEPT ![e] = "pushing"]
        /\ pushing'[p].event = e /\ pushing'[p].queue # "none"
        /\ \A q \in Pusher \ {p} : pushing'[q] = pushing[q]
    BY <1>2 DEF LockRtBack, LockAsyncLocal, TypeOK
  <2>2. fate'[e] = "pushing" /\ \A x \in Event \ {e} : fate'[x] = fate[x]
    BY <2>1 DEF TypeOK
  <2>3. Stores' = Stores
    BY <2>1 DEF Stores, Cell
  <2>4. StoreInv'
    <3>1. \A c \in Cell : Stores[c] \in Seq(Event)
      BY DEF Stores, Cell, TypeOK, TripleBuffers
    <3>2. ASSUME NEW c \in Cell, NEW i \in 1..Len(Stores[c])
          PROVE  fate'[Stores[c][i]] = "queued"
      <4>1. fate[Stores[c][i]] = "queued" /\ Stores[c][i] \in Event
        BY <1>0, <3>1, ElementOfSeq DEF StoreInv, AllQueued
      <4> QED  BY <2>1, <2>2, <4>1
    <3>3. AllQueued(Cell, Stores', fate')
      BY <2>3, <3>2 DEF AllQueued
    <3>4. AllOnce(Cell, Stores')
      BY <1>0, <2>3 DEF StoreInv
    <3> QED  BY <3>3, <3>4 DEF StoreInv, AllQueued, AllOnce, Cell
  <2>5. PushInv'
    <3>1. \A q \in Pusher \ {p} :
            pushing'[q].queue # "none" =>
              /\ fate[pushing[q].event] = "pushing"
              /\ pushing[q].event \in Event
      <4>1. \A q \in Pusher : pushing[q].queue # "none" => pushing[q].queue \in {"rt", "async"}
        BY DEF TypeOK, Pushes, NoPush
      <4> QED  BY <2>1, <4>1, QueuedPush DEF EventInv, PushInv, Pushed
    <3>2. \A q \in Pusher \ {p} :
            pushing'[q].queue # "none" =>
              /\ pushing'[q].event # e
              /\ fate'[pushing'[q].event] = "pushing"
      BY <2>1, <2>2, <3>1
    <3> QED  BY <2>1, <2>2, <3>2 DEF PushInv, Pushed, Pusher
  <2> QED  BY <2>4, <2>5 DEF EventInv
<1>3. ASSUME NEW p \in Pusher, PushRt(p) \/ PushAsync(p) PROVE EventInv'
  <2> DEFINE e == pushing[p].event
  <2>1. /\ pushing[p].queue \in {"rt", "async"}
        /\ pushing' = [pushing EXCEPT ![p] = NoPush]
    BY <1>3 DEF PushRt, PushAsync
  <2>2. /\ pushing[p].slot \in Slot /\ e \in Event
        /\ fate[e] = "pushing" /\ fate[e] \in {"new", "pushing"}
    BY <2>1, QueuedPush DEF EventInv, PushInv, Pushed
  <2>3. StoreInv' /\ \A x \in Event \ {e} : fate[x] = "pushing" => fate'[x] = "pushing"
    <3>1. CASE PushRt(p)
      <4>1. /\ rtBuffers' = PushAt(rtBuffers, pushing[p].slot, e)
            /\ fate' = FateOfPush(rtBuffers, pushing[p].slot, e)
            /\ UNCHANGED asyncBuffers
        BY <3>1 DEF PushRt
      <4> QED  BY <1>0, <2>2, <4>1, RtPushEffect
    <3>2. CASE PushAsync(p)
      <4>1. /\ asyncBuffers' = PushAt(asyncBuffers, pushing[p].slot, e)
            /\ fate' = FateOfPush(asyncBuffers, pushing[p].slot, e)
            /\ UNCHANGED rtBuffers
        BY <3>2 DEF PushAsync
      <4> QED  BY <1>0, <2>2, <4>1, AsyncPushEffect
    <3> QED  BY <1>3, <3>1, <3>2
  <2>4. PushInv'
    <3>1. \A q \in Pusher : Pushed(q) => pushing[q].event \in Event
      <4>1. \A q \in Pusher : Pushed(q) => pushing[q].queue \in {"rt", "async"}
        BY DEF TypeOK, Pushes, NoPush, Pushed
      <4> QED  BY <4>1, QueuedPush
    <3>2. ~Pushed(p)'
      BY <2>1 DEF TypeOK, Pushed, NoPush
    <3>3. \A q \in Pusher \ {p} : pushing'[q] = pushing[q]
      BY <2>1 DEF TypeOK
    <3>4. \A q \in Pusher \ {p} : Pushed(q) => pushing[q].event # e
      BY <2>1 DEF EventInv, PushInv, Pushed, Pusher
    <3>5. \A q \in Pusher \ {p} :
            pushing'[q].queue # "none" => fate'[pushing'[q].event] = "pushing"
      BY <2>3, <3>1, <3>3, <3>4 DEF EventInv, PushInv, Pushed
    <3> QED  BY <3>2, <3>5 DEF PushInv, Pushed, Pusher
  <2> QED  BY <2>3, <2>4 DEF EventInv
<1>4. ASSUME StoreInv', UNCHANGED pushing,
             \A x \in Event : fate[x] = "pushing" => fate'[x] = "pushing"
      PROVE  EventInv'
  <2>1. \A q \in Pusher : Pushed(q) => pushing[q].event \in Event
    <3>1. \A q \in Pusher : Pushed(q) => pushing[q].queue \in {"rt", "async"}
      BY DEF TypeOK, Pushes, NoPush, Pushed
    <3> QED  BY <3>1, QueuedPush
  <2> QED  BY <1>4, <2>1 DEF EventInv, PushInv, Pushed
<1>5. ASSUME NEW t \in RtThread, NEW e \in Event, RtPushSelf(t, e) PROVE EventInv'
  <2>1. /\ rtBuffers' = PushAt(rtBuffers, rtBuffers.local, e)
        /\ fate' = FateOfPush(rtBuffers, rtBuffers.local, e)
        /\ UNCHANGED <<asyncBuffers, pushing>>
        /\ fate[e] = "new" /\ rtBuffers.local \in Slot
    BY <1>0, <1>5 DEF RtPushSelf, TripleBuffers
  <2> QED  BY <1>0, <1>4, <2>1, RtPushEffect
<1>6. ASSUME NEW t \in RtThread, NEW e \in Event, RtPushAsync(t, e) PROVE EventInv'
  <2>1. /\ asyncBuffers' = PushAt(asyncBuffers, asyncBuffers.back, e)
        /\ fate' = FateOfPush(asyncBuffers, asyncBuffers.back, e)
        /\ UNCHANGED <<rtBuffers, pushing>>
        /\ fate[e] = "new" /\ asyncBuffers.back \in Slot
    BY <1>0, <1>6 DEF RtPushAsync, TripleBuffers
  <2> QED  BY <1>0, <1>4, <2>1, AsyncPushEffect
<1>7. ASSUME NEW t \in RtThread, RtExecute(t) PROVE EventInv'
  BY <1>0, <1>4, <1>7, RtPopEffect DEF RtExecute
<1>8. CASE AsyncExecute
  BY <1>0, <1>4, <1>8, AsyncPopEffect DEF AsyncExecute, AsyncUnchanged
<1>9. ASSUME NEW t \in RtThread,
             \/ RtRequest(t) \/ RtUnblock(t) \/ RtFlipBack(t) \/ RtProcessSinks(t)
             \/ RtFlipLocal(t) \/ RtEndLocal(t) \/ RtHandoff(t)
      PROVE  EventInv'
  BY <1>0, <1>1, <1>9, FlipBackType, FlipLocalType, ClearEmptyFront
  DEF RtRequest, RtUnblock, RtFlipBack, RtProcessSinks, RtFlipLocal, RtEndLocal, RtHandoff
<1>10. CASE AsyncClearBack \/ AsyncClearLocal
  <2>1. Front(asyncBuffers) = <<>>
    BY <1>10 DEF AsyncClearBack, AsyncClearLocal, AsyncAt, AsyncInv
  <2>2. FateOfClear = fate
    BY <2>1 DEF FateOfClear, TypeOK
  <2> QED
    BY <1>0, <1>1, <1>10, <2>1, <2>2, FlipLocalType, ClearEmptyFront
    DEF AsyncClearBack, AsyncClearLocal, AsyncUnchanged
<1>11. CASE \/ AsyncTest \/ AsyncLock \/ AsyncEndLoop \/ AsyncCheck \/ AsyncRelock
            \/ AsyncSpuriousWake
  BY <1>1, <1>11 DEF AsyncTest, AsyncLock, AsyncEndLoop, AsyncCheck, AsyncRelock,
     AsyncSpuriousWake, AsyncUnchanged
<1>12. CASE Start \/ Stop \/ UserStep
  BY <1>1, <1>12 DEF Start, Stop, UserStep, StartDevice, StopDevice, StartReturn,
     StopAsync, Join, UserUnchanged
<1>13. CASE UNCHANGED vars
  BY <1>1, <1>13 DEF vars
<1> QED
  BY <1>2, <1>3, <1>5, <1>6, <1>7, <1>8, <1>9, <1>10, <1>11, <1>12, <1>13
  DEF Next, LockStep, PushStep, BlockStep, RtPush, AsyncStep

LEMMA EventInvAlways ==
  ASSUME ~UserAsync
  PROVE  Spec => []EventInv
<1>1. Init => EventInv
  BY DEF Init, InitBuffers, EventInv, StoreInv, PushInv, Pushed, AllQueued, AllOnce,
         Stores, Cell, NoPush, Pusher
<1>2. TypeOK /\ TypeOK' /\ AsyncInv /\ EventInv /\ [Next]_vars => EventInv'
  BY EventInvStep
<1> QED  BY <1>1, <1>2, TypeCorrect, AsyncInvAlways, PTL DEF Spec

-----------------------------------------------------------------------------
(***************************************************************************)
(* The front of the RT buffers is empty outside of the loops over it.      *)
(***************************************************************************)
RtFrontInv ==
  Front(rtBuffers) # <<>> => RtIsIn({"runBack", "inBack", "runLocal", "inLocal"})

LEMMA RtFrontInvStep ==
  TypeOK /\ PushesGoToTheBack /\ RtFrontInv /\ [Next]_vars => RtFrontInv'
<1> SUFFICES ASSUME TypeOK, PushesGoToTheBack, RtFrontInv, [Next]_vars PROVE RtFrontInv'
  OBVIOUS
<1> USE DEF userVars, rtVars, asyncVars, lockVars
<1>0. /\ rtBuffers \in TripleBuffers /\ Bounded(rtBuffers)
      /\ rtBuffers.front \in Slot /\ rtBuffers.back \in Slot /\ rtBuffers.local \in Slot
      /\ rtBuffers.front # rtBuffers.back /\ rtBuffers.front # rtBuffers.local
  BY DEF TypeOK, TripleBuffers, PushesGoToTheBack, Distinct
<1>1. CASE Front(rtBuffers') = Front(rtBuffers) /\ UNCHANGED rtPc
  BY <1>1 DEF RtFrontInv, RtIsIn
<1>2. ASSUME NEW p \in Pusher, LockStep(p) \/ PushAsync(p) PROVE RtFrontInv'
  BY <1>1, <1>2 DEF LockStep, LockRtBack, LockAsyncLocal, PushAsync
<1>3. ASSUME NEW p \in Pusher, PushRt(p) PROVE RtFrontInv'
  <2>1. pushing[p].slot = rtBuffers.back
    BY <1>3 DEF PushRt, PushesGoToTheBack
  <2>2. Front(rtBuffers') = Front(rtBuffers)
    BY <1>0, <1>3, <2>1, QueuedPush, PushAtType DEF PushRt, Front
  <2> QED  BY <1>1, <1>3, <2>2 DEF PushRt
<1>4. ASSUME NEW t \in RtThread, NEW e \in Event, RtPushSelf(t, e) PROVE RtFrontInv'
  <2>1. Front(rtBuffers') = Front(rtBuffers)
    BY <1>0, <1>4, PushAtType DEF RtPushSelf, Front
  <2> QED  BY <1>1, <1>4, <2>1 DEF RtPushSelf
<1>5. ASSUME NEW t \in RtThread, NEW e \in Event, RtPushAsync(t, e) PROVE RtFrontInv'
  BY <1>1, <1>5 DEF RtPushAsync
<1>6. ASSUME NEW t \in RtThread, RtRequest(t) \/ RtUnblock(t) \/ RtHandoff(t)
      PROVE  RtFrontInv'
  <2>1. /\ UNCHANGED rtBuffers
        /\ rtPc[t] \notin {"runBack", "inBack", "runLocal", "inLocal"}
        /\ \A u \in RtThread \ {t} : rtPc'[u] = rtPc[u]
    BY <1>6 DEF RtRequest, RtUnblock, RtHandoff, RtGoto, TypeOK
  <2> QED  BY <2>1 DEF RtFrontInv, RtIsIn
<1>7. ASSUME NEW t \in RtThread, RtFlipBack(t) \/ RtFlipLocal(t) \/ RtExecute(t)
      PROVE  RtFrontInv'
  <2>1. rtPc'[t] \in {"runBack", "inBack", "runLocal", "inLocal"}
    BY <1>7 DEF RtFlipBack, RtFlipLocal, RtExecute, RtGoto, TypeOK
  <2> QED  BY <2>1 DEF RtFrontInv, RtIsIn
<1>8. ASSUME NEW t \in RtThread, RtProcessSinks(t) \/ RtEndLocal(t) PROVE RtFrontInv'
  <2>1. Front(rtBuffers') = <<>>
    BY <1>0, <1>8, ClearFrontType DEF RtProcessSinks, RtEndLocal
  <2> QED  BY <2>1 DEF RtFrontInv, Front
<1>9. ASSUME AsyncStep \/ AsyncSpuriousWake PROVE RtFrontInv'
  BY <1>1, <1>9 DEF AsyncStep, AsyncTest, AsyncLock, AsyncExecute, AsyncEndLoop,
     AsyncClearBack, AsyncClearLocal, AsyncCheck, AsyncRelock, AsyncSpuriousWake,
     AsyncUnchanged
<1>10. ASSUME Start \/ Stop \/ UserStep PROVE RtFrontInv'
  BY <1>1, <1>10 DEF Start, Stop, UserStep, StartDevice, StopDevice, StartReturn,
     StopAsync, Join, UserUnchanged
<1>11. CASE UNCHANGED vars
  BY <1>1, <1>11 DEF vars
<1> QED
  BY <1>2, <1>3, <1>4, <1>5, <1>6, <1>7, <1>8, <1>9, <1>10, <1>11
  DEF Next, PushStep, BlockStep, RtPush

LEMMA RtFrontInvAlways == Spec => []RtFrontInv
<1>1. Init => RtFrontInv
  BY DEF Init, InitBuffers, RtFrontInv, Front, Slot
<1> QED  BY <1>1, RtFrontInvStep, TypeCorrect, PushesExcluded, PTL DEF Spec

-----------------------------------------------------------------------------
(***************************************************************************)
(* The deques as parts of the lanes.                                       *)
(***************************************************************************)
LEMMA DequeTypes ==
  ASSUME NEW b \in TripleBuffers, Bounded(b)
  PROVE  /\ Front(b) \in Seq(Event) /\ Len(Front(b)) <= QueueSize
         /\ Back(b) \in Seq(Event) /\ Len(Back(b)) <= QueueSize
         /\ Local(b) \in Seq(Event) /\ Len(Local(b)) <= QueueSize
BY DEF Front, Back, Local, TripleBuffers, Bounded

LEMMA FrontIfType ==
  ASSUME NEW b \in TripleBuffers, NEW cond
  PROVE  FrontIf(cond, b) \in Seq(Event)
<1>1. Front(b) \in Seq(Event) /\ <<>> \in Seq(Event)
  BY DEF Front, TripleBuffers
<1> QED  BY <1>1 DEF FrontIf

LEMMA NoFront ==
  ASSUME NEW b, NEW cond, NEW s \in Seq(Event), ~cond \/ Front(b) = <<>>
  PROVE  FrontIf(cond, b) \o s = s
<1>1. FrontIf(cond, b) = <<>>
  BY DEF FrontIf
<1> QED  BY <1>1, ConcatEmptySeq

(* An event that is new or being pushed is in no lane. *)
LEMMA FreshEvent ==
  ASSUME TypeOK, StoreInv, NEW e \in Event, fate[e] \in {"new", "pushing"}
  PROVE  Lanes!Fresh(e)
<1> DEFINE AllIn(s) == s \in Seq(Event) /\ \A i \in 1..Len(s) : fate[s[i]] = "queued"
<1>1. ASSUME NEW s1, NEW s2, AllIn(s1), AllIn(s2) PROVE AllIn(s1 \o s2)
  <2>1. s1 \in Seq(Event) /\ s2 \in Seq(Event)
    BY <1>1
  <2>2. /\ s1 \o s2 \in Seq(Event) /\ Len(s1 \o s2) = Len(s1) + Len(s2)
        /\ Len(s1) \in Nat /\ Len(s2) \in Nat
        /\ \A i \in 1..(Len(s1) + Len(s2)) :
             (s1 \o s2)[i] = IF i <= Len(s1) THEN s1[i] ELSE s2[i - Len(s1)]
    BY <2>1, ConcatProperties, LenProperties
  <2>3. ASSUME NEW i \in 1..Len(s1 \o s2) PROVE fate[(s1 \o s2)[i]] = "queued"
    <3>1. CASE i <= Len(s1)
      BY <1>1, <2>2, <3>1
    <3>2. CASE ~(i <= Len(s1))
      <4>1. i - Len(s1) \in 1..Len(s2) /\ (s1 \o s2)[i] = s2[i - Len(s1)]
        BY <2>2, <3>2
      <4> QED  BY <1>1, <4>1
    <3> QED  BY <3>1, <3>2
  <2> QED  BY <2>2, <2>3
<1>2. /\ \A s \in Slot : AllIn(rtBuffers.store[s]) /\ AllIn(asyncBuffers.store[s])
      /\ AllIn(<<>>)
  <2>1. \A s \in Slot : rtBuffers.store[s] \in Seq(Event) /\ asyncBuffers.store[s] \in Seq(Event)
    BY DEF TypeOK, TripleBuffers
  <2>2. <<>> \in Seq(Event) /\ Len(<<>>) = 0
    OBVIOUS
  <2> QED  BY <2>1, <2>2, StoredAreQueued
<1>3. /\ AllIn(Back(rtBuffers)) /\ AllIn(Local(rtBuffers))
      /\ AllIn(Back(asyncBuffers)) /\ AllIn(Local(asyncBuffers))
      /\ AllIn(FrontIf(RtLocalLoop, rtBuffers)) /\ AllIn(FrontIf(~RtLocalLoop, rtBuffers))
      /\ AllIn(FrontIf(AsyncLocalLoop, asyncBuffers))
      /\ AllIn(FrontIf(~AsyncLocalLoop, asyncBuffers))
  <2>1. /\ rtBuffers.front \in Slot /\ rtBuffers.back \in Slot /\ rtBuffers.local \in Slot
        /\ asyncBuffers.front \in Slot /\ asyncBuffers.back \in Slot
        /\ asyncBuffers.local \in Slot
    BY DEF TypeOK, TripleBuffers
  <2> HIDE DEF AllIn
  <2> QED  BY <1>2, <2>1 DEF Front, Back, Local, FrontIf
<1>4. ASSUME NEW l \in Lane PROVE AllIn(LanePending(l))
  <2> HIDE DEF AllIn
  <2> QED  BY <1>1, <1>3 DEF Lane, LanePending
<1>5. ASSUME NEW l \in Lane, NEW i \in 1..Len(LanePending(l)) PROVE LanePending(l)[i] # e
  BY <1>4
<1>6. e \notin Ran
  BY DEF Ran
<1> QED  BY <1>5, <1>6 DEF Lanes!Fresh, Lanes!Pending

(* Which of the two loops a block is in. *)
LEMMA LocalLoopOf ==
  ASSUME TypeOK, OneBlockAtATime, NEW t \in RtThread, rtPc[t] \notin {"idle", "blocked"},
         NEW pc, RtGoto(t, pc)
  PROVE  /\ RtLocalLoop <=> rtPc[t] \in {"runLocal", "inLocal"}
         /\ RtLocalLoop' <=> pc \in {"runLocal", "inLocal"}
         /\ RtIsIn({"runBack", "inBack", "runLocal", "inLocal"}) <=>
              rtPc[t] \in {"runBack", "inBack", "runLocal", "inLocal"}
<1>1. \A u \in RtThread \ {t} : rtPc[u] \in {"idle", "blocked"} /\ rtPc'[u] = rtPc[u]
  BY DEF OneBlockAtATime, RtGoto, TypeOK
<1>2. rtPc'[t] = pc
  BY DEF RtGoto, TypeOK
<1> QED  BY <1>1, <1>2 DEF RtLocalLoop, RtIsIn

LEMMA RtLanesSame ==
  ASSUME UNCHANGED rtBuffers, RtLocalLoop' <=> RtLocalLoop
  PROVE  /\ LanePending("rtIn")' = LanePending("rtIn")
         /\ LanePending("rtSelf")' = LanePending("rtSelf")
BY DEF LanePending, FrontIf

LEMMA AsyncLanesSame ==
  ASSUME UNCHANGED asyncBuffers, AsyncLocalLoop' <=> AsyncLocalLoop
  PROVE  /\ LanePending("asyncIn")' = LanePending("asyncIn")
         /\ LanePending("asyncSelf")' = LanePending("asyncSelf")
BY DEF LanePending, FrontIf

-----------------------------------------------------------------------------
(***************************************************************************)
(* Every step of the processor is a step of one lane or of none.           *)
(***************************************************************************)
LanesInv ==
  /\ TypeOK
  /\ OneBlockAtATime
  /\ PushesGoToTheBack
  /\ ThreadInv
  /\ DrainInv
  /\ AsyncInv
  /\ EventInv
  /\ RtFrontInv

(* The lanes of the RT thread, where its blocks move the buffers around. *)
LEMMA RtLanesMove ==
  ASSUME LanesInv, TypeOK', NEW t \in RtThread,
         RtFlipBack(t) \/ RtProcessSinks(t) \/ RtFlipLocal(t) \/ RtEndLocal(t)
  PROVE  /\ LanePending("rtIn")' = LanePending("rtIn")
         /\ LanePending("rtSelf")' = LanePending("rtSelf")
<1>0. /\ TypeOK /\ OneBlockAtATime /\ RtFrontInv
      /\ rtBuffers \in TripleBuffers /\ Bounded(rtBuffers)
      /\ rtBuffers' \in TripleBuffers
      /\ Front(rtBuffers) \in Seq(Event) /\ Back(rtBuffers) \in Seq(Event)
      /\ Local(rtBuffers) \in Seq(Event) /\ <<>> \in Seq(Event)
  BY DequeTypes DEF LanesInv, TypeOK
<1>1. Front(rtBuffers) = <<>>
  <2>1. CASE RtProcessSinks(t) \/ RtEndLocal(t)
    BY <2>1 DEF RtProcessSinks, RtEndLocal
  <2>2. CASE RtFlipBack(t) \/ RtFlipLocal(t)
    BY <1>0, <2>2, LocalLoopOf DEF RtFlipBack, RtFlipLocal, RtFrontInv
  <2> QED  BY <2>1, <2>2
<1>2. LanePending("rtIn") = Back(rtBuffers) /\ LanePending("rtSelf") = Local(rtBuffers)
  BY <1>0, <1>1, NoFront DEF LanePending
<1>3. CASE RtProcessSinks(t) \/ RtEndLocal(t)
  <2>1. rtBuffers' = rtBuffers
    BY <1>0, <1>1, <1>3, ClearEmptyFront DEF RtProcessSinks, RtEndLocal
  <2>2. LanePending("rtIn")' = Back(rtBuffers) /\ LanePending("rtSelf")' = Local(rtBuffers)
    BY <1>0, <1>1, <2>1, NoFront DEF LanePending
  <2> QED  BY <1>2, <2>2
<1>4. CASE RtFlipBack(t)
  <2>1. ~RtLocalLoop'
    BY <1>0, <1>4, LocalLoopOf DEF RtFlipBack
  <2>2. CASE rtBuffers' = rtBuffers
    <3>1. LanePending("rtIn")' = Back(rtBuffers) /\ LanePending("rtSelf")' = Local(rtBuffers)
      BY <1>0, <1>1, <2>2, NoFront DEF LanePending
    <3> QED  BY <1>2, <3>1
  <2>3. CASE rtBuffers' = FlipBack(rtBuffers)
    <3>1. /\ Front(rtBuffers') = Back(rtBuffers)
          /\ Back(rtBuffers') = <<>>
          /\ Local(rtBuffers') = Local(rtBuffers)
      BY <1>0, <1>1, <2>3, FlipBackType DEF Front, Back, Local
    <3>2. LanePending("rtSelf")' = Local(rtBuffers')
      BY <1>0, <2>1, <3>1, NoFront DEF LanePending
    <3>3. LanePending("rtIn")' = Front(rtBuffers') \o Back(rtBuffers')
      BY <2>1 DEF LanePending, FrontIf
    <3> QED  BY <1>0, <1>2, <3>1, <3>2, <3>3, ConcatEmptySeq
  <2> QED  BY <1>4, <2>2, <2>3 DEF RtFlipBack
<1>5. CASE RtFlipLocal(t)
  <2>1. RtLocalLoop'
    BY <1>0, <1>5, LocalLoopOf DEF RtFlipLocal
  <2>2. /\ Front(rtBuffers') = Local(rtBuffers)
        /\ Local(rtBuffers') = <<>>
        /\ Back(rtBuffers') = Back(rtBuffers)
    BY <1>0, <1>1, <1>5, FlipLocalType DEF RtFlipLocal, Front, Back, Local
  <2>3. LanePending("rtIn")' = Back(rtBuffers')
    BY <1>0, <2>1, <2>2, NoFront DEF LanePending
  <2>4. LanePending("rtSelf")' = Front(rtBuffers') \o Local(rtBuffers')
    BY <2>1 DEF LanePending, FrontIf
  <2> QED  BY <1>0, <1>2, <2>2, <2>3, <2>4, ConcatEmptySeq
<1> QED  BY <1>3, <1>4, <1>5

(* The lanes of the async thread, where the hand-off and its own loop move *)
(* the buffers around.                                                     *)
LEMMA AsyncLanesMove ==
  ASSUME LanesInv, TypeOK',
         \/ \E t \in RtThread : RtHandoff(t)
         \/ AsyncEndLoop \/ AsyncClearBack \/ AsyncClearLocal
  PROVE  /\ LanePending("asyncIn")' = LanePending("asyncIn")
         /\ LanePending("asyncSelf")' = LanePending("asyncSelf")
<1>0. /\ TypeOK /\ AsyncInv
      /\ asyncBuffers \in TripleBuffers /\ Bounded(asyncBuffers)
      /\ asyncBuffers' \in TripleBuffers
      /\ Front(asyncBuffers) \in Seq(Event) /\ Back(asyncBuffers) \in Seq(Event)
      /\ Local(asyncBuffers) \in Seq(Event) /\ <<>> \in Seq(Event)
  BY DequeTypes DEF LanesInv, TypeOK
<1>1. ASSUME Front(asyncBuffers) = <<>>
      PROVE  /\ LanePending("asyncIn") = Back(asyncBuffers)
             /\ LanePending("asyncSelf") = Local(asyncBuffers)
  BY <1>0, <1>1, NoFront DEF LanePending
<1>2. ASSUME NEW t \in RtThread, RtHandoff(t)
      PROVE  /\ LanePending("asyncIn")' = LanePending("asyncIn")
             /\ LanePending("asyncSelf")' = LanePending("asyncSelf")
  <2>1. CASE UNCHANGED <<asyncBuffers, asyncPc>>
    BY <2>1, AsyncLanesSame DEF AsyncLocalLoop
  <2>2. CASE /\ asyncMutex = "none" /\ asyncRequestFlip
             /\ asyncBuffers' = FlipBack(asyncBuffers)
             /\ asyncPc' = Notified(asyncPc)
    <3>1. asyncPc \notin AsyncLocked /\ Front(asyncBuffers) = <<>>
      BY <1>0, <2>2 DEF AsyncInv, AsyncLocked, AsyncLocal
    <3>2. ~AsyncLocalLoop'
      BY <2>2, <3>1 DEF AsyncLocalLoop, Notified, AsyncLocked
    <3>3. /\ Front(asyncBuffers') = Back(asyncBuffers)
          /\ Back(asyncBuffers') = <<>>
          /\ Local(asyncBuffers') = Local(asyncBuffers)
      BY <1>0, <2>2, <3>1, FlipBackType DEF Front, Back, Local
    <3>4. LanePending("asyncSelf")' = Local(asyncBuffers')
      BY <1>0, <3>2, <3>3, NoFront DEF LanePending
    <3>5. LanePending("asyncIn")' = Front(asyncBuffers') \o Back(asyncBuffers')
      BY <3>2 DEF LanePending, FrontIf
    <3> QED  BY <1>0, <1>1, <3>1, <3>3, <3>4, <3>5, ConcatEmptySeq
  <2> QED  BY <1>2, <2>1, <2>2 DEF RtHandoff
<1>3. CASE AsyncEndLoop
  <2>1. UNCHANGED asyncBuffers /\ (AsyncLocalLoop' <=> AsyncLocalLoop)
    BY <1>3 DEF AsyncEndLoop, AsyncAt, AsyncGoto, AsyncLocalLoop
  <2> QED  BY <2>1, AsyncLanesSame
<1>4. CASE AsyncClearBack
  <2>1. Front(asyncBuffers) = <<>>
    BY <1>0, <1>4 DEF AsyncClearBack, AsyncAt, AsyncInv
  <2>2. asyncBuffers' = FlipLocal(asyncBuffers) /\ AsyncLocalLoop'
    BY <1>0, <1>4, <2>1, ClearEmptyFront DEF AsyncClearBack, AsyncGoto, AsyncLocalLoop
  <2>3. /\ Front(asyncBuffers') = Local(asyncBuffers)
        /\ Local(asyncBuffers') = <<>>
        /\ Back(asyncBuffers') = Back(asyncBuffers)
    BY <1>0, <2>1, <2>2, FlipLocalType DEF Front, Back, Local
  <2>4. LanePending("asyncIn")' = Back(asyncBuffers')
    BY <1>0, <2>2, <2>3, NoFront DEF LanePending
  <2>5. LanePending("asyncSelf")' = Front(asyncBuffers') \o Local(asyncBuffers')
    BY <2>2 DEF LanePending, FrontIf
  <2> QED  BY <1>0, <1>1, <2>1, <2>3, <2>4, <2>5, ConcatEmptySeq
<1>5. CASE AsyncClearLocal
  <2>1. Front(asyncBuffers) = <<>>
    BY <1>0, <1>5 DEF AsyncClearLocal, AsyncAt, AsyncInv
  <2>2. asyncBuffers' = asyncBuffers
    BY <1>0, <1>5, <2>1, ClearEmptyFront DEF AsyncClearLocal
  <2>3. LanePending("asyncIn")' = Back(asyncBuffers) /\ LanePending("asyncSelf")' = Local(asyncBuffers)
    BY <1>0, <2>1, <2>2, NoFront DEF LanePending
  <2> QED  BY <1>1, <2>1, <2>3
<1> QED  BY <1>2, <1>3, <1>4, <1>5

(* What the operations of the triple buffer do to the three deques. *)
LEMMA PushedDeques ==
  ASSUME NEW b \in TripleBuffers, Bounded(b), Distinct(b), NEW e \in Event
  PROVE  /\ Front(PushAt(b, b.back, e)) = Front(b)
         /\ Back(PushAt(b, b.back, e)) = DequePush(Back(b), e)
         /\ Local(PushAt(b, b.back, e)) = Local(b)
         /\ Front(PushAt(b, b.local, e)) = Front(b)
         /\ Back(PushAt(b, b.local, e)) = Back(b)
         /\ Local(PushAt(b, b.local, e)) = DequePush(Local(b), e)
BY DEF PushAt, Front, Back, Local, Distinct, TripleBuffers

LEMMA PoppedDeques ==
  ASSUME NEW b \in TripleBuffers, Bounded(b), Distinct(b)
  PROVE  /\ Front(PopFront(b)) = Tail(Front(b))
         /\ Back(PopFront(b)) = Back(b)
         /\ Local(PopFront(b)) = Local(b)
BY DEF PopFront, Front, Back, Local, Distinct, TripleBuffers

LEMMA LanesStep ==
  ASSUME ~UserAsync, LanesInv, TypeOK', [Next]_vars
  PROVE  [Lanes!Next]_(Lanes!vars)
<1> USE DEF userVars, rtVars, asyncVars, lockVars
<1>0. /\ TypeOK /\ OneBlockAtATime /\ PushesGoToTheBack /\ AsyncInv /\ StoreInv /\ PushInv
      /\ rtBuffers \in TripleBuffers /\ Bounded(rtBuffers) /\ Distinct(rtBuffers)
      /\ asyncBuffers \in TripleBuffers /\ Bounded(asyncBuffers) /\ Distinct(asyncBuffers)
  BY DEF LanesInv, TypeOK, PushesGoToTheBack, DrainInv, EventInv
<1>1. /\ Back(rtBuffers) \in Seq(Event) /\ Len(Back(rtBuffers)) <= QueueSize
      /\ Local(rtBuffers) \in Seq(Event) /\ Len(Local(rtBuffers)) <= QueueSize
      /\ Back(asyncBuffers) \in Seq(Event) /\ Len(Back(asyncBuffers)) <= QueueSize
      /\ Local(asyncBuffers) \in Seq(Event) /\ Len(Local(asyncBuffers)) <= QueueSize
      /\ FrontIf(RtLocalLoop, rtBuffers) \in Seq(Event)
      /\ FrontIf(~RtLocalLoop, rtBuffers) \in Seq(Event)
      /\ FrontIf(AsyncLocalLoop, asyncBuffers) \in Seq(Event)
      /\ FrontIf(~AsyncLocalLoop, asyncBuffers) \in Seq(Event)
  BY <1>0, DequeTypes, FrontIfType
<1>2. CASE /\ UNCHANGED <<rtBuffers, asyncBuffers>> /\ Ran' = Ran
           /\ RtLocalLoop' <=> RtLocalLoop
           /\ AsyncLocalLoop' <=> AsyncLocalLoop
  BY <1>2, RtLanesSame, AsyncLanesSame, LanesStutter DEF Lane
<1>3. ASSUME NEW p \in Pusher, NEW e \in Event, LockRtBack(p, e) \/ LockAsyncLocal(p, e)
      PROVE  [Lanes!Next]_(Lanes!vars)
  <2>1. /\ UNCHANGED <<rtBuffers, asyncBuffers, rtPc, asyncPc>>
        /\ fate[e] = "new" /\ fate' = [fate EXCEPT ![e] = "pushing"]
    BY <1>3 DEF LockRtBack, LockAsyncLocal
  <2>2. Ran' = Ran
    BY <1>0, <2>1 DEF Ran, TypeOK
  <2> QED  BY <1>2, <2>1, <2>2 DEF RtLocalLoop, RtIsIn, AsyncLocalLoop
<1>4. ASSUME NEW e \in Event, fate[e] \in {"new", "pushing"},
             rtBuffers' = PushAt(rtBuffers, rtBuffers.back, e),
             fate' = FateOfPush(rtBuffers, rtBuffers.back, e),
             UNCHANGED <<asyncBuffers, rtPc, asyncPc>>
      PROVE  Lanes!Next
  <2>1. Ran' = Ran /\ Lanes!Fresh(e)
    BY <1>0, <1>4, RtPushEffect, FreshEvent DEF TripleBuffers
  <2>2. /\ RtLocalLoop' <=> RtLocalLoop
        /\ AsyncLocalLoop' <=> AsyncLocalLoop
    BY <1>4 DEF RtLocalLoop, RtIsIn, AsyncLocalLoop
  <2>3. /\ Front(rtBuffers') = Front(rtBuffers) /\ Local(rtBuffers') = Local(rtBuffers)
        /\ Back(rtBuffers') = DequePush(Back(rtBuffers), e)
    BY <1>0, <1>4, PushedDeques
  <2>4. /\ LanePending("rtIn") = FrontIf(~RtLocalLoop, rtBuffers) \o Back(rtBuffers)
        /\ LanePending("rtIn")' =
             FrontIf(~RtLocalLoop, rtBuffers) \o DequePush(Back(rtBuffers), e)
        /\ LanePending("rtSelf")' = LanePending("rtSelf")
    BY <2>2, <2>3 DEF LanePending, FrontIf
  <2>5. \A m \in Lane \ {"rtIn"} : LanePending(m)' = LanePending(m)
    BY <1>4, <2>2, <2>4, AsyncLanesSame DEF Lane
  <2> QED  BY <1>1, <2>1, <2>4, <2>5, LanesPush DEF Lane
<1>5. ASSUME NEW p \in Pusher, PushRt(p) PROVE Lanes!Next
  <2>1. pushing[p].queue = "rt" /\ pushing[p].slot = rtBuffers.back
    BY <1>0, <1>5 DEF PushRt, PushesGoToTheBack
  <2>2. pushing[p].event \in Event /\ fate[pushing[p].event] = "pushing"
    BY <1>0, <2>1, QueuedPush DEF PushInv, Pushed
  <2> QED  BY <1>4, <1>5, <2>1, <2>2 DEF PushRt
<1>6. ASSUME NEW e \in Event, fate[e] \in {"new", "pushing"},
             asyncBuffers' = PushAt(asyncBuffers, asyncBuffers.local, e),
             fate' = FateOfPush(asyncBuffers, asyncBuffers.local, e),
             UNCHANGED <<rtBuffers, rtPc, asyncPc>>
      PROVE  Lanes!Next
  <2>1. Ran' = Ran /\ Lanes!Fresh(e)
    BY <1>0, <1>6, AsyncPushEffect, FreshEvent DEF TripleBuffers
  <2>2. /\ RtLocalLoop' <=> RtLocalLoop
        /\ AsyncLocalLoop' <=> AsyncLocalLoop
    BY <1>6 DEF RtLocalLoop, RtIsIn, AsyncLocalLoop
  <2>3. /\ Front(asyncBuffers') = Front(asyncBuffers)
        /\ Back(asyncBuffers') = Back(asyncBuffers)
        /\ Local(asyncBuffers') = DequePush(Local(asyncBuffers), e)
    BY <1>0, <1>6, PushedDeques
  <2>4. /\ LanePending("asyncSelf") = FrontIf(AsyncLocalLoop, asyncBuffers) \o Local(asyncBuffers)
        /\ LanePending("asyncSelf")' =
             FrontIf(AsyncLocalLoop, asyncBuffers) \o DequePush(Local(asyncBuffers), e)
        /\ LanePending("asyncIn")' = LanePending("asyncIn")
    BY <2>2, <2>3 DEF LanePending, FrontIf
  <2>5. \A m \in Lane \ {"asyncSelf"} : LanePending(m)' = LanePending(m)
    BY <1>6, <2>2, <2>4, RtLanesSame DEF Lane
  <2> QED  BY <1>1, <2>1, <2>4, <2>5, LanesPush DEF Lane
<1>7. ASSUME NEW p \in Pusher, PushAsync(p) PROVE Lanes!Next
  <2>1. /\ pushing[p].queue = "async" /\ p = "async"
        /\ pushing[p].slot = asyncBuffers.local
    BY <1>0, <1>7 DEF PushAsync, AsyncInv, Pusher
  <2>2. pushing[p].event \in Event /\ fate[pushing[p].event] = "pushing"
    BY <1>0, <2>1, QueuedPush DEF PushInv, Pushed
  <2> QED  BY <1>6, <1>7, <2>1, <2>2 DEF PushAsync
<1>8. ASSUME NEW t \in RtThread, NEW e \in Event, RtPushSelf(t, e) PROVE Lanes!Next
  <2>0. /\ fate[e] = "new" /\ UNCHANGED <<asyncBuffers, rtPc, asyncPc>>
        /\ rtBuffers' = PushAt(rtBuffers, rtBuffers.local, e)
        /\ fate' = FateOfPush(rtBuffers, rtBuffers.local, e)
    BY <1>8 DEF RtPushSelf
  <2>1. Ran' = Ran /\ Lanes!Fresh(e)
    BY <1>0, <2>0, RtPushEffect, FreshEvent DEF TripleBuffers
  <2>2. /\ RtLocalLoop' <=> RtLocalLoop
        /\ AsyncLocalLoop' <=> AsyncLocalLoop
    BY <2>0 DEF RtLocalLoop, RtIsIn, AsyncLocalLoop
  <2>3. /\ Front(rtBuffers') = Front(rtBuffers) /\ Back(rtBuffers') = Back(rtBuffers)
        /\ Local(rtBuffers') = DequePush(Local(rtBuffers), e)
    BY <1>0, <2>0, PushedDeques
  <2>4. /\ LanePending("rtSelf") = FrontIf(RtLocalLoop, rtBuffers) \o Local(rtBuffers)
        /\ LanePending("rtSelf")' =
             FrontIf(RtLocalLoop, rtBuffers) \o DequePush(Local(rtBuffers), e)
        /\ LanePending("rtIn")' = LanePending("rtIn")
    BY <2>2, <2>3 DEF LanePending, FrontIf
  <2>5. \A m \in Lane \ {"rtSelf"} : LanePending(m)' = LanePending(m)
    BY <2>0, <2>2, <2>4, AsyncLanesSame DEF Lane
  <2> QED  BY <1>1, <2>1, <2>4, <2>5, LanesPush DEF Lane
<1>9. ASSUME NEW t \in RtThread, NEW e \in Event, RtPushAsync(t, e) PROVE Lanes!Next
  <2>0. /\ fate[e] = "new" /\ UNCHANGED <<rtBuffers, rtPc, asyncPc>>
        /\ asyncBuffers' = PushAt(asyncBuffers, asyncBuffers.back, e)
        /\ fate' = FateOfPush(asyncBuffers, asyncBuffers.back, e)
    BY <1>9 DEF RtPushAsync
  <2>1. Ran' = Ran /\ Lanes!Fresh(e)
    BY <1>0, <2>0, AsyncPushEffect, FreshEvent DEF TripleBuffers
  <2>2. /\ RtLocalLoop' <=> RtLocalLoop
        /\ AsyncLocalLoop' <=> AsyncLocalLoop
    BY <2>0 DEF RtLocalLoop, RtIsIn, AsyncLocalLoop
  <2>3. /\ Front(asyncBuffers') = Front(asyncBuffers)
        /\ Local(asyncBuffers') = Local(asyncBuffers)
        /\ Back(asyncBuffers') = DequePush(Back(asyncBuffers), e)
    BY <1>0, <2>0, PushedDeques
  <2>4. /\ LanePending("asyncIn") = FrontIf(~AsyncLocalLoop, asyncBuffers) \o Back(asyncBuffers)
        /\ LanePending("asyncIn")' =
             FrontIf(~AsyncLocalLoop, asyncBuffers) \o DequePush(Back(asyncBuffers), e)
        /\ LanePending("asyncSelf")' = LanePending("asyncSelf")
    BY <2>2, <2>3 DEF LanePending, FrontIf
  <2>5. \A m \in Lane \ {"asyncIn"} : LanePending(m)' = LanePending(m)
    BY <2>0, <2>2, <2>4, RtLanesSame DEF Lane
  <2> QED  BY <1>1, <2>1, <2>4, <2>5, LanesPush DEF Lane
<1>10. ASSUME NEW t \in RtThread, RtExecute(t) PROVE Lanes!Next
  <2>0. /\ rtPc[t] \in {"runBack", "inBack", "runLocal", "inLocal"}
        /\ Front(rtBuffers) # <<>> /\ UNCHANGED <<asyncBuffers, asyncPc>>
        /\ rtBuffers' = PopFront(rtBuffers)
        /\ fate' = [fate EXCEPT ![Head(Front(rtBuffers))] = "ran"]
        /\ RtGoto(t, IF rtPc[t] \in {"runBack", "inBack"} THEN "inBack" ELSE "inLocal")
    BY <1>10 DEF RtExecute
  <2>1. Ran' = Ran \cup {Head(Front(rtBuffers))}
    BY <1>0, <2>0, RtPopEffect
  <2>2. /\ RtLocalLoop' <=> RtLocalLoop
        /\ AsyncLocalLoop' <=> AsyncLocalLoop
    BY <1>0, <2>0, LocalLoopOf DEF AsyncLocalLoop
  <2>3. /\ Front(rtBuffers') = Tail(Front(rtBuffers))
        /\ Back(rtBuffers') = Back(rtBuffers) /\ Local(rtBuffers') = Local(rtBuffers)
    BY <1>0, <2>0, PoppedDeques
  <2>4. Front(rtBuffers) \in Seq(Event)
    BY <1>0, DequeTypes
  <2>5. /\ LanePending("asyncIn")' = LanePending("asyncIn")
        /\ LanePending("asyncSelf")' = LanePending("asyncSelf")
    BY <2>0, <2>2, AsyncLanesSame
  <2>6. CASE RtLocalLoop
    <3>1. /\ LanePending("rtSelf") = Front(rtBuffers) \o Local(rtBuffers)
          /\ LanePending("rtSelf")' = Tail(Front(rtBuffers)) \o Local(rtBuffers)
          /\ LanePending("rtIn")' = LanePending("rtIn")
      BY <2>2, <2>3, <2>6 DEF LanePending, FrontIf
    <3>2. \A m \in Lane \ {"rtSelf"} : LanePending(m)' = LanePending(m)
      BY <2>5, <3>1 DEF Lane
    <3> QED  BY <1>1, <2>0, <2>1, <2>4, <3>1, <3>2, LanesExecute DEF Lane
  <2>7. CASE ~RtLocalLoop
    <3>1. /\ LanePending("rtIn") = Front(rtBuffers) \o Back(rtBuffers)
          /\ LanePending("rtIn")' = Tail(Front(rtBuffers)) \o Back(rtBuffers)
          /\ LanePending("rtSelf")' = LanePending("rtSelf")
      BY <2>2, <2>3, <2>7 DEF LanePending, FrontIf
    <3>2. \A m \in Lane \ {"rtIn"} : LanePending(m)' = LanePending(m)
      BY <2>5, <3>1 DEF Lane
    <3> QED  BY <1>1, <2>0, <2>1, <2>4, <3>1, <3>2, LanesExecute DEF Lane
  <2> QED  BY <2>6, <2>7
<1>11. CASE AsyncExecute
  <2>0. /\ asyncPc \in {"runBack", "inBack", "runLocal", "inLocal"}
        /\ Front(asyncBuffers) # <<>> /\ UNCHANGED <<rtBuffers, rtPc>>
        /\ asyncBuffers' = PopFront(asyncBuffers)
        /\ fate' = [fate EXCEPT ![Head(Front(asyncBuffers))] = "ran"]
        /\ asyncPc' = IF asyncPc \in {"runBack", "inBack"} THEN "inBack" ELSE "inLocal"
    BY <1>11 DEF AsyncExecute, AsyncAt, AsyncGoto, AsyncUnchanged
  <2>1. Ran' = Ran \cup {Head(Front(asyncBuffers))}
    BY <1>0, <2>0, AsyncPopEffect
  <2>2. /\ RtLocalLoop' <=> RtLocalLoop
        /\ AsyncLocalLoop' <=> AsyncLocalLoop
    BY <2>0 DEF RtLocalLoop, RtIsIn, AsyncLocalLoop
  <2>3. /\ Front(asyncBuffers') = Tail(Front(asyncBuffers))
        /\ Back(asyncBuffers') = Back(asyncBuffers)
        /\ Local(asyncBuffers') = Local(asyncBuffers)
    BY <1>0, <2>0, PoppedDeques
  <2>4. Front(asyncBuffers) \in Seq(Event)
    BY <1>0, DequeTypes
  <2>5. /\ LanePending("rtIn")' = LanePending("rtIn")
        /\ LanePending("rtSelf")' = LanePending("rtSelf")
    BY <2>0, <2>2, RtLanesSame
  <2>6. CASE AsyncLocalLoop
    <3>1. /\ LanePending("asyncSelf") = Front(asyncBuffers) \o Local(asyncBuffers)
          /\ LanePending("asyncSelf")' = Tail(Front(asyncBuffers)) \o Local(asyncBuffers)
          /\ LanePending("asyncIn")' = LanePending("asyncIn")
      BY <2>2, <2>3, <2>6 DEF LanePending, FrontIf
    <3>2. \A m \in Lane \ {"asyncSelf"} : LanePending(m)' = LanePending(m)
      BY <2>5, <3>1 DEF Lane
    <3> QED  BY <1>1, <2>0, <2>1, <2>4, <3>1, <3>2, LanesExecute DEF Lane
  <2>7. CASE ~AsyncLocalLoop
    <3>1. /\ LanePending("asyncIn") = Front(asyncBuffers) \o Back(asyncBuffers)
          /\ LanePending("asyncIn")' = Tail(Front(asyncBuffers)) \o Back(asyncBuffers)
          /\ LanePending("asyncSelf")' = LanePending("asyncSelf")
      BY <2>2, <2>3, <2>7 DEF LanePending, FrontIf
    <3>2. \A m \in Lane \ {"asyncIn"} : LanePending(m)' = LanePending(m)
      BY <2>5, <3>1 DEF Lane
    <3> QED  BY <1>1, <2>0, <2>1, <2>4, <3>1, <3>2, LanesExecute DEF Lane
  <2> QED  BY <2>6, <2>7
<1>12. ASSUME NEW t \in RtThread,
              RtFlipBack(t) \/ RtProcessSinks(t) \/ RtFlipLocal(t) \/ RtEndLocal(t)
       PROVE  UNCHANGED Lanes!vars
  <2>1. UNCHANGED <<asyncBuffers, asyncPc, fate>>
    BY <1>12 DEF RtFlipBack, RtProcessSinks, RtFlipLocal, RtEndLocal
  <2>2. /\ LanePending("asyncIn")' = LanePending("asyncIn")
        /\ LanePending("asyncSelf")' = LanePending("asyncSelf")
        /\ Ran' = Ran
    BY <2>1, AsyncLanesSame DEF AsyncLocalLoop, Ran
  <2> QED  BY <1>12, <2>2, RtLanesMove, LanesStutter DEF Lane
<1>13. ASSUME NEW t \in RtThread, RtRequest(t) \/ RtUnblock(t) \/ RtHandoff(t)
       PROVE  UNCHANGED Lanes!vars
  <2>1. /\ UNCHANGED <<rtBuffers, fate>>
        /\ rtPc[t] \notin {"runLocal", "inLocal"} /\ rtPc'[t] \notin {"runLocal", "inLocal"}
        /\ \A u \in RtThread \ {t} : rtPc'[u] = rtPc[u]
    BY <1>0, <1>13 DEF RtRequest, RtUnblock, RtHandoff, RtGoto, TypeOK
  <2>2. RtLocalLoop' <=> RtLocalLoop
    BY <2>1 DEF RtLocalLoop, RtIsIn
  <2>3. /\ LanePending("rtIn")' = LanePending("rtIn")
        /\ LanePending("rtSelf")' = LanePending("rtSelf")
        /\ Ran' = Ran
    BY <2>1, <2>2, RtLanesSame DEF Ran
  <2>4. /\ LanePending("asyncIn")' = LanePending("asyncIn")
        /\ LanePending("asyncSelf")' = LanePending("asyncSelf")
    <3>1. CASE RtRequest(t) \/ RtUnblock(t)
      BY <3>1, AsyncLanesSame DEF RtRequest, RtUnblock, AsyncLocalLoop
    <3>2. CASE RtHandoff(t)
      BY <3>2, AsyncLanesMove
    <3> QED  BY <1>13, <3>1, <3>2
  <2> QED  BY <2>3, <2>4, LanesStutter DEF Lane
<1>14. CASE AsyncEndLoop \/ AsyncClearBack \/ AsyncClearLocal
  <2>1. UNCHANGED <<rtBuffers, rtPc>>
    BY <1>14 DEF AsyncEndLoop, AsyncClearBack, AsyncClearLocal, AsyncUnchanged
  <2>2. Ran' = Ran
    <3>1. CASE AsyncEndLoop
      BY <3>1 DEF AsyncEndLoop, Ran
    <3>2. CASE AsyncClearBack \/ AsyncClearLocal
      <4>1. Front(asyncBuffers) = <<>>
        BY <1>0, <3>2 DEF AsyncClearBack, AsyncClearLocal, AsyncAt, AsyncInv
      <4>2. FateOfClear = fate
        BY <1>0, <4>1 DEF FateOfClear, TypeOK
      <4> QED  BY <3>2, <4>2 DEF AsyncClearBack, AsyncClearLocal, Ran
    <3> QED  BY <1>14, <3>1, <3>2
  <2>3. /\ LanePending("rtIn")' = LanePending("rtIn")
        /\ LanePending("rtSelf")' = LanePending("rtSelf")
    BY <2>1, RtLanesSame DEF RtLocalLoop, RtIsIn
  <2>4. UNCHANGED Lanes!vars
    BY <1>14, <2>2, <2>3, AsyncLanesMove, LanesStutter DEF Lane
  <2> QED  BY <2>4
<1>15. CASE AsyncTest \/ AsyncLock \/ AsyncCheck \/ AsyncRelock \/ AsyncSpuriousWake
  <2>1. UNCHANGED <<rtBuffers, asyncBuffers, rtPc, fate>>
    BY <1>15 DEF AsyncTest, AsyncLock, AsyncCheck, AsyncRelock, AsyncSpuriousWake,
                 AsyncUnchanged
  <2>2. AsyncLocalLoop' <=> AsyncLocalLoop
    BY <1>15 DEF AsyncTest, AsyncLock, AsyncCheck, AsyncRelock, AsyncSpuriousWake,
                 AsyncAt, AsyncGoto, AsyncLocalLoop
  <2> QED  BY <1>2, <2>1, <2>2 DEF Ran, RtLocalLoop, RtIsIn
<1>16. CASE Start \/ Stop \/ UserStep
  <2>1. UNCHANGED <<rtBuffers, asyncBuffers, rtPc, fate>>
    BY <1>16 DEF Start, Stop, UserStep, StartDevice, StopDevice, StartReturn, StopAsync,
                 Join, UserUnchanged
  <2>2. AsyncLocalLoop' <=> AsyncLocalLoop
    BY <1>16 DEF Start, Stop, UserStep, StartDevice, StopDevice, StartReturn, StopAsync,
                 Join, Notified, UserIdle, AsyncLocalLoop, LanesInv, ThreadInv
  <2> QED  BY <1>2, <2>1, <2>2 DEF Ran, RtLocalLoop, RtIsIn
<1>17. CASE UNCHANGED vars
  BY <1>2, <1>17 DEF vars, Ran, RtLocalLoop, RtIsIn, AsyncLocalLoop
<1> QED
  BY <1>3, <1>5, <1>7, <1>8, <1>9, <1>10, <1>11, <1>12, <1>13, <1>14, <1>15, <1>16, <1>17
  DEF Next, LockStep, PushStep, BlockStep, RtPush, AsyncStep

LEMMA LanesInit == Init => Lanes!Init
<1> SUFFICES ASSUME Init PROVE Lanes!Init
  OBVIOUS
<1>1. Ran = {}
  BY DEF Init, Ran
<1>2. ASSUME NEW l \in Lane PROVE LanePending(l) = <<>>
  <2>1. /\ Front(rtBuffers) = <<>> /\ Back(rtBuffers) = <<>> /\ Local(rtBuffers) = <<>>
        /\ Front(asyncBuffers) = <<>> /\ Back(asyncBuffers) = <<>>
        /\ Local(asyncBuffers) = <<>>
    BY DEF Init, InitBuffers, Front, Back, Local, Slot
  <2>2. <<>> \o <<>> = <<>>
    BY EmptySeq, ConcatEmptySeq
  <2> QED  BY <2>1, <2>2 DEF Lane, LanePending, FrontIf
<1> QED  BY <1>1, <1>2 DEF Lanes!Init

(* The processor implements the four lanes, for any number of threads,     *)
(* devices and events and any size of the deques: events are executed at   *)
(* most once, in the order of the pushes of their lane, and an event is    *)
(* lost only to a push into a full deque.                                  *)
THEOREM LanesImplemented ==
  ASSUME ~UserAsync
  PROVE  Spec => LanesSpec
<1>1. LanesInv /\ TypeOK' /\ [Next]_vars => [Lanes!Next]_(Lanes!vars)
  BY LanesStep
<1>2. Spec => []LanesInv
  <2>1. TypeOK /\ OneBlockAtATime /\ PushesGoToTheBack /\ ThreadInv /\ DrainInv
          /\ AsyncInv /\ EventInv /\ RtFrontInv => LanesInv
    BY DEF LanesInv
  <2> QED
    BY <2>1, TypeCorrect, BlocksSerialised, PushesExcluded, ThreadInvAlways, DrainInvAlways,
       AsyncInvAlways, EventInvAlways, RtFrontInvAlways, PTL
<1> QED
  BY <1>1, <1>2, LanesInit, TypeCorrect, PTL DEF Spec, LanesSpec, Lanes!Spec
=============================================================================
