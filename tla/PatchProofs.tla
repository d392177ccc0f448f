----------------------------- MODULE PatchProofs -----------------------------
(***************************************************************************)
(* Proofs about Patch, for any nodes, places and table of the patcher:     *)
(* what becomes of the position of a node, what the patcher and the        *)
(* sockets agree on, and where the audio thread goes while the user's      *)
(* thread connects and destroys nodes.                                     *)
(*                                                                         *)
(* The invariant has four parts.  ParamInv is about the positions.         *)
(* WorldInv is about what only one operation at a time changes: the nodes, *)
(* the patcher and what the sockets are asked to read.  ThreadInv is about *)
(* the nodes the audio thread is inside, and ReadsInv about what the       *)
(* sockets read meanwhile.                                                 *)
(*                                                                         *)
(* That update () makes the patch of the definition needs, besides, that   *)
(* the links are Tidy, and goes turn by turn: the links up to the last one *)
(* that was tried are made as the definition says (Decided).               *)
(***************************************************************************)
EXTENDS Patch, Induction, SequenceTheorems, TLAPS

Frame(S) == [node : S, input : S]

Thread(S) == [ pc : {"idle", "inputs", "sockets", "force", "delete"},
               stack : Seq(Frame(S)), done : SUBSET S, src : S ]

Params == [Nodes -> [src : Int, dest : Int, changed : BOOLEAN]]

\* The state of the audio thread, whatever the nodes its stack is made of.
RtShape ==
    /\ \E S : rt \in Thread(S)
    /\ rt.pc \in {"inputs", "sockets", "force"} => rt.stack # <<>>

\* The parameter of a node that is not late agrees with what was asked, and has
\* been taken if the audio thread is inside the node.
Agrees(n) ==
    /\ param[n].src = asked[n]
    /\ ~ param[n].changed => param[n].dest = asked[n]
    /\ n \in Inside /\ n \in exists => ~ param[n].changed

Untouched(n) == n \notin exists => param[n] = NewParam /\ asked[n] = 0

ParamInv ==
    /\ RtShape
    /\ param \in Params /\ asked \in [Nodes -> Int]
    /\ exists \subseteq Nodes
    /\ \A n \in Nodes \ late : Agrees(n)
    /\ \A n \in Nodes : Untouched(n)

-----------------------------------------------------------------------------
(* The stack.                                                              *)

\* Going into a node adds it to those the thread is inside.
LEMMA Pushed ==
  ASSUME NEW S, NEW s \in Seq(Frame(S)), NEW n, NEW i
  PROVE  LET t == Append(s, [node |-> n, input |-> i])
         IN  /\ \E T : S \subseteq T /\ n \in T /\ i \in T /\ t \in Seq(Frame(T))
             /\ t # <<>>
             /\ \A k \in DOMAIN t : t[k].node = n \/ \E j \in DOMAIN s : t[k].node = s[j].node
<1> DEFINE T == S \cup {n, i}
           f == [node |-> n, input |-> i]
<1>1. s \in Seq(Frame(T)) /\ f \in Frame(T)
  <2>1. Frame(S) \subseteq Frame(T)
    BY DEF Frame
  <2>2. f \in Frame(T)
    BY DEF Frame
  <2> QED  BY <2>1, <2>2, SeqMonotonic
<1>2. Append(s, f) \in Seq(Frame(T)) /\ Append(s, f) # <<>>
  BY <1>1
<1>3. ASSUME NEW k \in DOMAIN Append(s, f)
      PROVE  Append(s, f)[k].node = n \/ \E j \in DOMAIN s : Append(s, f)[k].node = s[j].node
  <2>1. k \in 1 .. Len(s) + 1
    BY <1>1
  <2>2. CASE k = Len(s) + 1
    BY <2>2, <1>1
  <2>3. CASE k \in 1 .. Len(s)
    BY <2>3, <1>1
  <2> QED  BY <2>1, <2>2, <2>3
<1> QED  BY <1>2, <1>3

\* Coming to another input of the node on the top changes no node of the stack.
LEMMA Stepped ==
  ASSUME NEW S, NEW s \in Seq(Frame(S)), s # <<>>, NEW i
  PROVE  LET t == [s EXCEPT ![Len(s)].input = i]
         IN  /\ t \in Seq(Frame(S \cup {i}))
             /\ t # <<>>
             /\ DOMAIN t = DOMAIN s
             /\ \A k \in DOMAIN s : t[k].node = s[k].node
<1> DEFINE T == S \cup {i}
           e == [s[Len(s)] EXCEPT !.input = i]
<1>1. Len(s) \in 1 .. Len(s) /\ DOMAIN s = 1 .. Len(s) /\ Len(s) \in Nat
  OBVIOUS
<1>2. s[Len(s)] \in Frame(S)
  BY <1>1
<1>3. e \in Frame(T) /\ e.node = s[Len(s)].node
  BY <1>2 DEF Frame
<1>4. s \in Seq(Frame(T))
  <2>1. Frame(S) \subseteq Frame(T)
    BY DEF Frame
  <2> QED  BY <2>1, SeqMonotonic
<1> DEFINE t == [s EXCEPT ![Len(s)] = e]
<1>5. /\ t \in Seq(Frame(T)) /\ Len(t) = Len(s)
      /\ \A j \in 1 .. Len(s) : t[j] = IF j = Len(s) THEN e ELSE s[j]
  BY <1>1, <1>3, <1>4, ExceptSeq
<1>6. DOMAIN t = DOMAIN s /\ t # <<>>
  BY <1>1, <1>5
<1>7. \A k \in DOMAIN s : t[k].node = s[k].node
  BY <1>1, <1>3, <1>5
<1> QED  BY <1>5, <1>6, <1>7

\* Leaving a node takes one from the stack.
LEMMA Popped ==
  ASSUME NEW S, NEW s \in Seq(Frame(S)), s # <<>>
  PROVE  /\ Front(s) \in Seq(Frame(S))
         /\ \A k \in DOMAIN Front(s) : k \in DOMAIN s /\ Front(s)[k] = s[k]
  BY DEF Front

-----------------------------------------------------------------------------
(* The parameter.                                                          *)

\* update_in takes the position of one node, and leaves those of the others.
LEMMA TakenIn ==
  ASSUME ParamInv, NEW n \in Nodes
  PROVE  /\ ParamIn(n) \in Params
         /\ \A m \in Nodes \ {n} : ParamIn(n)[m] = param[m]
         /\ ParamIn(n)[n].src = param[n].src
         /\ ~ ParamIn(n)[n].changed
         /\ n \notin late => ParamIn(n)[n].dest = asked[n]
         /\ n \notin exists => ParamIn(n)[n] = NewParam
<1>1. param \in Params /\ param[n] \in [src : Int, dest : Int, changed : BOOLEAN]
  BY DEF ParamInv, Params
<1>2. n \notin late => Agrees(n)
  BY DEF ParamInv
<1>3. Untouched(n)
  BY DEF ParamInv
<1>4. CASE param[n].changed
  <2>1. /\ ParamIn(n) \in Params /\ \A m \in Nodes \ {n} : ParamIn(n)[m] = param[m]
        /\ ParamIn(n)[n].src = param[n].src /\ ParamIn(n)[n].dest = param[n].src
        /\ ~ ParamIn(n)[n].changed
    BY <1>1, <1>4 DEF ParamIn, Params
  <2>2. n \in exists
    BY <1>3, <1>4 DEF Untouched, NewParam
  <2> QED  BY <1>1, <1>2, <2>1, <2>2 DEF Params, Agrees
<1>5. CASE ~ param[n].changed
  BY <1>1, <1>2, <1>3, <1>5 DEF ParamIn, Agrees, Untouched
<1> QED  BY <1>4, <1>5

\* The nodes the thread is inside after it has pushed n.
LEMMA EnteredShape ==
  ASSUME RtShape, NEW S, NEW s \in Seq(Frame(S)), NEW n,
         \/ rt' = [rt EXCEPT !.pc = "inputs", !.done = @ \cup {n},
                             !.stack = Append(s, [node |-> n, input |-> 0])]
         \/ /\ rt.pc = "inputs"
            /\ rt' = [rt EXCEPT !.stack = Append(s, [node |-> n, input |-> 0])],
         \A k \in DOMAIN s : s[k].node \in Inside
  PROVE  RtShape' /\ Inside' \subseteq Inside \cup {n}
<1> DEFINE t == Append(s, [node |-> n, input |-> 0])
<1>1. PICK R : rt \in Thread(R)
  BY DEF RtShape
<1>2. PICK T : t \in Seq(Frame(T))
  BY Pushed
<1>3. t # <<>> /\ \A k \in DOMAIN t : t[k].node = n \/ \E j \in DOMAIN s : t[k].node = s[j].node
  BY Pushed
<1> DEFINE U == R \cup T \cup {n}
<1>4. t \in Seq(Frame(U))
  <2>1. Frame(T) \subseteq Frame(U)
    BY DEF Frame
  <2> QED  BY <1>2, <2>1, SeqMonotonic
<1>5. /\ rt' \in Thread(U) /\ rt'.stack = t /\ rt'.pc = "inputs"
  <2>1. \/ rt' = [rt EXCEPT !.pc = "inputs", !.done = @ \cup {n}, !.stack = t]
        \/ rt.pc = "inputs" /\ rt' = [rt EXCEPT !.stack = t]
    OBVIOUS
  <2> HIDE DEF t
  <2>2. R \subseteq U /\ n \in U /\ rt \in Thread(R)
    BY <1>1
  <2> HIDE DEF U
  <2>3. CASE rt' = [rt EXCEPT !.pc = "inputs", !.done = @ \cup {n}, !.stack = t]
    BY <1>4, <2>2, <2>3 DEF Thread
  <2>4. CASE rt.pc = "inputs" /\ rt' = [rt EXCEPT !.stack = t]
    BY <1>4, <2>2, <2>4 DEF Thread
  <2> QED  BY <2>1, <2>3, <2>4
<1> HIDE DEF t
<1>6. RtShape'
  <2> HIDE DEF U
  <2> QED  BY <1>3, <1>5 DEF RtShape
<1>7. Inside' \subseteq Inside \cup {n}
  BY <1>3, <1>5 DEF Inside
<1> QED  BY <1>6, <1>7

-----------------------------------------------------------------------------
(* The invariant.                                                          *)

\* The world begins with the output and the mixer at the center.
LEMMA ParamInit == Init => ParamInv
<1> SUFFICES ASSUME Init PROVE ParamInv
  OBVIOUS
<1>1. rt = [pc |-> "idle", stack |-> <<>>, done |-> {}, src |-> NoNode]
  BY DEF Init, Idle
<1>2. RtShape
  <2>1. rt \in Thread({NoNode})
    BY <1>1 DEF Thread
  <2> QED  BY <1>1, <2>1 DEF RtShape
<1>3. /\ exists = {Output, Mixer} /\ late = {}
      /\ param = [n \in Nodes |-> NewParam] /\ asked = [n \in Nodes |-> 0]
  BY DEF Init
<1>4. param \in Params /\ asked \in [Nodes -> Int] /\ exists \subseteq Nodes
  BY <1>3, WorldAssumption DEF NewParam, Params
<1>5. \A n \in Nodes : Agrees(n) /\ Untouched(n)
  BY <1>3 DEF Agrees, Untouched, NewParam
<1> QED  BY <1>2, <1>4, <1>5 DEF ParamInv

\* A step that only changes the connections and the list of nodes to delete.
LEMMA ParamUnchanged ==
  ASSUME ParamInv, UNCHANGED <<exists, param, asked, late>>,
         RtShape', Inside' \subseteq Inside
  PROVE  ParamInv'
<1>1. \A n \in Nodes \ late : Agrees(n)'
  BY DEF ParamInv, Agrees
<1>2. \A n \in Nodes : Untouched(n)'
  BY DEF ParamInv, Untouched
<1> QED  BY <1>1, <1>2 DEF ParamInv

\* A step of the user leaves the thread where it is.
LEMMA RtUnchanged ==
  ASSUME RtShape, rt' = rt
  PROVE  RtShape' /\ Inside' = Inside
  BY DEF RtShape, Inside, Thread, Frame

\* The nodes of a set are destroyed.
LEMMA ParamGone ==
  ASSUME ParamInv, NEW set, Gone(set), RtShape', Inside' \subseteq Inside
  PROVE  ParamInv'
<1>1. /\ exists' = exists \ set /\ late' = late \ set
      /\ param' = [n \in Nodes |-> IF n \in set THEN NewParam ELSE param[n]]
      /\ asked' = [n \in Nodes |-> IF n \in set THEN 0 ELSE asked[n]]
  BY DEF Gone
<1>2. param' \in Params /\ asked' \in [Nodes -> Int] /\ exists' \subseteq Nodes
  BY <1>1 DEF ParamInv, Params, NewParam
<1>3. ASSUME NEW n \in Nodes \ late' PROVE Agrees(n)'
  <2>1. CASE n \in set
    BY <1>1, <2>1 DEF Agrees, NewParam
  <2>2. CASE n \notin set
    <3>1. Agrees(n)
      BY <1>1, <2>2 DEF ParamInv
    <3> QED  BY <1>1, <2>2, <3>1 DEF Agrees
  <2> QED  BY <2>1, <2>2
<1>4. \A n \in Nodes : Untouched(n)'
  BY <1>1 DEF ParamInv, Untouched
<1> QED  BY <1>2, <1>3, <1>4 DEF ParamInv

\* update_in of a node, which the thread may go into at the same time.
LEMMA ParamTaken ==
  ASSUME ParamInv, NEW n \in Nodes, param' = ParamIn(n),
         UNCHANGED <<exists, asked, late>>, RtShape', Inside' \subseteq Inside \cup {n}
  PROVE  ParamInv'
<1>1. param' \in Params
  BY TakenIn
<1>2. ASSUME NEW m \in Nodes \ late' PROVE Agrees(m)'
  <2>1. Agrees(m)
    BY DEF ParamInv
  <2>2. CASE m = n
    BY <2>1, <2>2, TakenIn DEF Agrees
  <2>3. CASE m # n
    <3>1. param'[m] = param[m]
      BY <2>3, TakenIn
    <3> QED  BY <2>1, <2>3, <3>1 DEF Agrees
  <2> QED  BY <2>2, <2>3
<1>3. ASSUME NEW m \in Nodes PROVE Untouched(m)'
  <2>1. Untouched(m)
    BY DEF ParamInv
  <2>2. CASE m = n
    BY <2>1, <2>2, TakenIn DEF Untouched
  <2>3. CASE m # n
    BY <2>1, <2>3, TakenIn DEF Untouched
  <2> QED  BY <2>2, <2>3
<1> QED  BY <1>1, <1>2, <1>3 DEF ParamInv

-----------------------------------------------------------------------------
(* The user's thread.                                                      *)

\* A new node has been given its first position, and no block is inside it.
LEMMA ParamAdd ==
  ASSUME ParamInv, NEW n \in Users, NEW pos \in Places[n], Add(n, pos)
  PROVE  ParamInv'
<1>1. n \in Nodes /\ pos \in Int /\ n \notin exists /\ n \notin Inside
  BY WorldAssumption DEF Users, Add, Forgotten
<1>2. /\ exists' = exists \cup {n} /\ late' = late /\ rt' = rt
      /\ param' = [param EXCEPT ![n] = [src |-> pos, dest |-> 0, changed |-> TRUE]]
      /\ asked' = [asked EXCEPT ![n] = pos]
  BY DEF Add
<1>3. RtShape' /\ Inside' = Inside
  BY <1>2, RtUnchanged DEF ParamInv
<1>4. param' \in Params /\ asked' \in [Nodes -> Int] /\ exists' \subseteq Nodes
  BY <1>1, <1>2 DEF ParamInv, Params
<1>5. ASSUME NEW m \in Nodes \ late' PROVE Agrees(m)'
  <2>1. CASE m = n
    BY <1>1, <1>2, <1>3, <2>1 DEF Agrees, ParamInv, Params
  <2>2. CASE m # n
    <3>1. Agrees(m)
      BY <1>2 DEF ParamInv
    <3>2. param'[m] = param[m] /\ asked'[m] = asked[m]
      BY <1>2, <2>2 DEF ParamInv, Params
    <3> QED  BY <1>2, <1>3, <2>2, <3>1, <3>2 DEF Agrees
  <2> QED  BY <2>1, <2>2
<1>6. ASSUME NEW m \in Nodes PROVE Untouched(m)'
  BY <1>1, <1>2 DEF ParamInv, Params, Untouched
<1> QED  BY <1>3, <1>4, <1>5, <1>6 DEF ParamInv

\* A position set while a block is inside the node is late.
LEMMA ParamMove ==
  ASSUME ParamInv, NEW n \in Users, NEW pos \in Places[n], Move(n, pos)
  PROVE  ParamInv'
<1>1. n \in Nodes /\ pos \in Int /\ n \in exists
  BY WorldAssumption DEF Users, Move, Change, Held
<1>2. /\ exists' = exists /\ rt' = rt
      /\ late' = IF n \in Inside THEN late \cup {n} ELSE late \ {n}
      /\ param' = [param EXCEPT ![n].src = pos, ![n].changed = TRUE]
      /\ asked' = [asked EXCEPT ![n] = pos]
  BY DEF Move
<1>3. RtShape' /\ Inside' = Inside
  BY <1>2, RtUnchanged DEF ParamInv
<1>4. param[n] \in [src : Int, dest : Int, changed : BOOLEAN]
  BY <1>1 DEF ParamInv, Params
<1>5. /\ param' \in Params /\ \A m \in Nodes \ {n} : param'[m] = param[m]
      /\ param'[n].src = pos /\ param'[n].changed
  BY <1>1, <1>2, <1>4 DEF ParamInv, Params
<1>6. param' \in Params /\ asked' \in [Nodes -> Int] /\ exists' \subseteq Nodes
  BY <1>1, <1>2, <1>4, <1>5 DEF ParamInv, Params
<1>7. ASSUME NEW m \in Nodes \ late' PROVE Agrees(m)'
  <2>1. CASE m = n
    BY <1>1, <1>2, <1>3, <1>5, <2>1 DEF Agrees, ParamInv, Params
  <2>2. CASE m # n
    <3>1. Agrees(m)
      BY <1>2, <2>2 DEF ParamInv
    <3>2. param'[m] = param[m] /\ asked'[m] = asked[m]
      BY <1>2, <1>5, <2>2 DEF ParamInv, Params
    <3> QED  BY <1>2, <1>3, <2>2, <3>1, <3>2 DEF Agrees
  <2> QED  BY <2>1, <2>2
<1>8. ASSUME NEW m \in Nodes PROVE Untouched(m)'
  BY <1>1, <1>2, <1>5 DEF ParamInv, Params, Untouched
<1> QED  BY <1>3, <1>6, <1>7, <1>8 DEF ParamInv

\* The steps of the user's thread.
LEMMA ParamUser ==
  ASSUME ParamInv, UserNext
  PROVE  ParamInv'
<1>1. ASSUME NEW n \in Users, Activate(n) PROVE ParamInv'
  <2>1. n \in Nodes /\ param' = ParamIn(n) /\ UNCHANGED <<exists, asked, late>> /\ rt' = rt
    BY <1>1 DEF Users, Activate, ghosts
  <2> QED  BY <2>1, RtUnchanged, ParamTaken DEF ParamInv
<1>2. ASSUME NEW n \in Users, Deactivate(n) PROVE ParamInv'
  <2>1. UNCHANGED <<exists, param, asked, late>> /\ rt' = rt
    BY <1>2 DEF Deactivate
  <2> QED  BY <2>1, RtUnchanged, ParamUnchanged DEF ParamInv
<1>3. ASSUME NEW n \in Users, Delete(n) PROVE ParamInv'
  <2>1. rt' = rt /\ (Gone({n}) \/ UNCHANGED <<exists, param, asked, late>>)
    BY <1>3 DEF Delete
  <2> QED  BY <2>1, RtUnchanged, ParamGone, ParamUnchanged DEF ParamInv
<1>4. CASE UpdatePatch
  <2>1. UNCHANGED <<exists, param, asked, late>> /\ rt' = rt
    BY <1>4 DEF UpdatePatch
  <2> QED  BY <2>1, RtUnchanged, ParamUnchanged DEF ParamInv
<1> QED  BY <1>1, <1>2, <1>3, <1>4, ParamAdd, ParamMove DEF UserNext

-----------------------------------------------------------------------------
(* The audio thread.                                                       *)

\* The node on the top of the stack is one that the thread is inside.
LEMMA TopInside ==
  ASSUME RtShape, rt.pc \in {"inputs", "sockets", "force"}
  PROVE  Top.node \in Inside
<1>1. PICK S : rt \in Thread(S)
  BY DEF RtShape
<1>2. rt.stack \in Seq(Frame(S)) /\ rt.stack # <<>>
  BY <1>1 DEF Thread, RtShape
<1> QED  BY <1>2 DEF Top, Inside

\* A block begins with update_in of the output.
LEMMA ParamBegin ==
  ASSUME ParamInv, RtBegin
  PROVE  ParamInv'
<1>1. /\ param' = ParamIn(Output) /\ UNCHANGED <<exists, asked, late>> /\ Output \in Nodes
      /\ rt' = [rt EXCEPT !.pc = "inputs", !.done = @ \cup {Output},
                          !.stack = Append(<<>>, [node |-> Output, input |-> 0])]
  BY WorldAssumption DEF RtBegin, Entered, ghosts
<1> DEFINE empty == <<>>
<1>2. empty \in Seq(Frame({})) /\ \A k \in DOMAIN empty : empty[k].node \in Inside
  OBVIOUS
<1>4. rt' = [rt EXCEPT !.pc = "inputs", !.done = @ \cup {Output},
                       !.stack = Append(empty, [node |-> Output, input |-> 0])]
  BY <1>1
<1> HIDE DEF empty
<1>3. RtShape' /\ Inside' \subseteq Inside \cup {Output}
  BY <1>2, <1>4, EnteredShape DEF ParamInv
<1> QED  BY <1>1, <1>3, ParamTaken

\* Going to the source of an input is update_in of it, or a freed node.
LEMMA ParamInputs ==
  ASSUME ParamInv, RtInputs
  PROVE  ParamInv'
<1> DEFINE i == Min(Ahead)
           src == sock.actual[<<Top.node, i>>]
           stack == [rt.stack EXCEPT ![Len(rt.stack)].input = i]
<1>1. rt.pc = "inputs" /\ UNCHANGED <<exists, asked, late>>
  BY DEF RtInputs, RtIn
<1>2. \/ src \in exists /\ Entered(stack, src)
      \/ /\ src \notin exists /\ UNCHANGED param
         /\ rt' = [rt EXCEPT !.stack = Append(stack, [node |-> src, input |-> 0])]
  BY DEF RtInputs
<1> HIDE DEF i
<1>3. PICK S : rt \in Thread(S)
  BY DEF ParamInv, RtShape
<1>4. rt.stack \in Seq(Frame(S)) /\ rt.stack # <<>>
  BY <1>1, <1>3 DEF Thread, ParamInv, RtShape
<1>5. /\ stack \in Seq(Frame(S \cup {i})) /\ DOMAIN stack = DOMAIN rt.stack
      /\ \A k \in DOMAIN rt.stack : stack[k].node = rt.stack[k].node
  BY <1>4, Stepped
<1> HIDE DEF src, stack
<1>6. \A k \in DOMAIN stack : stack[k].node \in Inside
  BY <1>5 DEF Inside
<1>7. RtShape' /\ Inside' \subseteq Inside \cup {src}
  BY <1>1, <1>2, <1>5, <1>6, EnteredShape DEF ParamInv, Entered
<1>8. CASE src \in exists
  <2>1. src \in Nodes /\ param' = ParamIn(src)
    BY <1>2, <1>8 DEF ParamInv, Entered
  <2> QED  BY <1>1, <1>7, <2>1, ParamTaken
<1>9. CASE src \notin exists
  <2>1. ASSUME NEW n \in Nodes \ late' PROVE Agrees(n)'
    <3>1. Agrees(n) /\ param' = param
      BY <1>1, <1>2, <1>9 DEF ParamInv
    <3> QED  BY <1>1, <1>7, <1>9, <3>1 DEF Agrees
  <2>2. \A n \in Nodes : Untouched(n)'
    BY <1>1, <1>2, <1>9 DEF ParamInv, Untouched
  <2> QED  BY <1>1, <1>2, <1>7, <1>9, <2>1, <2>2 DEF ParamInv
<1> QED  BY <1>8, <1>9

\* update_params_out writes back what update_in took.
LEMMA ParamLeave ==
  ASSUME ParamInv, RtLeave
  PROVE  ParamInv'
<1> DEFINE n == Top.node
<1>1. /\ rt.pc = "inputs" /\ n \in exists /\ UNCHANGED <<exists, asked, late>>
      /\ param' = [param EXCEPT ![n].src = param[n].dest]
      /\ rt' = [rt EXCEPT !.pc = "sockets", !.stack[Len(rt.stack)].input = 0]
  BY DEF RtLeave, RtIn
<1>2. n \in Inside
  BY <1>1, TopInside DEF ParamInv
<1> HIDE DEF n
<1>3. PICK S : rt \in Thread(S)
  BY DEF ParamInv, RtShape
<1> DEFINE stack == [rt.stack EXCEPT ![Len(rt.stack)].input = 0]
           T == S \cup {0}
<1>4. rt.stack \in Seq(Frame(S)) /\ rt.stack # <<>>
  BY <1>1, <1>3 DEF Thread, ParamInv, RtShape
<1>5. /\ stack \in Seq(Frame(T)) /\ DOMAIN stack = DOMAIN rt.stack /\ stack # <<>>
      /\ \A k \in DOMAIN rt.stack : stack[k].node = rt.stack[k].node
  BY <1>4, Stepped
<1>6. rt' = [rt EXCEPT !.pc = "sockets", !.stack = stack]
  BY <1>1, <1>3 DEF Thread
<1> HIDE DEF stack
<1>7. rt' \in Thread(T) /\ rt'.stack = stack /\ rt'.pc = "sockets"
  BY <1>3, <1>5, <1>6 DEF Thread
<1>8. RtShape' /\ Inside' \subseteq Inside
  BY <1>5, <1>7 DEF RtShape, Inside
<1>9. n \in Nodes /\ param \in Params
  BY <1>1 DEF ParamInv
<1>10. /\ param' \in Params /\ \A m \in Nodes \ {n} : param'[m] = param[m]
       /\ param'[n].src = param[n].dest /\ param'[n].dest = param[n].dest
       /\ param'[n].changed = param[n].changed
  BY <1>1, <1>9 DEF Params
<1>11. ASSUME NEW m \in Nodes \ late' PROVE Agrees(m)'
  <2>1. Agrees(m)
    BY <1>1 DEF ParamInv
  <2>2. CASE m = n
    BY <1>1, <1>2, <1>10, <2>1, <2>2 DEF Agrees
  <2>3. CASE m # n
    BY <1>1, <1>8, <1>10, <2>1, <2>3 DEF Agrees
  <2> QED  BY <2>2, <2>3
<1>12. ASSUME NEW m \in Nodes PROVE Untouched(m)'
  BY <1>1, <1>10 DEF ParamInv, Untouched
<1> QED  BY <1>1, <1>8, <1>10, <1>11, <1>12 DEF ParamInv

\* Going back to the node that reads this one, or to the next connection due.
LEMMA ParamSockets ==
  ASSUME ParamInv, RtSockets
  PROVE  ParamInv'
<1>1. rt.pc = "sockets" /\ UNCHANGED <<exists, param, asked, late>>
  BY DEF RtSockets, RtIn
<1>2. PICK S : rt \in Thread(S)
  BY DEF ParamInv, RtShape
<1>3. rt.stack \in Seq(Frame(S)) /\ rt.stack # <<>>
  BY <1>1, <1>2 DEF Thread, ParamInv, RtShape
<1>4. ASSUME NEW i, NEW w, rt' = [rt EXCEPT !.pc = "force", !.src = w,
                                          !.stack[Len(rt.stack)].input = i]
      PROVE  RtShape' /\ Inside' \subseteq Inside
  <2> DEFINE stack == [rt.stack EXCEPT ![Len(rt.stack)].input = i]
             T == S \cup {i}
             U == T \cup {w}
  <2>1. /\ stack \in Seq(Frame(T)) /\ DOMAIN stack = DOMAIN rt.stack /\ stack # <<>>
        /\ \A k \in DOMAIN rt.stack : stack[k].node = rt.stack[k].node
    BY <1>3, Stepped
  <2>2. rt' = [rt EXCEPT !.pc = "force", !.src = w, !.stack = stack]
    BY <1>2, <1>4 DEF Thread
  <2> HIDE DEF stack
  <2>3. stack \in Seq(Frame(U))
    <3>1. Frame(T) \subseteq Frame(U)
      BY DEF Frame
    <3> QED  BY <2>1, <3>1, SeqMonotonic
  <2>4. rt' \in Thread(U) /\ rt'.stack = stack /\ rt'.pc = "force"
    BY <1>2, <2>2, <2>3 DEF Thread
  <2> QED  BY <2>1, <2>4 DEF RtShape, Inside
<1>5. ASSUME Front(rt.stack) # <<>>, rt' = [rt EXCEPT !.pc = "inputs", !.stack = Front(rt.stack)]
      PROVE  RtShape' /\ Inside' \subseteq Inside
  <2>1. /\ Front(rt.stack) \in Seq(Frame(S))
        /\ \A k \in DOMAIN Front(rt.stack) :
              k \in DOMAIN rt.stack /\ Front(rt.stack)[k] = rt.stack[k]
    BY <1>3, Popped
  <2>2. rt' \in Thread(S) /\ rt'.stack = Front(rt.stack) /\ rt'.pc = "inputs"
    BY <1>2, <1>5, <2>1 DEF Thread
  <2> QED  BY <1>5, <2>1, <2>2 DEF RtShape, Inside
<1>6. ASSUME rt' = [Idle EXCEPT !.pc = "delete"]
      PROVE  RtShape' /\ Inside' \subseteq Inside
  <2>1. rt' = [pc |-> "delete", stack |-> <<>>, done |-> {}, src |-> NoNode]
    BY <1>6 DEF Idle
  <2>2. rt' \in Thread({NoNode}) /\ rt'.stack = <<>> /\ rt'.pc = "delete"
    BY <2>1 DEF Thread
  <2> QED  BY <2>2 DEF RtShape, Inside
<1>7. \/ \E i, w : rt' = [rt EXCEPT !.pc = "force", !.src = w, !.stack[Len(rt.stack)].input = i]
      \/ Front(rt.stack) # <<>> /\ rt' = [rt EXCEPT !.pc = "inputs", !.stack = Front(rt.stack)]
      \/ rt' = [Idle EXCEPT !.pc = "delete"]
  BY DEF RtSockets
<1>8. RtShape' /\ Inside' \subseteq Inside
  BY <1>4, <1>5, <1>6, <1>7
<1> QED  BY <1>1, <1>8, ParamUnchanged

\* Connections have nothing to do with positions.
LEMMA ParamForce ==
  ASSUME ParamInv, RtForce
  PROVE  ParamInv'
<1>1. /\ UNCHANGED <<exists, param, asked, late>> /\ rt.pc = "force"
      /\ rt' = [rt EXCEPT !.pc = "sockets", !.src = NoNode]
  BY DEF RtForce, RtIn
<1>2. PICK S : rt \in Thread(S)
  BY DEF ParamInv, RtShape
<1>3. rt.stack \in Seq(Frame(S)) /\ rt.stack # <<>>
  BY <1>1, <1>2 DEF Thread, ParamInv, RtShape
<1> DEFINE T == S \cup {NoNode}
<1>4. rt.stack \in Seq(Frame(T))
  <2>1. Frame(S) \subseteq Frame(T)
    BY DEF Frame
  <2> QED  BY <1>3, <2>1, SeqMonotonic
<1>5. rt' \in Thread(T) /\ rt'.stack = rt.stack /\ rt'.pc = "sockets"
  BY <1>1, <1>2, <1>4 DEF Thread
<1>6. RtShape' /\ Inside' \subseteq Inside
  BY <1>3, <1>5 DEF RtShape, Inside
<1> QED  BY <1>1, <1>6, ParamUnchanged

\* The end of a block.
LEMMA ParamDelete ==
  ASSUME ParamInv, RtDelete
  PROVE  ParamInv'
<1>1. Gone({n \in dying : ~ HasConnections(sock, n)}) /\ rt' = Idle
  BY DEF RtDelete
<1>2. rt' = [pc |-> "idle", stack |-> <<>>, done |-> {}, src |-> NoNode]
  BY <1>1 DEF Idle
<1>3. rt' \in Thread({NoNode}) /\ rt'.stack = <<>> /\ rt'.pc = "idle"
  BY <1>2 DEF Thread
<1>4. RtShape' /\ Inside' \subseteq Inside
  BY <1>3 DEF RtShape, Inside
<1> QED  BY <1>1, <1>4, ParamGone

\* The invariant is inductive.
LEMMA ParamNext == ParamInv /\ [Next]_vars => ParamInv'
<1> SUFFICES ASSUME ParamInv, [Next]_vars PROVE ParamInv'
  OBVIOUS
<1>1. ASSUME UNCHANGED <<exists, param, asked, late>>, rt' = rt PROVE ParamInv'
  BY <1>1, RtUnchanged, ParamUnchanged DEF ParamInv
<1>2. CASE RtBreak
  BY <1>1, <1>2 DEF RtBreak, ghosts
<1>3. CASE UNCHANGED vars
  BY <1>1, <1>3 DEF vars
<1> QED  BY <1>2, <1>3, ParamUser, ParamBegin, ParamInputs, ParamLeave, ParamSockets,
            ParamForce, ParamDelete DEF Next, RtNext

-----------------------------------------------------------------------------
(* The sockets.                                                            *)

Source == Nodes \cup {NoNode}
Envelope == [val : {0, 1}, delta : {-1, 0, 1}]

Wires == [ wanted : [Sockets -> Source], actual : [Sockets -> Source],
           pending : [Sockets -> BOOLEAN], env : [Sockets -> Envelope],
           refs : [Nodes -> SUBSET Sockets] ]

Refs(g) == \A n \in Nodes : g.refs[n] = {s \in Sockets : g.actual[s] = n}

\* A socket is a node and the number of one of its inputs.
LEMMA SocketParts ==
  ASSUME NEW s \in Sockets
  PROVE  s[1] \in Nodes /\ s[2] \in 1 .. InCount[s[1]] /\ s = <<s[1], s[2]>>
  BY DEF Sockets

\* And every input of a node is a socket.
LEMMA SocketOf ==
  ASSUME NEW n \in Nodes, NEW i \in 1 .. InCount[n]
  PROVE  <<n, i>> \in Sockets
  BY DEF Sockets

\* What force_connect_in does to the sockets.
LEMMA ForceConnectInEffect ==
  ASSUME NEW g \in Wires, NEW s \in Sockets, NEW src \in Source
  PROVE  LET h == ForceConnectIn(g, s, src) IN
         /\ h \in Wires /\ h.wanted = g.wanted /\ h.pending = g.pending
         /\ h.actual = [g.actual EXCEPT ![s] = src]
         /\ \A t \in Sockets : h.env[t].val = g.env[t].val
         /\ Refs(g) => Refs(h)
<1> DEFINE h == ForceConnectIn(g, s, src)
           e == [g.env[s] EXCEPT !.delta = 1]
           refs == [n \in Nodes |-> IF n = src THEN g.refs[n] \cup {s}
                                    ELSE IF n = g.actual[s] THEN g.refs[n] \ {s} ELSE g.refs[n]]
<1>1. /\ g.wanted \in [Sockets -> Source] /\ g.actual \in [Sockets -> Source]
      /\ g.pending \in [Sockets -> BOOLEAN] /\ g.env \in [Sockets -> Envelope]
      /\ g.refs \in [Nodes -> SUBSET Sockets]
  BY DEF Wires
<1>2. e \in Envelope /\ e.val = g.env[s].val
  BY <1>1 DEF Envelope
<1>3. refs \in [Nodes -> SUBSET Sockets]
  BY <1>1
<1> DEFINE actual == [g.actual EXCEPT ![s] = src]
           env == [g.env EXCEPT ![s] = e]
<1>10. h = [g EXCEPT !.env = env, !.actual = actual, !.refs = refs]
  BY DEF ForceConnectIn
<1> HIDE DEF actual, env
<1>11. h = [ wanted |-> g.wanted, actual |-> actual, pending |-> g.pending, env |-> env,
             refs |-> refs ]
  BY <1>10 DEF Wires
<1>4. h = [ wanted |-> g.wanted, actual |-> [g.actual EXCEPT ![s] = src],
            pending |-> g.pending, env |-> [g.env EXCEPT ![s] = e], refs |-> refs ]
  BY <1>11 DEF actual, env
<1>5. \A n \in Nodes : refs[n] = IF n = src THEN g.refs[n] \cup {s}
                                 ELSE IF n = g.actual[s] THEN g.refs[n] \ {s} ELSE g.refs[n]
  OBVIOUS
<1> HIDE DEF h, e, refs
<1>6. /\ [g.env EXCEPT ![s] = e] \in [Sockets -> Envelope]
      /\ \A t \in Sockets : [g.env EXCEPT ![s] = e][t].val = g.env[t].val
  BY <1>1, <1>2
<1>7. h \in Wires
  BY <1>1, <1>3, <1>4, <1>6 DEF Wires
<1>8. ASSUME Refs(g), NEW n \in Nodes PROVE h.refs[n] = {t \in Sockets : h.actual[t] = n}
  <2>1. h.refs[n] = refs[n] /\ \A t \in Sockets : h.actual[t] = IF t = s THEN src ELSE g.actual[t]
    BY <1>1, <1>4
  <2>2. g.refs[n] = {t \in Sockets : g.actual[t] = n}
    BY <1>8 DEF Refs
  <2>3. ASSUME NEW t \in Sockets PROVE t \in refs[n] <=> h.actual[t] = n
    <3>1. t \in g.refs[n] <=> g.actual[t] = n
      BY <2>2
    <3>2. h.actual[t] = IF t = s THEN src ELSE g.actual[t]
      BY <2>1
    <3>3. /\ n = src => (t \in refs[n] <=> t \in g.refs[n] \/ t = s)
          /\ n # src /\ n = g.actual[s] => (t \in refs[n] <=> t \in g.refs[n] /\ t # s)
          /\ n # src /\ n # g.actual[s] => (t \in refs[n] <=> t \in g.refs[n])
      <4>1. refs[n] = IF n = src THEN g.refs[n] \cup {s}
                      ELSE IF n = g.actual[s] THEN g.refs[n] \ {s} ELSE g.refs[n]
        BY <1>5
      <4> QED  BY <4>1
    <3> QED  BY <3>1, <3>2, <3>3
  <2>4. refs[n] \in SUBSET Sockets
    BY <1>3
  <2> QED  BY <2>1, <2>3, <2>4
<1> QED  BY <1>4, <1>6, <1>7, <1>8 DEF h, Refs

\* What connect_in does: at once, or after a fade.
LEMMA ConnectInEffect ==
  ASSUME NEW g \in Wires, NEW s \in Sockets, NEW src \in Source
  PROVE  LET h == ConnectIn(g, s, src) IN
         /\ h \in Wires /\ h.wanted = [g.wanted EXCEPT ![s] = src]
         /\ \A t \in Sockets : h.env[t].val = g.env[t].val
         /\ \A t \in Sockets \ {s} : h.actual[t] = g.actual[t] /\ h.pending[t] = g.pending[t]
         /\ Finished(g, s) => h.actual[s] = src
         /\ ~ Finished(g, s) => h.actual[s] = g.actual[s] /\ h.pending[s]
         /\ Refs(g) => Refs(h)
<1> DEFINE h == ConnectIn(g, s, src)
           a == [[g EXCEPT !.wanted[s] = src] EXCEPT !.pending[s] = FALSE]
           e == [g.env[s] EXCEPT !.delta = -1]
           f == [[g EXCEPT !.wanted[s] = src] EXCEPT !.pending[s] = TRUE, !.env[s].delta = -1]
<1>1. /\ g.wanted \in [Sockets -> Source] /\ g.actual \in [Sockets -> Source]
      /\ g.pending \in [Sockets -> BOOLEAN] /\ g.env \in [Sockets -> Envelope]
      /\ g.refs \in [Nodes -> SUBSET Sockets]
  BY DEF Wires
<1>2. e \in Envelope /\ e.val = g.env[s].val
  BY <1>1 DEF Envelope
<1> DEFINE wanted == [g.wanted EXCEPT ![s] = src]
           env == [g.env EXCEPT ![s] = e]
           Mark(b) == [g.pending EXCEPT ![s] = b]
<1>10. a = [g EXCEPT !.wanted = wanted, !.pending = Mark(FALSE)]
  OBVIOUS
<1>11. f = [g EXCEPT !.wanted = wanted, !.pending = Mark(TRUE), !.env = env]
  OBVIOUS
<1> HIDE DEF wanted, env, Mark, a, f
<1>3. a = [ wanted |-> wanted, actual |-> g.actual, pending |-> Mark(FALSE), env |-> g.env,
            refs |-> g.refs ]
  BY <1>10 DEF Wires
<1>4. f = [ wanted |-> wanted, actual |-> g.actual, pending |-> Mark(TRUE), env |-> env,
            refs |-> g.refs ]
  BY <1>11 DEF Wires
<1>5. h = IF Finished(g, s) THEN ForceConnectIn(a, s, src) ELSE f
  BY DEF ConnectIn, a, f
<1> HIDE DEF h, e
<1>6. wanted = [g.wanted EXCEPT ![s] = src] /\ wanted \in [Sockets -> Source]
  BY <1>1 DEF wanted
<1>7. \A b \in BOOLEAN : /\ Mark(b) \in [Sockets -> BOOLEAN] /\ Mark(b)[s] = b
                        /\ \A t \in Sockets \ {s} : Mark(b)[t] = g.pending[t]
  BY <1>1 DEF Mark
<1>12. /\ env \in [Sockets -> Envelope]
       /\ \A t \in Sockets : env[t].val = g.env[t].val
  BY <1>1, <1>2 DEF env
<1>8. CASE Finished(g, s)
  <2>1. a \in Wires /\ (Refs(g) => Refs(a))
    BY <1>1, <1>3, <1>6, <1>7 DEF Wires, Refs
  <2>2. h = ForceConnectIn(a, s, src)
    BY <1>5, <1>8
  <2>3. /\ h \in Wires /\ h.wanted = a.wanted /\ h.pending = a.pending
        /\ h.actual = [a.actual EXCEPT ![s] = src]
        /\ \A t \in Sockets : h.env[t].val = a.env[t].val
        /\ Refs(a) => Refs(h)
    BY <2>1, <2>2, ForceConnectInEffect
  <2> QED  BY <1>1, <1>3, <1>6, <1>7, <1>8, <2>1, <2>3 DEF h
<1>9. CASE ~ Finished(g, s)
  <2>1. h = f
    BY <1>5, <1>9
  <2>2. h \in Wires /\ (Refs(g) => Refs(h))
    BY <1>1, <1>4, <1>6, <1>7, <1>12, <2>1 DEF Wires, Refs
  <2>3. /\ h.wanted = [g.wanted EXCEPT ![s] = src]
        /\ \A t \in Sockets : h.env[t].val = g.env[t].val
        /\ \A t \in Sockets \ {s} : h.actual[t] = g.actual[t] /\ h.pending[t] = g.pending[t]
        /\ h.actual[s] = g.actual[s] /\ h.pending[s]
    BY <1>4, <1>6, <1>7, <1>12, <2>1
  <2> QED  BY <1>9, <2>2, <2>3 DEF h
<1> QED  BY <1>8, <1>9

\* h is g after any number of connections to sources of S: what a socket reads
\* changes at once if it is silent and after a fade if not, and nothing rises or
\* falls at once.
Rewired(g, h, S) ==
    /\ g \in Wires /\ h \in Wires
    /\ Refs(g) => Refs(h)
    /\ \A s \in Sockets :
          /\ h.env[s].val = g.env[s].val
          /\ h.wanted[s] = g.wanted[s] \/ h.wanted[s] \in S \cup {NoNode}
          /\ \/ h.wanted[s] = g.wanted[s] /\ h.actual[s] = g.actual[s] /\ h.pending[s] = g.pending[s]
             \/ Finished(g, s) /\ h.actual[s] = h.wanted[s]
             \/ ~ Finished(g, s) /\ h.actual[s] = g.actual[s] /\ h.pending[s]

\* No connection, and one more.
LEMMA RewiredMore ==
  ASSUME NEW S \in SUBSET Nodes
  PROVE  /\ \A g \in Wires : Rewired(g, g, S)
         /\ \A g, h \in Wires, s \in Sockets, src \in S \cup {NoNode} :
               Rewired(g, h, S) => Rewired(g, ConnectIn(h, s, src), S)
<1>1. \A g \in Wires : Rewired(g, g, S)
  BY DEF Rewired
<1>2. ASSUME NEW g \in Wires, NEW h \in Wires, NEW s \in Sockets, NEW src \in S \cup {NoNode},
             Rewired(g, h, S)
      PROVE  Rewired(g, ConnectIn(h, s, src), S)
  <2> DEFINE k == ConnectIn(h, s, src)
  <2>1. src \in Source
    BY DEF Source
  <2>2. /\ k \in Wires /\ k.wanted = [h.wanted EXCEPT ![s] = src]
        /\ \A t \in Sockets : k.env[t].val = h.env[t].val
        /\ \A t \in Sockets \ {s} : k.actual[t] = h.actual[t] /\ k.pending[t] = h.pending[t]
        /\ Finished(h, s) => k.actual[s] = src
        /\ ~ Finished(h, s) => k.actual[s] = h.actual[s] /\ k.pending[s]
        /\ Refs(h) => Refs(k)
    BY <2>1, ConnectInEffect
  <2> HIDE DEF k
  <2>3. h.wanted \in [Sockets -> Source]
    BY DEF Wires
  <2>4. ASSUME NEW t \in Sockets
        PROVE  /\ k.env[t].val = g.env[t].val
               /\ k.wanted[t] = g.wanted[t] \/ k.wanted[t] \in S \cup {NoNode}
               /\ \/ /\ k.wanted[t] = g.wanted[t] /\ k.actual[t] = g.actual[t]
                     /\ k.pending[t] = g.pending[t]
                  \/ Finished(g, t) /\ k.actual[t] = k.wanted[t]
                  \/ ~ Finished(g, t) /\ k.actual[t] = g.actual[t] /\ k.pending[t]
    <3>1. CASE t = s
      BY <1>2, <2>2, <2>3, <3>1 DEF Rewired, Finished
    <3>2. CASE t # s
      BY <1>2, <2>2, <2>3, <3>2 DEF Rewired
    <3> QED  BY <3>1, <3>2
  <2> QED  BY <1>2, <2>2, <2>4 DEF Rewired, k
<1> QED  BY <1>1, <1>2

\* There are only so many sockets.
LEMMA SocketsFinite == IsFiniteSet(Sockets)
<1> DEFINE Inputs(n) == {n} \X (1 .. InCount[n])
           all == {Inputs(n) : n \in Nodes}
<1>1. ASSUME NEW n \in Nodes PROVE IsFiniteSet(Inputs(n))
  <2>1. InCount[n] \in Nat
    BY NodesAssumption
  <2>2. IsFiniteSet({n})
    BY FS_Singleton
  <2>3. IsFiniteSet(1 .. InCount[n])
    BY <2>1, FS_Interval
  <2> QED  BY <2>2, <2>3, FS_Product
<1>2. IsFiniteSet(all)
  <2> DEFINE f == [n \in Nodes |-> Inputs(n)]
  <2>1. f \in Surjection(Nodes, all)
    BY DEF Surjection
  <2> QED  BY <2>1, NodesAssumption, FS_Surjection
<1>3. IsFiniteSet(UNION all)
  <2> HIDE DEF Inputs
  <2>1. \A S \in all : IsFiniteSet(S)
    BY <1>1
  <2> QED  BY <1>2, <2>1, FS_UNION
<1> QED  BY <1>3 DEF Sockets

\* What is left of the sockets of a node that is destroyed.
LEMMA FreedEffect ==
  ASSUME NEW g \in Wires, NEW S \in SUBSET Nodes
  PROVE  LET h == Freed(g, S) IN
         /\ h \in Wires /\ h.actual = g.actual /\ (Refs(g) => Refs(h))
         /\ \A s \in Sockets :
               /\ s[1] \in S => h.wanted[s] = NoNode /\ ~ h.pending[s] /\ h.env[s].val = 0
               /\ s[1] \notin S => /\ h.wanted[s] = g.wanted[s]
                                   /\ h.pending[s] = g.pending[s]
                                   /\ h.env[s] = g.env[s]
<1> DEFINE h == Freed(g, S)
           wanted == [s \in Sockets |-> IF s[1] \in S THEN NoNode ELSE g.wanted[s]]
           pending == [s \in Sockets |-> IF s[1] \in S THEN FALSE ELSE g.pending[s]]
           env == [s \in Sockets |-> IF s[1] \in S THEN NewEnvelope ELSE g.env[s]]
<1>1. h = [g EXCEPT !.wanted = wanted, !.pending = pending, !.env = env]
  BY DEF Freed
<1>2. /\ wanted \in [Sockets -> Source] /\ pending \in [Sockets -> BOOLEAN]
      /\ env \in [Sockets -> Envelope]
  <2>1. NewEnvelope \in Envelope /\ NoNode \in Source
    BY DEF NewEnvelope, Envelope, Source
  <2>2. /\ g.wanted \in [Sockets -> Source] /\ g.pending \in [Sockets -> BOOLEAN]
        /\ g.env \in [Sockets -> Envelope]
    BY DEF Wires
  <2> QED  BY <2>1, <2>2
<1>3. \A s \in Sockets :
         /\ s[1] \in S => wanted[s] = NoNode /\ ~ pending[s] /\ env[s].val = 0
         /\ s[1] \notin S => /\ wanted[s] = g.wanted[s] /\ pending[s] = g.pending[s]
                             /\ env[s] = g.env[s]
  BY DEF NewEnvelope
<1> HIDE DEF h, wanted, pending, env
<1>4. /\ h.wanted = wanted /\ h.pending = pending /\ h.env = env
      /\ h.actual = g.actual /\ h.refs = g.refs
  BY <1>1 DEF Wires
<1>5. h \in Wires
  BY <1>1, <1>2 DEF Wires
<1> QED  BY <1>3, <1>4, <1>5 DEF h, Refs

\* A block moves the envelopes of one node.
LEMMA FadedEffect ==
  ASSUME NEW g \in Wires, NEW n \in Nodes
  PROVE  LET h == Faded(g, n) IN
         /\ h \in Wires /\ h.actual = g.actual /\ h.wanted = g.wanted
         /\ h.pending = g.pending /\ (Refs(g) => Refs(h))
         /\ \A s \in Sockets : s[1] # n => h.env[s] = g.env[s]
<1> DEFINE h == Faded(g, n)
           Value(e) == IF e.delta = 0 THEN e.val ELSE IF e.val + e.delta > 0 THEN 1 ELSE 0
           env == [s \in Sockets |->
                      IF s[1] = n THEN [val |-> Value(g.env[s]), delta |-> g.env[s].delta]
                      ELSE g.env[s]]
<1>1. h = [g EXCEPT !.env = env]
  BY DEF Faded
<1>2. env \in [Sockets -> Envelope]
  <2>1. \A e \in Envelope : [val |-> Value(e), delta |-> e.delta] \in Envelope
    BY DEF Envelope
  <2>2. g.env \in [Sockets -> Envelope]
    BY DEF Wires
  <2> HIDE DEF Value
  <2> QED  BY <2>1, <2>2
<1>3. \A s \in Sockets : s[1] # n => env[s] = g.env[s]
  OBVIOUS
<1> HIDE DEF h, env
<1>4. /\ h.env = env /\ h.wanted = g.wanted /\ h.pending = g.pending
      /\ h.actual = g.actual /\ h.refs = g.refs
  BY <1>1 DEF Wires
<1>5. h \in Wires
  BY <1>1, <1>2 DEF Wires
<1> QED  BY <1>3, <1>4, <1>5 DEF h, Refs

\* Nodes just constructed.
LEMMA NewSocketsEffect ==
  /\ NewSockets \in Wires /\ Refs(NewSockets)
  /\ \A s \in Sockets : /\ NewSockets.wanted[s] = NoNode /\ NewSockets.actual[s] = NoNode
                        /\ NewSockets.env[s].val = 0
<1>1. NewEnvelope \in Envelope /\ NoNode \in Source /\ NewEnvelope.val = 0
  BY DEF NewEnvelope, Envelope, Source
<1>2. NewSockets \in Wires
  BY <1>1 DEF NewSockets, Wires
<1>3. Refs(NewSockets)
  BY NodesAssumption DEF Refs, NewSockets
<1> QED  BY <1>1, <1>2, <1>3 DEF NewSockets

-----------------------------------------------------------------------------
(* The links, and the lists of them.                                       *)

Linkable(a, b) == Table[a, b] # NoLink

Links == { l \in [src : Nodes, dest : Nodes, dist : Nat, center : Nat, socket : Nat] :
             Linkable(l.src, l.dest) /\ l.socket \in 0 .. InCount[l.dest] }

\* A link just made.
LEMMA NewLinkEffect ==
  ASSUME NEW at \in [Nodes -> Int], NEW a \in Nodes, NEW b \in Nodes
  PROVE  LET l == NewLink(at, a, b) IN
         /\ Dist(at, a, b) \in Nat /\ ToCenter(at, a) \in Nat
         /\ l.src = a /\ l.dest = b /\ l.socket = 0
         /\ Linkable(a, b) => l \in Links
<1> DEFINE l == NewLink(at, a, b)
<1>1. \A x \in Int : x * x \in Nat
  OBVIOUS
<1>2. \A c \in Nodes : Dist(at, a, c) \in Nat /\ ToCenter(at, c) \in Nat
  <2> TAKE c \in Nodes
  <2>1. at[a] - at[c] \in Int /\ at[c] \in Int
    OBVIOUS
  <2> QED  BY <1>1, <2>1 DEF Dist, ToCenter
<1>3. /\ l.src = a /\ l.dest = b /\ l.socket = 0
      /\ l \in [src : Nodes, dest : Nodes, dist : Nat, center : Nat, socket : Nat]
  BY <1>2 DEF NewLink
<1> HIDE DEF l
<1>4. l.socket \in 0 .. InCount[l.dest]
  BY <1>3, NodesAssumption
<1>5. Linkable(a, b) => l \in Links
  BY <1>3, <1>4 DEF Links
<1> QED  BY <1>2, <1>3, <1>5 DEF l

\* Where the elements of a list go when one more is put among them.
LEMMA InsertedPlaces ==
  ASSUME NEW T, NEW s \in Seq(T), NEW l \in T
  PROVE  LET t == Inserted(s, l)
             b == Cardinality({k \in DOMAIN s : ~ Shorter(l, s[k])})
         IN  /\ b \in 0..Len(s) /\ t \in Seq(T) /\ Len(t) = Len(s) + 1
             /\ t[b + 1] = l
             /\ \A k \in 1..b : t[k] = s[k]
             /\ \A k \in b + 1..Len(s) : t[k + 1] = s[k]
<1> DEFINE t == Inserted(s, l)
           n == Len(s)
           nearer == {k \in DOMAIN s : ~ Shorter(l, s[k])}
           b == Cardinality(nearer)
<1>1. n \in Nat /\ DOMAIN s = 1..n /\ \A k \in 1..n : s[k] \in T
  OBVIOUS
<1>2. b \in 0..n
  <2>0. nearer \in SUBSET (1..n)
    BY <1>1
  <2>1. IsFiniteSet(1..n) /\ Cardinality(1..n) = n
    <3> HIDE DEF n, nearer, b, t
    <3>1. IsFiniteSet(1..n) /\ Cardinality(1..n) = IF 1 > n THEN 0 ELSE n - 1 + 1
      BY <1>1, FS_Interval
    <3> QED  BY <1>1, <3>1
  <2>2. IsFiniteSet(nearer) /\ b <= n
    BY <2>0, <2>1, FS_Subset
  <2>3. b \in Nat
    BY <2>2, FS_CardinalityType
  <2> QED  BY <2>2, <2>3
<1> HIDE DEF b
<1> DEFINE x == SubSeq(s, 1, b)
           y == SubSeq(s, b + 1, n)
           e == <<l>>
           z == x \o e
<1>3. t = z \o y
  BY DEF Inserted, b
<1>4. x \in Seq(T) /\ Len(x) = b /\ \A k \in 1..b : x[k] = s[k]
  <2>1. \A k \in 1..b : s[k] \in T
    BY <1>1, <1>2
  <2>2. x \in Seq(T) /\ Len(x) = b /\ \A k \in 1..b : x[k] = s[1 + k - 1]
    BY <1>2, <2>1, SubSeqProperties
  <2> HIDE DEF x
  <2> QED  BY <1>2, <2>2
<1>5. y \in Seq(T) /\ Len(y) = n - b /\ \A k \in 1..n - b : y[k] = s[b + k]
  <2>1. \A k \in b + 1..n : s[k] \in T
    BY <1>1, <1>2
  <2>2. /\ y \in Seq(T) /\ Len(y) = IF b + 1 <= n THEN n - (b + 1) + 1 ELSE 0
        /\ \A k \in 1..n - (b + 1) + 1 : y[k] = s[b + 1 + k - 1]
    BY <1>1, <1>2, <2>1, SubSeqProperties
  <2> HIDE DEF y, n
  <2>3. Len(y) = n - b
    BY <1>1, <1>2, <2>2
  <2>4. ASSUME NEW k \in 1..n - b PROVE y[k] = s[b + k]
    <3>1. b + 1 + k - 1 = b + k /\ k \in 1..n - (b + 1) + 1
      BY <1>1, <1>2
    <3> QED  BY <2>2, <3>1
  <2> QED  BY <2>2, <2>3, <2>4
<1> HIDE DEF x, y, t
<1>6. e \in Seq(T) /\ Len(e) = 1 /\ e[1] = l
  OBVIOUS
<1> HIDE DEF e
<1>7. z \in Seq(T) /\ Len(z) = b + 1 /\ z[b + 1] = l /\ \A k \in 1..b : z[k] = s[k]
  <2>4. /\ z \in Seq(T) /\ Len(z) = Len(x) + Len(e)
        /\ \A k \in 1..Len(x) + Len(e) : z[k] = IF k <= Len(x) THEN x[k] ELSE e[k - Len(x)]
    BY <1>4, <1>6, ConcatProperties
  <2> HIDE DEF z
  <2>1. /\ z \in Seq(T) /\ Len(z) = b + 1
        /\ \A k \in 1..b + 1 : z[k] = IF k <= b THEN x[k] ELSE e[k - b]
    BY <1>4, <1>6, <2>4
  <2>2. b + 1 \in 1..b + 1 /\ ~ (b + 1 <= b) /\ (b + 1) - b = 1
    BY <1>2
  <2>3. \A k \in 1..b : k \in 1..b + 1 /\ k <= b
    BY <1>2
  <2> QED  BY <1>4, <1>6, <2>1, <2>2, <2>3
<1> HIDE DEF z
<1>8. /\ t \in Seq(T) /\ Len(t) = (b + 1) + (n - b)
      /\ \A k \in 1..(b + 1) + (n - b) : t[k] = IF k <= b + 1 THEN z[k] ELSE y[k - (b + 1)]
  <2>1. /\ t \in Seq(T) /\ Len(t) = Len(z) + Len(y)
        /\ \A k \in 1..Len(z) + Len(y) : t[k] = IF k <= Len(z) THEN z[k] ELSE y[k - Len(z)]
    BY <1>3, <1>5, <1>7, ConcatProperties
  <2> HIDE DEF n
  <2> QED  BY <1>5, <1>7, <2>1
<1> HIDE DEF n
<1>9. (b + 1) + (n - b) = n + 1
  BY <1>1, <1>2
<1>10. ASSUME NEW k \in 1..b PROVE t[k] = s[k]
  <2>1. k \in 1..n + 1 /\ k <= b + 1
    BY <1>1, <1>2
  <2> QED  BY <1>7, <1>8, <1>9, <2>1
<1>11. t[b + 1] = l
  <2>1. b + 1 \in 1..n + 1 /\ b + 1 <= b + 1
    BY <1>1, <1>2
  <2> QED  BY <1>7, <1>8, <1>9, <2>1
<1>12. ASSUME NEW k \in b + 1..n PROVE t[k + 1] = s[k]
  <2>1. k + 1 \in 1..n + 1 /\ ~ (k + 1 <= b + 1) /\ (k + 1) - (b + 1) = k - b
    BY <1>1, <1>2
  <2>2. k - b \in 1..n - b /\ b + (k - b) = k
    BY <1>1, <1>2
  <2> QED  BY <1>5, <1>8, <1>9, <2>1, <2>2
<1> QED  BY <1>2, <1>8, <1>9, <1>10, <1>11, <1>12 DEF b, n, t

\* One more element in a list.
LEMMA InsertedEffect ==
  ASSUME NEW T, NEW s \in Seq(T), NEW l \in T
  PROVE  /\ Inserted(s, l) \in Seq(T)
         /\ ToSet(Inserted(s, l)) = ToSet(s) \cup {l}
<1> DEFINE t == Inserted(s, l)
           n == Len(s)
           b == Cardinality({k \in DOMAIN s : ~ Shorter(l, s[k])})
<1>1. /\ b \in 0..n /\ t \in Seq(T) /\ Len(t) = n + 1 /\ t[b + 1] = l
      /\ \A k \in 1..b : t[k] = s[k]
      /\ \A k \in b + 1..n : t[k + 1] = s[k]
  BY InsertedPlaces
<1>2. n \in Nat /\ DOMAIN s = 1..n
  OBVIOUS
<1> HIDE DEF b, t, n
<1>3. DOMAIN t = 1..n + 1
  BY <1>1
<1>4. \A i \in 1..n + 1 : i \in 1..b \/ i = b + 1 \/ (i - 1 \in b + 1..n /\ (i - 1) + 1 = i)
  BY <1>1, <1>2
<1>5. /\ b + 1 \in 1..n + 1 /\ \A k \in 1..b : k \in 1..n /\ k \in 1..n + 1
      /\ \A k \in b + 1..n : k \in 1..n /\ k + 1 \in 1..n + 1
      /\ \A k \in 1..n : k \in 1..b \/ k \in b + 1..n
  BY <1>1, <1>2
<1>6. ASSUME NEW v \in ToSet(t) PROVE v \in ToSet(s) \cup {l}
  <2>1. PICK i \in 1..n + 1 : v = t[i]
    BY <1>3, <1>6 DEF ToSet
  <2>2. CASE i \in 1..b
    BY <1>1, <1>2, <1>5, <2>1, <2>2 DEF ToSet
  <2>3. CASE i = b + 1
    BY <1>1, <2>1, <2>3
  <2>4. CASE i - 1 \in b + 1..n /\ (i - 1) + 1 = i
    <3> DEFINE k == i - 1
    <3>1. k \in b + 1..n /\ k \in 1..n /\ k + 1 = i
      BY <1>5, <2>4
    <3> HIDE DEF k
    <3>2. v = s[k]
      BY <1>1, <2>1, <3>1
    <3> QED  BY <1>2, <3>1, <3>2 DEF ToSet
  <2> QED  BY <1>4, <2>2, <2>3, <2>4
<1>7. ASSUME NEW v \in ToSet(s) \cup {l} PROVE v \in ToSet(t)
  BY <1>1, <1>2, <1>3, <1>5 DEF ToSet
<1> QED  BY <1>1, <1>6, <1>7 DEF t

-----------------------------------------------------------------------------
(* What the folds of the model go through, one step at a time.             *)

Pair(at, n, m) ==
    (IF Table[n, m] = NoLink THEN <<>> ELSE <<NewLink(at, n, m)>>)
        \o (IF Table[m, n] = NoLink THEN <<>> ELSE <<NewLink(at, m, n)>>)

Pick(s, x, set) == IF x \in set THEN Append(s, x) ELSE s

\* How the elements of a list that are in a set are picked.
Picking(b, ss, set) == FoldLeft(LAMBDA h, e : Pick(h, e, set), b, ss)

PickingPath(b, ss, set, f) ==
    f = [t \in SUBSET DOMAIN ss |->
            IF t = {} THEN b ELSE Pick(f[t \ {Max(t)}], ss[Max(t)], set)]

PickingRun(D, b, ss, set, r) ==
    /\ r \in [0..Len(ss) -> D] /\ r[0] = b
    /\ \A k \in 1..Len(ss) : r[k] = Pick(r[k - 1], ss[k], set)
    /\ Picking(b, ss, set) = r[Len(ss)]

LEMMA PickingSteps ==
  ASSUME NEW T, NEW ss \in Seq(T), NEW D, NEW b \in D, NEW set,
         \A h \in D, k \in 1..Len(ss) : Pick(h, ss[k], set) \in D
  PROVE  \E r : PickingRun(D, b, ss, set, r)
<1> DEFINE m == Len(ss)
           step == [k \in 1..m |-> [h \in D |-> Pick(h, ss[k], set)]]
           f == CHOOSE f : PickingPath(b, ss, set, f)
<1>1. m \in Nat /\ DOMAIN ss = 1..m
  OBVIOUS
<1>2. Picking(b, ss, set) = f[DOMAIN ss]
  BY DEF Picking, FoldLeft, MapThenFoldSet, PickingPath
<1>3. step \in [1..m -> [D -> D]] /\ \A k \in 1..m, h \in D : step[k][h] = Pick(h, ss[k], set)
  OBVIOUS
<1> HIDE DEF m, step
<1>4. \E e : PickingPath(b, ss, set, e)
  <2>1. PICK e \in [SUBSET (1..m) -> D] : Folding(b, m, step, e)
    BY <1>1, <1>3, FoldingExists
  <2>2. ASSUME NEW t \in SUBSET (1..m), t # {}
        PROVE  step[Max(t)][e[t \ {Max(t)}]] = Pick(e[t \ {Max(t)}], ss[Max(t)], set)
    <3>1. Max(t) \in 1..m
      BY <1>1, <2>2, LargestUpTo
    <3>2. e[t \ {Max(t)}] \in D
      BY <2>1
    <3> QED  BY <1>3, <3>1, <3>2
  <2>3. PickingPath(b, ss, set, e)
    BY <1>1, <2>1, <2>2 DEF Folding, PickingPath
  <2> QED  BY <2>3
<1>5. PickingPath(b, ss, set, f)
  BY <1>4
<1> HIDE DEF f
<1>6. /\ f[{}] = b
      /\ \A t \in SUBSET (1..m) : t # {} => f[t] = Pick(f[t \ {Max(t)}], ss[Max(t)], set)
  BY <1>1, <1>5 DEF PickingPath
<1>7. \A t \in SUBSET (1..m) :
         t # {} /\ f[t \ {Max(t)}] \in D => f[t] = step[Max(t)][f[t \ {Max(t)}]]
  <2> TAKE t \in SUBSET (1..m)
  <2> HAVE t # {} /\ f[t \ {Max(t)}] \in D
  <2>1. Max(t) \in 1..m
    BY <1>1, LargestUpTo
  <2> QED  BY <1>3, <1>6, <2>1
<1>8. m \in Nat /\ FoldsIn(D, b, m, step, f)
  BY <1>1, <1>6, <1>7 DEF FoldsIn
<1>9. PICK r : Recursion(D, b, m, step, r) /\ f[1..m] = r[m]
  BY <1>1, <1>3, <1>8, FoldingSteps
<1>10. r \in [0..m -> D] /\ r[0] = b /\ \A k \in 1..m : r[k] = step[k][r[k - 1]]
  BY <1>9 DEF Recursion
<1>11. ASSUME NEW k \in 1..m PROVE r[k] = Pick(r[k - 1], ss[k], set)
  <2>1. k - 1 \in 0..m
    BY <1>1
  <2>2. r[k - 1] \in D
    BY <1>10, <2>1
  <2> QED  BY <1>3, <1>10, <2>2
<1>12. Picking(b, ss, set) = r[m]
  BY <1>1, <1>2, <1>9
<1> QED  BY <1>10, <1>11, <1>12 DEF m, PickingRun

\* How one list is inserted into another.
Inserting(b, ss) == FoldLeft(LAMBDA h, e : Inserted(h, e), b, ss)

InsertingPath(b, ss, f) ==
    f = [t \in SUBSET DOMAIN ss |->
            IF t = {} THEN b ELSE Inserted(f[t \ {Max(t)}], ss[Max(t)])]

InsertingRun(D, b, ss, r) ==
    /\ r \in [0..Len(ss) -> D] /\ r[0] = b
    /\ \A k \in 1..Len(ss) : r[k] = Inserted(r[k - 1], ss[k])
    /\ Inserting(b, ss) = r[Len(ss)]

LEMMA InsertingSteps ==
  ASSUME NEW T, NEW ss \in Seq(T), NEW D, NEW b \in D,
         \A h \in D, k \in 1..Len(ss) : Inserted(h, ss[k]) \in D
  PROVE  \E r : InsertingRun(D, b, ss, r)
<1> DEFINE m == Len(ss)
           step == [k \in 1..m |-> [h \in D |-> Inserted(h, ss[k])]]
           f == CHOOSE f : InsertingPath(b, ss, f)
<1>1. m \in Nat /\ DOMAIN ss = 1..m
  OBVIOUS
<1>2. Inserting(b, ss) = f[DOMAIN ss]
  BY DEF Inserting, FoldLeft, MapThenFoldSet, InsertingPath
<1>3. step \in [1..m -> [D -> D]] /\ \A k \in 1..m, h \in D : step[k][h] = Inserted(h, ss[k])
  OBVIOUS
<1> HIDE DEF m, step
<1>4. \E e : InsertingPath(b, ss, e)
  <2>1. PICK e \in [SUBSET (1..m) -> D] : Folding(b, m, step, e)
    BY <1>1, <1>3, FoldingExists
  <2>2. ASSUME NEW t \in SUBSET (1..m), t # {}
        PROVE  step[Max(t)][e[t \ {Max(t)}]] = Inserted(e[t \ {Max(t)}], ss[Max(t)])
    <3>1. Max(t) \in 1..m
      BY <1>1, <2>2, LargestUpTo
    <3>2. e[t \ {Max(t)}] \in D
      BY <2>1
    <3> QED  BY <1>3, <3>1, <3>2
  <2>3. InsertingPath(b, ss, e)
    BY <1>1, <2>1, <2>2 DEF Folding, InsertingPath
  <2> QED  BY <2>3
<1>5. InsertingPath(b, ss, f)
  BY <1>4
<1> HIDE DEF f
<1>6. /\ f[{}] = b
      /\ \A t \in SUBSET (1..m) : t # {} => f[t] = Inserted(f[t \ {Max(t)}], ss[Max(t)])
  BY <1>1, <1>5 DEF InsertingPath
<1>7. \A t \in SUBSET (1..m) :
         t # {} /\ f[t \ {Max(t)}] \in D => f[t] = step[Max(t)][f[t \ {Max(t)}]]
  <2> TAKE t \in SUBSET (1..m)
  <2> HAVE t # {} /\ f[t \ {Max(t)}] \in D
  <2>1. Max(t) \in 1..m
    BY <1>1, LargestUpTo
  <2> QED  BY <1>3, <1>6, <2>1
<1>8. m \in Nat /\ FoldsIn(D, b, m, step, f)
  BY <1>1, <1>6, <1>7 DEF FoldsIn
<1>9. PICK r : Recursion(D, b, m, step, r) /\ f[1..m] = r[m]
  BY <1>1, <1>3, <1>8, FoldingSteps
<1>10. r \in [0..m -> D] /\ r[0] = b /\ \A k \in 1..m : r[k] = step[k][r[k - 1]]
  BY <1>9 DEF Recursion
<1>11. ASSUME NEW k \in 1..m PROVE r[k] = Inserted(r[k - 1], ss[k])
  <2>1. k - 1 \in 0..m
    BY <1>1
  <2>2. r[k - 1] \in D
    BY <1>10, <2>1
  <2> QED  BY <1>3, <1>10, <2>2
<1>12. Inserting(b, ss) = r[m]
  BY <1>1, <1>2, <1>9
<1> QED  BY <1>10, <1>11, <1>12 DEF m, InsertingRun

\* How a node is joined with the others.
Joining(b, ss, at, n) == FoldLeft(LAMBDA h, e : InsertedAll(h, Pair(at, n, e)), b, ss)

JoiningPath(b, ss, at, n, f) ==
    f = [t \in SUBSET DOMAIN ss |->
            IF t = {} THEN b ELSE InsertedAll(f[t \ {Max(t)}], Pair(at, n, ss[Max(t)]))]

JoiningRun(D, b, ss, at, n, r) ==
    /\ r \in [0..Len(ss) -> D] /\ r[0] = b
    /\ \A k \in 1..Len(ss) : r[k] = InsertedAll(r[k - 1], Pair(at, n, ss[k]))
    /\ Joining(b, ss, at, n) = r[Len(ss)]

LEMMA JoiningSteps ==
  ASSUME NEW T, NEW ss \in Seq(T), NEW D, NEW b \in D, NEW at, NEW n,
         \A h \in D, k \in 1..Len(ss) : InsertedAll(h, Pair(at, n, ss[k])) \in D
  PROVE  \E r : JoiningRun(D, b, ss, at, n, r)
<1> DEFINE m == Len(ss)
           step == [k \in 1..m |-> [h \in D |-> InsertedAll(h, Pair(at, n, ss[k]))]]
           f == CHOOSE f : JoiningPath(b, ss, at, n, f)
<1>1. m \in Nat /\ DOMAIN ss = 1..m
  OBVIOUS
<1>2. Joining(b, ss, at, n) = f[DOMAIN ss]
  BY DEF Joining, FoldLeft, MapThenFoldSet, JoiningPath
<1>3. step \in [1..m -> [D -> D]] /\ \A k \in 1..m, h \in D : step[k][h] = InsertedAll(h, Pair(at, n, ss[k]))
  OBVIOUS
<1> HIDE DEF m, step
<1>4. \E e : JoiningPath(b, ss, at, n, e)
  <2>1. PICK e \in [SUBSET (1..m) -> D] : Folding(b, m, step, e)
    BY <1>1, <1>3, FoldingExists
  <2>2. ASSUME NEW t \in SUBSET (1..m), t # {}
        PROVE  step[Max(t)][e[t \ {Max(t)}]] = InsertedAll(e[t \ {Max(t)}], Pair(at, n, ss[Max(t)]))
    <3>1. Max(t) \in 1..m
      BY <1>1, <2>2, LargestUpTo
    <3>2. e[t \ {Max(t)}] \in D
      BY <2>1
    <3> QED  BY <1>3, <3>1, <3>2
  <2>3. JoiningPath(b, ss, at, n, e)
    BY <1>1, <2>1, <2>2 DEF Folding, JoiningPath
  <2> QED  BY <2>3
<1>5. JoiningPath(b, ss, at, n, f)
  BY <1>4
<1> HIDE DEF f
<1>6. /\ f[{}] = b
      /\ \A t \in SUBSET (1..m) : t # {} => f[t] = InsertedAll(f[t \ {Max(t)}], Pair(at, n, ss[Max(t)]))
  BY <1>1, <1>5 DEF JoiningPath
<1>7. \A t \in SUBSET (1..m) :
         t # {} /\ f[t \ {Max(t)}] \in D => f[t] = step[Max(t)][f[t \ {Max(t)}]]
  <2> TAKE t \in SUBSET (1..m)
  <2> HAVE t # {} /\ f[t \ {Max(t)}] \in D
  <2>1. Max(t) \in 1..m
    BY <1>1, LargestUpTo
  <2> QED  BY <1>3, <1>6, <2>1
<1>8. m \in Nat /\ FoldsIn(D, b, m, step, f)
  BY <1>1, <1>6, <1>7 DEF FoldsIn
<1>9. PICK r : Recursion(D, b, m, step, r) /\ f[1..m] = r[m]
  BY <1>1, <1>3, <1>8, FoldingSteps
<1>10. r \in [0..m -> D] /\ r[0] = b /\ \A k \in 1..m : r[k] = step[k][r[k - 1]]
  BY <1>9 DEF Recursion
<1>11. ASSUME NEW k \in 1..m PROVE r[k] = InsertedAll(r[k - 1], Pair(at, n, ss[k]))
  <2>1. k - 1 \in 0..m
    BY <1>1
  <2>2. r[k - 1] \in D
    BY <1>10, <2>1
  <2> QED  BY <1>3, <1>10, <2>2
<1>12. Joining(b, ss, at, n) = r[m]
  BY <1>1, <1>2, <1>9
<1> QED  BY <1>10, <1>11, <1>12 DEF m, JoiningRun

\* How the sockets of a list are disconnected.
Clearing(b, ss) == FoldLeft(LAMBDA h, e : ConnectIn(h, e, NoNode), b, ss)

ClearingPath(b, ss, f) ==
    f = [t \in SUBSET DOMAIN ss |->
            IF t = {} THEN b ELSE ConnectIn(f[t \ {Max(t)}], ss[Max(t)], NoNode)]

ClearingRun(D, b, ss, r) ==
    /\ r \in [0..Len(ss) -> D] /\ r[0] = b
    /\ \A k \in 1..Len(ss) : r[k] = ConnectIn(r[k - 1], ss[k], NoNode)
    /\ Clearing(b, ss) = r[Len(ss)]

LEMMA ClearingSteps ==
  ASSUME NEW T, NEW ss \in Seq(T), NEW D, NEW b \in D,
         \A h \in D, k \in 1..Len(ss) : ConnectIn(h, ss[k], NoNode) \in D
  PROVE  \E r : ClearingRun(D, b, ss, r)
<1> DEFINE m == Len(ss)
           step == [k \in 1..m |-> [h \in D |-> ConnectIn(h, ss[k], NoNode)]]
           f == CHOOSE f : ClearingPath(b, ss, f)
<1>1. m \in Nat /\ DOMAIN ss = 1..m
  OBVIOUS
<1>2. Clearing(b, ss) = f[DOMAIN ss]
  BY DEF Clearing, FoldLeft, MapThenFoldSet, ClearingPath
<1>3. step \in [1..m -> [D -> D]] /\ \A k \in 1..m, h \in D : step[k][h] = ConnectIn(h, ss[k], NoNode)
  OBVIOUS
<1> HIDE DEF m, step
<1>4. \E e : ClearingPath(b, ss, e)
  <2>1. PICK e \in [SUBSET (1..m) -> D] : Folding(b, m, step, e)
    BY <1>1, <1>3, FoldingExists
  <2>2. ASSUME NEW t \in SUBSET (1..m), t # {}
        PROVE  step[Max(t)][e[t \ {Max(t)}]] = ConnectIn(e[t \ {Max(t)}], ss[Max(t)], NoNode)
    <3>1. Max(t) \in 1..m
      BY <1>1, <2>2, LargestUpTo
    <3>2. e[t \ {Max(t)}] \in D
      BY <2>1
    <3> QED  BY <1>3, <3>1, <3>2
  <2>3. ClearingPath(b, ss, e)
    BY <1>1, <2>1, <2>2 DEF Folding, ClearingPath
  <2> QED  BY <2>3
<1>5. ClearingPath(b, ss, f)
  BY <1>4
<1> HIDE DEF f
<1>6. /\ f[{}] = b
      /\ \A t \in SUBSET (1..m) : t # {} => f[t] = ConnectIn(f[t \ {Max(t)}], ss[Max(t)], NoNode)
  BY <1>1, <1>5 DEF ClearingPath
<1>7. \A t \in SUBSET (1..m) :
         t # {} /\ f[t \ {Max(t)}] \in D => f[t] = step[Max(t)][f[t \ {Max(t)}]]
  <2> TAKE t \in SUBSET (1..m)
  <2> HAVE t # {} /\ f[t \ {Max(t)}] \in D
  <2>1. Max(t) \in 1..m
    BY <1>1, LargestUpTo
  <2> QED  BY <1>3, <1>6, <2>1
<1>8. m \in Nat /\ FoldsIn(D, b, m, step, f)
  BY <1>1, <1>6, <1>7 DEF FoldsIn
<1>9. PICK r : Recursion(D, b, m, step, r) /\ f[1..m] = r[m]
  BY <1>1, <1>3, <1>8, FoldingSteps
<1>10. r \in [0..m -> D] /\ r[0] = b /\ \A k \in 1..m : r[k] = step[k][r[k - 1]]
  BY <1>9 DEF Recursion
<1>11. ASSUME NEW k \in 1..m PROVE r[k] = ConnectIn(r[k - 1], ss[k], NoNode)
  <2>1. k - 1 \in 0..m
    BY <1>1
  <2>2. r[k - 1] \in D
    BY <1>10, <2>1
  <2> QED  BY <1>3, <1>10, <2>2
<1>12. Clearing(b, ss) = r[m]
  BY <1>1, <1>2, <1>9
<1> QED  BY <1>10, <1>11, <1>12 DEF m, ClearingRun

\* How the links of a list are undone.
Undoing(b, ss) == FoldLeft(LAMBDA h, e : UndoLink(h, e), b, ss)

UndoingPath(b, ss, f) ==
    f = [t \in SUBSET DOMAIN ss |->
            IF t = {} THEN b ELSE UndoLink(f[t \ {Max(t)}], ss[Max(t)])]

UndoingRun(D, b, ss, r) ==
    /\ r \in [0..Len(ss) -> D] /\ r[0] = b
    /\ \A k \in 1..Len(ss) : r[k] = UndoLink(r[k - 1], ss[k])
    /\ Undoing(b, ss) = r[Len(ss)]

LEMMA UndoingSteps ==
  ASSUME NEW T, NEW ss \in Seq(T), NEW D, NEW b \in D,
         \A h \in D, k \in 1..Len(ss) : UndoLink(h, ss[k]) \in D
  PROVE  \E r : UndoingRun(D, b, ss, r)
<1> DEFINE m == Len(ss)
           step == [k \in 1..m |-> [h \in D |-> UndoLink(h, ss[k])]]
           f == CHOOSE f : UndoingPath(b, ss, f)
<1>1. m \in Nat /\ DOMAIN ss = 1..m
  OBVIOUS
<1>2. Undoing(b, ss) = f[DOMAIN ss]
  BY DEF Undoing, FoldLeft, MapThenFoldSet, UndoingPath
<1>3. step \in [1..m -> [D -> D]] /\ \A k \in 1..m, h \in D : step[k][h] = UndoLink(h, ss[k])
  OBVIOUS
<1> HIDE DEF m, step
<1>4. \E e : UndoingPath(b, ss, e)
  <2>1. PICK e \in [SUBSET (1..m) -> D] : Folding(b, m, step, e)
    BY <1>1, <1>3, FoldingExists
  <2>2. ASSUME NEW t \in SUBSET (1..m), t # {}
        PROVE  step[Max(t)][e[t \ {Max(t)}]] = UndoLink(e[t \ {Max(t)}], ss[Max(t)])
    <3>1. Max(t) \in 1..m
      BY <1>1, <2>2, LargestUpTo
    <3>2. e[t \ {Max(t)}] \in D
      BY <2>1
    <3> QED  BY <1>3, <3>1, <3>2
  <2>3. UndoingPath(b, ss, e)
    BY <1>1, <2>1, <2>2 DEF Folding, UndoingPath
  <2> QED  BY <2>3
<1>5. UndoingPath(b, ss, f)
  BY <1>4
<1> HIDE DEF f
<1>6. /\ f[{}] = b
      /\ \A t \in SUBSET (1..m) : t # {} => f[t] = UndoLink(f[t \ {Max(t)}], ss[Max(t)])
  BY <1>1, <1>5 DEF UndoingPath
<1>7. \A t \in SUBSET (1..m) :
         t # {} /\ f[t \ {Max(t)}] \in D => f[t] = step[Max(t)][f[t \ {Max(t)}]]
  <2> TAKE t \in SUBSET (1..m)
  <2> HAVE t # {} /\ f[t \ {Max(t)}] \in D
  <2>1. Max(t) \in 1..m
    BY <1>1, LargestUpTo
  <2> QED  BY <1>3, <1>6, <2>1
<1>8. m \in Nat /\ FoldsIn(D, b, m, step, f)
  BY <1>1, <1>6, <1>7 DEF FoldsIn
<1>9. PICK r : Recursion(D, b, m, step, r) /\ f[1..m] = r[m]
  BY <1>1, <1>3, <1>8, FoldingSteps
<1>10. r \in [0..m -> D] /\ r[0] = b /\ \A k \in 1..m : r[k] = step[k][r[k - 1]]
  BY <1>9 DEF Recursion
<1>11. ASSUME NEW k \in 1..m PROVE r[k] = UndoLink(r[k - 1], ss[k])
  <2>1. k - 1 \in 0..m
    BY <1>1
  <2>2. r[k - 1] \in D
    BY <1>10, <2>1
  <2> QED  BY <1>3, <1>10, <2>2
<1>12. Undoing(b, ss) = r[m]
  BY <1>1, <1>2, <1>9
<1> QED  BY <1>10, <1>11, <1>12 DEF m, UndoingRun

\* How the links are tried.
Trying(b, ss, at) == FoldLeft(LAMBDA h, e : TryLink(h, e, at), b, ss)

TryingPath(b, ss, at, f) ==
    f = [t \in SUBSET DOMAIN ss |->
            IF t = {} THEN b ELSE TryLink(f[t \ {Max(t)}], ss[Max(t)], at)]

TryingRun(D, b, ss, at, r) ==
    /\ r \in [0..Len(ss) -> D] /\ r[0] = b
    /\ \A k \in 1..Len(ss) : r[k] = TryLink(r[k - 1], ss[k], at)
    /\ Trying(b, ss, at) = r[Len(ss)]

LEMMA TryingSteps ==
  ASSUME NEW T, NEW ss \in Seq(T), NEW D, NEW b \in D, NEW at,
         \A h \in D, k \in 1..Len(ss) : TryLink(h, ss[k], at) \in D
  PROVE  \E r : TryingRun(D, b, ss, at, r)
<1> DEFINE m == Len(ss)
           step == [k \in 1..m |-> [h \in D |-> TryLink(h, ss[k], at)]]
           f == CHOOSE f : TryingPath(b, ss, at, f)
<1>1. m \in Nat /\ DOMAIN ss = 1..m
  OBVIOUS
<1>2. Trying(b, ss, at) = f[DOMAIN ss]
  BY DEF Trying, FoldLeft, MapThenFoldSet, TryingPath
<1>3. step \in [1..m -> [D -> D]] /\ \A k \in 1..m, h \in D : step[k][h] = TryLink(h, ss[k], at)
  OBVIOUS
<1> HIDE DEF m, step
<1>4. \E e : TryingPath(b, ss, at, e)
  <2>1. PICK e \in [SUBSET (1..m) -> D] : Folding(b, m, step, e)
    BY <1>1, <1>3, FoldingExists
  <2>2. ASSUME NEW t \in SUBSET (1..m), t # {}
        PROVE  step[Max(t)][e[t \ {Max(t)}]] = TryLink(e[t \ {Max(t)}], ss[Max(t)], at)
    <3>1. Max(t) \in 1..m
      BY <1>1, <2>2, LargestUpTo
    <3>2. e[t \ {Max(t)}] \in D
      BY <2>1
    <3> QED  BY <1>3, <3>1, <3>2
  <2>3. TryingPath(b, ss, at, e)
    BY <1>1, <2>1, <2>2 DEF Folding, TryingPath
  <2> QED  BY <2>3
<1>5. TryingPath(b, ss, at, f)
  BY <1>4
<1> HIDE DEF f
<1>6. /\ f[{}] = b
      /\ \A t \in SUBSET (1..m) : t # {} => f[t] = TryLink(f[t \ {Max(t)}], ss[Max(t)], at)
  BY <1>1, <1>5 DEF TryingPath
<1>7. \A t \in SUBSET (1..m) :
         t # {} /\ f[t \ {Max(t)}] \in D => f[t] = step[Max(t)][f[t \ {Max(t)}]]
  <2> TAKE t \in SUBSET (1..m)
  <2> HAVE t # {} /\ f[t \ {Max(t)}] \in D
  <2>1. Max(t) \in 1..m
    BY <1>1, LargestUpTo
  <2> QED  BY <1>3, <1>6, <2>1
<1>8. m \in Nat /\ FoldsIn(D, b, m, step, f)
  BY <1>1, <1>6, <1>7 DEF FoldsIn
<1>9. PICK r : Recursion(D, b, m, step, r) /\ f[1..m] = r[m]
  BY <1>1, <1>3, <1>8, FoldingSteps
<1>10. r \in [0..m -> D] /\ r[0] = b /\ \A k \in 1..m : r[k] = step[k][r[k - 1]]
  BY <1>9 DEF Recursion
<1>11. ASSUME NEW k \in 1..m PROVE r[k] = TryLink(r[k - 1], ss[k], at)
  <2>1. k - 1 \in 0..m
    BY <1>1
  <2>2. r[k - 1] \in D
    BY <1>10, <2>1
  <2> QED  BY <1>3, <1>10, <2>2
<1>12. Trying(b, ss, at) = r[m]
  BY <1>1, <1>2, <1>9
<1> QED  BY <1>10, <1>11, <1>12 DEF m, TryingRun

-----------------------------------------------------------------------------
(* What the folds come to.                                                 *)

\* clear_connections only disconnects.
LEMMA ClearConnectionsEffect ==
  ASSUME NEW g \in Wires, NEW n \in Nodes
  PROVE  Rewired(g, ClearConnections(g, n), {})
<1> DEFINE ss == SetToSeq(Connected(g, n))
           D == {h \in Wires : Rewired(g, h, {})}
<1>1. Connected(g, n) \in SUBSET Sockets
  BY DEF Connected, SocketsOf, Wires
<1>2. ss \in Seq(Sockets)
  <2>1. IsFiniteSet(Connected(g, n))
    BY <1>1, SocketsFinite, FS_Subset
  <2>2. ss \in Seq(Connected(g, n))
    BY <2>1, ListsSet
  <2> QED  BY <1>1, <2>2, SeqMonotonic
<1>3. ClearConnections(g, n) = Clearing(g, ss)
  BY DEF ClearConnections, Clearing
<1> HIDE DEF ss
<1>4. g \in D
  BY RewiredMore
<1>5. ASSUME NEW h \in D, NEW k \in 1..Len(ss) PROVE ConnectIn(h, ss[k], NoNode) \in D
  <2>1. ss[k] \in Sockets /\ NoNode \in Source
    BY <1>2 DEF Source
  <2>2. ConnectIn(h, ss[k], NoNode) \in Wires
    BY <2>1, ConnectInEffect
  <2> QED  BY <2>1, <2>2, RewiredMore
<1> HIDE DEF D
<1>6. PICK r : ClearingRun(D, g, ss, r)
  BY <1>2, <1>4, <1>5, ClearingSteps
<1>7. Len(ss) \in 0..Len(ss)
  BY <1>2
<1>8. Clearing(g, ss) \in D
  BY <1>6, <1>7 DEF ClearingRun
<1> QED  BY <1>3, <1>8 DEF D

\* One more element at the end of a list.
LEMMA AppendedEffect ==
  ASSUME NEW T, NEW s \in Seq(T), NEW x \in T
  PROVE  /\ Append(s, x) \in Seq(T) /\ ToSet(Append(s, x)) = ToSet(s) \cup {x}
         /\ IsInjective(s) /\ x \notin ToSet(s) => IsInjective(Append(s, x))
<1> DEFINE t == Append(s, x)
           n == Len(s)
<1>1. n \in Nat /\ DOMAIN s = 1..n
  OBVIOUS
<1>2. /\ t \in Seq(T) /\ Len(t) = n + 1 /\ t[n + 1] = x
      /\ \A k \in 1..n : t[k] = s[k]
  BY AppendProperties
<1> HIDE DEF t
<1>3. DOMAIN t = 1..n + 1
  BY <1>1, <1>2
<1>4. \A k \in 1..n + 1 : k = n + 1 \/ k \in 1..n
  BY <1>1
<1>5. n + 1 \in 1..n + 1 /\ \A k \in 1..n : k \in 1..n + 1
  BY <1>1
<1> HIDE DEF n
<1>6. ToSet(t) = ToSet(s) \cup {x}
  BY <1>1, <1>2, <1>3, <1>4, <1>5 DEF ToSet
<1>7. ASSUME IsInjective(s), x \notin ToSet(s) PROVE IsInjective(t)
  <2>1. \A k \in 1..n : s[k] # x
    BY <1>1, <1>7 DEF ToSet
  <2>2. \A j, k \in 1..n : s[j] = s[k] => j = k
    BY <1>1, <1>7 DEF IsInjective
  <2>3. ASSUME NEW j \in 1..n + 1, NEW k \in 1..n + 1, t[j] = t[k] PROVE j = k
    BY <1>2, <1>4, <2>1, <2>2, <2>3
  <2> QED  BY <1>3, <2>3 DEF IsInjective
<1> QED  BY <1>2, <1>6, <1>7 DEF t

\* The elements of a list that are in a set: those, and no more.
LEMMA AmongEffect ==
  ASSUME NEW T, NEW s \in Seq(T), NEW set
  PROVE  /\ Among(s, set) \in Seq(T) /\ ToSet(Among(s, set)) = ToSet(s) \cap set
         /\ IsInjective(s) => IsInjective(Among(s, set))
<1> DEFINE n == Len(s)
           b == <<>>
           D == Seq(T)
           Past(k) == {s[j] : j \in 1..k}
<1>1. Among(s, set) = Picking(b, s, set)
  BY DEF Among, Pick, Picking
<1>2. n \in Nat /\ DOMAIN s = 1..n /\ \A k \in 1..n : s[k] \in T
  OBVIOUS
<1>3. b \in D
  OBVIOUS
<1>4. \A h \in D, k \in 1..Len(s) : Pick(h, s[k], set) \in D
  BY <1>2 DEF Pick
<1> HIDE DEF b
<1>11. PICK r : PickingRun(D, b, s, set, r)
  <2>1. s \in Seq(T)
    OBVIOUS
  <2> HIDE DEF D
  <2> QED  BY <1>3, <1>4, <2>1, PickingSteps
<1>5. /\ r \in [0..n -> D] /\ r[0] = b /\ Picking(b, s, set) = r[n]
      /\ \A k \in 1..n : r[k] = Pick(r[k - 1], s[k], set)
  BY <1>11 DEF PickingRun
<1> DEFINE Good(k) == /\ ToSet(r[k]) = Past(k) \cap set
                      /\ IsInjective(s) => IsInjective(r[k])
           S == {k \in 0..n : Good(k)}
<1>6. 0 \in S
  <2>1. ToSet(b) = {} /\ IsInjective(b)
    BY DEF b, ToSet, IsInjective
  <2>2. Past(0) = {} /\ 0 \in 0..n /\ r[0] = b
    BY <1>2, <1>5
  <2> HIDE DEF Past
  <2> QED  BY <2>1, <2>2
<1>7. ASSUME NEW k \in 0..n - 1, k \in S PROVE k + 1 \in S
  <2>1. k + 1 \in 1..n /\ (k + 1) - 1 = k /\ k \in 0..n
    BY <1>2
  <2>2. r[k + 1] = Pick(r[k], s[k + 1], set) /\ r[k] \in Seq(T) /\ s[k + 1] \in T
    BY <1>2, <1>5, <2>1
  <2>3. Past(k + 1) = Past(k) \cup {s[k + 1]}
    <3>1. 1..k + 1 = (1..k) \cup {k + 1}
      BY <2>1
    <3> QED  BY <3>1
  <2>4. IsInjective(s) => s[k + 1] \notin Past(k)
    <3>1. \A j \in 1..k : j \in 1..n /\ j # k + 1
      BY <1>2, <2>1
    <3> QED  BY <1>2, <2>1, <3>1 DEF IsInjective
  <2> HIDE DEF Past
  <2>5. ToSet(r[k]) = Past(k) \cap set /\ (IsInjective(s) => IsInjective(r[k]))
    BY <1>7
  <2>6. CASE s[k + 1] \in set
    <3>1. r[k + 1] = Append(r[k], s[k + 1])
      BY <2>2, <2>6 DEF Pick
    <3>2. /\ ToSet(r[k + 1]) = ToSet(r[k]) \cup {s[k + 1]}
          /\ IsInjective(r[k]) /\ s[k + 1] \notin ToSet(r[k]) => IsInjective(r[k + 1])
      BY <2>2, <3>1, AppendedEffect
    <3> QED  BY <2>1, <2>3, <2>4, <2>5, <2>6, <3>2
  <2>7. CASE s[k + 1] \notin set
    <3>1. r[k + 1] = r[k]
      BY <2>2, <2>7 DEF Pick
    <3> QED  BY <2>1, <2>3, <2>5, <2>7, <3>1
  <2> QED  BY <2>6, <2>7
<1> HIDE DEF S
<1>8. 0..n \subseteq S
  BY <1>2, <1>6, <1>7, NumbersUpTo
<1>9. Good(n) /\ r[n] \in Seq(T)
  <2>1. n \in 0..n
    BY <1>2
  <2> QED  BY <1>5, <1>8, <2>1 DEF S
<1>10. Past(n) = ToSet(s)
  BY <1>2 DEF ToSet
<1> QED  BY <1>1, <1>5, <1>9, <1>10

\* A list inserted into another.
LEMMA InsertedAllEffect ==
  ASSUME NEW T, NEW links \in Seq(T), NEW more \in Seq(T)
  PROVE  /\ InsertedAll(links, more) \in Seq(T)
         /\ ToSet(InsertedAll(links, more)) = ToSet(links) \cup ToSet(more)
<1> DEFINE n == Len(more)
           D == Seq(T)
           Past(k) == {more[j] : j \in 1..k}
<1>1. InsertedAll(links, more) = Inserting(links, more)
  BY DEF InsertedAll, Inserting, FoldLeft, MapThenFoldSet
<1>2. n \in Nat /\ DOMAIN more = 1..n /\ \A k \in 1..n : more[k] \in T
  OBVIOUS
<1>3. ASSUME NEW h \in D, NEW k \in 1..Len(more) PROVE Inserted(h, more[k]) \in D
  BY <1>2, InsertedEffect
<1>10. PICK r : InsertingRun(D, links, more, r)
  <2>1. links \in D /\ more \in Seq(T)
    OBVIOUS
  <2> HIDE DEF D
  <2> QED  BY <1>3, <2>1, InsertingSteps
<1>4. /\ r \in [0..n -> D] /\ r[0] = links /\ Inserting(links, more) = r[n]
      /\ \A k \in 1..n : r[k] = Inserted(r[k - 1], more[k])
  BY <1>10 DEF InsertingRun
<1> DEFINE S == {k \in 0..n : ToSet(r[k]) = ToSet(links) \cup Past(k)}
<1>5. 0 \in S
  <2>1. Past(0) = {} /\ 0 \in 0..n /\ r[0] = links
    BY <1>2, <1>4
  <2> HIDE DEF Past
  <2> QED  BY <2>1
<1>6. ASSUME NEW k \in 0..n - 1, k \in S PROVE k + 1 \in S
  <2>1. k + 1 \in 1..n /\ (k + 1) - 1 = k /\ k \in 0..n
    BY <1>2
  <2>2. r[k + 1] = Inserted(r[k], more[k + 1]) /\ r[k] \in Seq(T) /\ more[k + 1] \in T
    BY <1>2, <1>4, <2>1
  <2>3. Past(k + 1) = Past(k) \cup {more[k + 1]}
    <3>1. 1..k + 1 = (1..k) \cup {k + 1}
      BY <2>1
    <3> QED  BY <3>1
  <2> HIDE DEF Past
  <2>4. ToSet(r[k + 1]) = ToSet(r[k]) \cup {more[k + 1]}
    <3> DEFINE h == r[k]
               e == more[k + 1]
    <3>1. h \in Seq(T) /\ e \in T /\ r[k + 1] = Inserted(h, e)
      BY <2>2
    <3> HIDE DEF h, e
    <3>2. ToSet(Inserted(h, e)) = ToSet(h) \cup {e}
      BY <3>1, InsertedEffect
    <3> QED  BY <3>1, <3>2 DEF h, e
  <2> QED  BY <1>6, <2>1, <2>3, <2>4
<1> HIDE DEF S
<1>7. 0..n \subseteq S
  BY <1>2, <1>5, <1>6, NumbersUpTo
<1>8. ToSet(r[n]) = ToSet(links) \cup Past(n) /\ r[n] \in Seq(T)
  <2>1. n \in 0..n
    BY <1>2
  <2> QED  BY <1>4, <1>7, <2>1 DEF S
<1>9. Past(n) = ToSet(more)
  BY <1>2 DEF ToSet
<1> QED  BY <1>1, <1>4, <1>8, <1>9

-----------------------------------------------------------------------------
(* The operations of the patcher.                                          *)

Patchers == [ nodes : SUBSET Nodes, links : Seq(Links), dest : [Nodes -> Source],
              changed : BOOLEAN ]

\* Every link is between nodes of the patcher.
Ends(p) == \A l \in ToSet(p.links) : l.src \in p.nodes /\ l.dest \in p.nodes

\* What is kept of a link that is measured again.
Same(l, m) == l.src = m.src /\ l.dest = m.dest /\ l.socket = m.socket

\* The elements of a list of links are links.
LEMMA LinksIn ==
  ASSUME NEW p \in Patchers
  PROVE  ToSet(p.links) \subseteq Links /\ p.links \in Seq(Links)
  BY DEF Patchers, ToSet

\* The links between a node and another.
LEMMA PairEffect ==
  ASSUME NEW at \in [Nodes -> Int], NEW n \in Nodes, NEW m \in Nodes
  PROVE  /\ Pair(at, n, m) \in Seq(Links)
         /\ \A l \in ToSet(Pair(at, n, m)) : l.socket = 0 /\ l.src \in {n, m} /\ l.dest \in {n, m}
<1> DEFINE a == NewLink(at, n, m)
           b == NewLink(at, m, n)
           x == IF ~ Linkable(n, m) THEN <<>> ELSE <<a>>
           y == IF ~ Linkable(m, n) THEN <<>> ELSE <<b>>
<1>1. /\ a.src = n /\ a.dest = m /\ a.socket = 0 /\ (Linkable(n, m) => a \in Links)
      /\ b.src = m /\ b.dest = n /\ b.socket = 0 /\ (Linkable(m, n) => b \in Links)
  BY NewLinkEffect
<1> HIDE DEF a, b
<1>2. x \in Seq(Links) /\ Range(x) \subseteq {a}
  <2>1. CASE Linkable(n, m)
    <3>1. x = <<a>> /\ a \in Links
      BY <1>1, <2>1
    <3> HIDE DEF x
    <3> QED  BY <3>1 DEF Range
  <2>2. CASE ~ Linkable(n, m)
    <3>1. x = <<>>
      BY <2>2
    <3> HIDE DEF x
    <3> QED  BY <3>1 DEF Range
  <2> QED  BY <2>1, <2>2, Zenon
<1>3. y \in Seq(Links) /\ Range(y) \subseteq {b}
  <2>1. CASE Linkable(m, n)
    <3>1. y = <<b>> /\ b \in Links
      BY <1>1, <2>1
    <3> HIDE DEF y
    <3> QED  BY <3>1 DEF Range
  <2>2. CASE ~ Linkable(m, n)
    <3>1. y = <<>>
      BY <2>2
    <3> HIDE DEF y
    <3> QED  BY <3>1 DEF Range
  <2> QED  BY <2>1, <2>2, Zenon
<1>4. Pair(at, n, m) = x \o y
  BY DEF Pair, Linkable, a, b
<1> HIDE DEF x, y
<1>5. Pair(at, n, m) \in Seq(Links) /\ Range(Pair(at, n, m)) \subseteq {a, b}
  BY <1>2, <1>3, <1>4, ConcatProperties, RangeConcatenation
<1>6. ToSet(Pair(at, n, m)) = Range(Pair(at, n, m))
  BY DEF ToSet, Range
<1> QED  BY <1>1, <1>5, <1>6

\* q is p with one more node, and links that are not made.
Joined(p, q, n) ==
    /\ q \in Patchers /\ q.nodes = p.nodes \cup {n} /\ q.dest = p.dest
    /\ n \notin p.nodes => q.changed
    /\ ToSet(p.links) \subseteq ToSet(q.links)
    /\ \A l \in ToSet(q.links) :
          \/ l \in ToSet(p.links)
          \/ l.socket = 0 /\ l.src \in p.nodes \cup {n} /\ l.dest \in p.nodes \cup {n}

\* add_node links the node with the others.
LEMMA AddNodeEffect ==
  ASSUME NEW p \in Patchers, NEW at \in [Nodes -> Int], NEW order \in Seq(Nodes), NEW n \in Nodes
  PROVE  Joined(p, AddNode(p, at, order, n), n)
<1> DEFINE q == AddNode(p, at, order, n)
           others == Among(order, p.nodes)
           Made(l) == l.socket = 0 /\ l.src \in p.nodes \cup {n} /\ l.dest \in p.nodes \cup {n}
           D == {ls \in Seq(Links) : /\ ToSet(p.links) \subseteq ToSet(ls)
                                     /\ \A l \in ToSet(ls) : l \in ToSet(p.links) \/ Made(l)}
<1>1. CASE n \in p.nodes
  <2>1. q = p
    BY <1>1 DEF AddNode
  <2> HIDE DEF q
  <2>2. Joined(p, q, n)
    BY <1>1, <2>1 DEF Joined
  <2> QED  BY <2>2 DEF q
<1>2. CASE n \notin p.nodes
  <2>1. q = [p EXCEPT !.nodes = p.nodes \cup {n}, !.changed = TRUE,
                      !.links = Joining(p.links, others, at, n)]
    BY <1>2 DEF AddNode, Joining, Pair, FoldLeft, MapThenFoldSet
  <2> HIDE DEF q
  <2>2. others \in Seq(Nodes) /\ ToSet(others) = ToSet(order) \cap p.nodes
    BY AmongEffect
  <2> HIDE DEF others
  <2>3. \A k \in 1..Len(others) : others[k] \in Nodes /\ others[k] \in p.nodes
    BY <2>2 DEF ToSet
  <2>4. p.links \in D
    BY LinksIn
  <2>5. ASSUME NEW h \in D, NEW k \in 1..Len(others)
        PROVE  InsertedAll(h, Pair(at, n, others[k])) \in D
    <3> DEFINE m == others[k]
               x == Pair(at, n, m)
    <3>1. m \in Nodes /\ m \in p.nodes
      BY <2>3
    <3> HIDE DEF m
    <3>2. x \in Seq(Links) /\ \A l \in ToSet(x) : l.socket = 0 /\ l.src \in {n, m} /\ l.dest \in {n, m}
      <4>1. n \in Nodes /\ at \in [Nodes -> Int]
        OBVIOUS
      <4> HIDE DEF D, Made
      <4> QED  BY <3>1, <4>1, PairEffect
    <3> HIDE DEF x
    <3>3. /\ InsertedAll(h, x) \in Seq(Links)
          /\ ToSet(InsertedAll(h, x)) = ToSet(h) \cup ToSet(x)
      BY <3>2, InsertedAllEffect
    <3>4. \A l \in ToSet(x) : Made(l)
      BY <3>1, <3>2
    <3> HIDE DEF Made
    <3>5. InsertedAll(h, x) \in D
      BY <3>3, <3>4
    <3> QED  BY <3>5 DEF x, m
  <2>6. PICK r : JoiningRun(D, p.links, others, at, n, r)
    <3> HIDE DEF D
    <3> QED  BY <2>2, <2>4, <2>5, JoiningSteps
  <2>7. Len(others) \in 0..Len(others)
    BY <2>2
  <2> DEFINE links == Joining(p.links, others, at, n)
  <2>8. links \in D
    <3> HIDE DEF D
    <3> QED  BY <2>6, <2>7 DEF JoiningRun
  <2> HIDE DEF links
  <2>9. /\ q.nodes = p.nodes \cup {n} /\ q.dest = p.dest /\ q.changed /\ q.links = links
        /\ q \in Patchers
    BY <2>1, <2>8 DEF Patchers, links
  <2>10. Joined(p, q, n)
    BY <2>8, <2>9 DEF Joined
  <2> QED  BY <2>10 DEF q
<1> QED  BY <1>1, <1>2

\* set_param_node measures the links of a node again.
LEMMA SetParamNodeEffect ==
  ASSUME NEW p \in Patchers, NEW at \in [Nodes -> Int], NEW n \in Nodes
  PROVE  LET q == SetParamNode(p, at, n) IN
         /\ q \in Patchers /\ q.nodes = p.nodes /\ q.dest = p.dest
         /\ \A l \in ToSet(q.links) : \E m \in ToSet(p.links) : Same(l, m)
         /\ \A m \in ToSet(p.links) : \E l \in ToSet(q.links) : Same(l, m)
<1> DEFINE q == SetParamNode(p, at, n)
           Measured(l) == [ l EXCEPT !.dist = Dist(at, l.src, l.dest),
                                     !.center = IF l.dest = n THEN ToCenter(at, n) ELSE @ ]
           moved == LinksOf(p.links, n)
           others == LinksOfOthers(p.links, n)
           again == [k \in DOMAIN moved |-> Measured(moved[k])]
           links == InsertedAll(others, again)
<1> DEFINE changed == p.changed \/ moved # <<>>
<1>1. q = [p EXCEPT !.links = links, !.changed = changed] /\ changed \in BOOLEAN
  BY DEF SetParamNode
<1> HIDE DEF changed
<1>2. ToSet(p.links) \subseteq Links /\ p.links \in Seq(Links)
  BY LinksIn
<1>3. moved \in Seq(Links) /\ ToSet(moved) = {l \in ToSet(p.links) : IsEnd(l, n)}
  <2>1. /\ moved \in Seq(Links)
        /\ ToSet(moved) = ToSet(p.links) \cap {l \in ToSet(p.links) : IsEnd(l, n)}
    BY <1>2, AmongEffect DEF LinksOf
  <2> QED  BY <2>1
<1>4. others \in Seq(Links) /\ ToSet(others) = {l \in ToSet(p.links) : ~ IsEnd(l, n)}
  <2>1. /\ others \in Seq(Links)
        /\ ToSet(others) = ToSet(p.links) \cap {l \in ToSet(p.links) : ~ IsEnd(l, n)}
    BY <1>2, AmongEffect DEF LinksOfOthers
  <2> QED  BY <2>1
<1>5. ASSUME NEW l \in Links PROVE Measured(l) \in Links /\ Same(Measured(l), l)
  <2>1. /\ l \in [src : Nodes, dest : Nodes, dist : Nat, center : Nat, socket : Nat]
        /\ Linkable(l.src, l.dest) /\ l.socket \in 0 .. InCount[l.dest]
    BY DEF Links
  <2>2. Dist(at, l.src, l.dest) \in Nat /\ ToCenter(at, n) \in Nat
    BY <2>1, NewLinkEffect
  <2>3. /\ Measured(l) \in [src : Nodes, dest : Nodes, dist : Nat, center : Nat, socket : Nat]
        /\ Same(Measured(l), l)
    BY <2>1, <2>2 DEF Same
  <2> HIDE DEF Measured
  <2> QED  BY <2>1, <2>3 DEF Links, Same
<1> HIDE DEF Measured, moved, others
<1>6. /\ again \in Seq(Links) /\ DOMAIN again = DOMAIN moved
      /\ \A k \in DOMAIN moved : again[k] = Measured(moved[k])
  BY <1>3, <1>5
<1> HIDE DEF again
<1>7. links \in Seq(Links) /\ ToSet(links) = ToSet(others) \cup ToSet(again)
  BY <1>4, <1>6, InsertedAllEffect
<1> HIDE DEF links, q
<1>8. q \in Patchers /\ q.nodes = p.nodes /\ q.dest = p.dest /\ q.links = links
  BY <1>1, <1>7 DEF Patchers
<1>9. \A k \in DOMAIN moved : moved[k] \in Links /\ moved[k] \in ToSet(moved) /\ again[k] \in ToSet(again)
  BY <1>3, <1>6 DEF ToSet
<1>10. ASSUME NEW l \in ToSet(links) PROVE \E m \in ToSet(p.links) : Same(l, m)
  <2>1. CASE l \in ToSet(others)
    BY <1>4, <2>1 DEF Same
  <2>2. CASE l \in ToSet(again)
    <3>1. PICK k \in DOMAIN moved : l = Measured(moved[k])
      BY <1>6, <2>2 DEF ToSet
    <3> QED  BY <1>3, <1>5, <1>9, <3>1
  <2> QED  BY <1>7, <2>1, <2>2
<1>11. ASSUME NEW m \in ToSet(p.links) PROVE \E l \in ToSet(links) : Same(l, m)
  <2>1. CASE ~ IsEnd(m, n)
    BY <1>4, <1>7, <2>1 DEF Same
  <2>2. CASE IsEnd(m, n)
    <3>1. m \in ToSet(moved)
      BY <1>3, <2>2
    <3>2. PICK k \in DOMAIN moved : m = moved[k]
      BY <3>1 DEF ToSet
    <3>3. again[k] = Measured(m) /\ again[k] \in ToSet(links) /\ m \in Links
      BY <1>6, <1>7, <1>9, <3>2
    <3> QED  BY <1>5, <3>3
  <2> QED  BY <2>1, <2>2
<1> QED  BY <1>8, <1>10, <1>11 DEF q

\* The socket of a link that has one.
LEMMA SocketOfLink ==
  ASSUME NEW l \in Links, l.socket > 0
  PROVE  <<l.dest, l.socket>> \in Sockets /\ l.src \in Nodes
<1>1. l.dest \in Nodes /\ l.src \in Nodes /\ l.socket \in 0 .. InCount[l.dest] /\ InCount[l.dest] \in Nat
  BY NodesAssumption DEF Links
<1>2. l.socket \in 1 .. InCount[l.dest]
  BY <1>1
<1> QED  BY <1>1, <1>2, SocketOf

\* A link that is undone is not made, and no other is then.
LEMMA UndoLinkEffect ==
  ASSUME NEW g \in Wires, NEW l \in Links
  PROVE  LET h == UndoLink(g, l) IN
         /\ h \in Wires /\ ~ IsLinked(h, l)
         /\ \A f \in Wires, S \in SUBSET Nodes : Rewired(f, g, S) => Rewired(f, h, S)
         /\ \A s \in Sockets : \/ h.wanted[s] = g.wanted[s]
                               \/ h.wanted[s] = NoNode /\ s = <<l.dest, l.socket>>
<1> DEFINE h == UndoLink(g, l)
           s == <<l.dest, l.socket>>
<1>1. CASE IsLinked(g, l)
  <2>1. l.socket > 0 /\ h = ConnectIn(g, s, NoNode)
    BY <1>1 DEF IsLinked, UndoLink
  <2>2. s \in Sockets /\ l.src \in Nodes /\ NoNode \in Source
    BY <2>1, SocketOfLink DEF Source
  <2> HIDE DEF h, s
  <2>3. h \in Wires /\ h.wanted = [g.wanted EXCEPT ![s] = NoNode]
    BY <2>1, <2>2, ConnectInEffect
  <2>4. g.wanted \in [Sockets -> Source]
    BY DEF Wires
  <2>5. h.wanted[s] = NoNode /\ \A t \in Sockets : h.wanted[t] = g.wanted[t] \/ (h.wanted[t] = NoNode /\ t = s)
    BY <2>2, <2>3, <2>4
  <2>6. h.wanted[s] # l.src
    BY <2>2, <2>5, NodesAssumption
  <2>7. ~ IsLinked(h, l)
    BY <2>6 DEF IsLinked, s
  <2>8. \A f \in Wires, S \in SUBSET Nodes : Rewired(f, g, S) => Rewired(f, h, S)
    BY <2>1, <2>2, RewiredMore
  <2> QED  BY <2>3, <2>5, <2>7, <2>8 DEF h, s
<1>2. CASE ~ IsLinked(g, l)
  <2>1. h = g
    BY <1>2 DEF UndoLink
  <2> HIDE DEF h
  <2> QED  BY <1>2, <2>1 DEF h
<1> QED  BY <1>1, <1>2

\* delete_node undoes the links of the node, and forgets them.
LEMMA DeleteNodeEffect ==
  ASSUME NEW p \in Patchers, NEW g \in Wires, NEW n \in Nodes, Ends(p)
  PROVE  LET r == DeleteNode(p, g, n) IN
         /\ Rewired(g, r.g, {}) /\ r.p \in Patchers /\ r.p.nodes = p.nodes \ {n}
         /\ ToSet(r.p.links) = {l \in ToSet(p.links) : ~ IsEnd(l, n)}
         /\ \A l \in ToSet(p.links) : IsEnd(l, n) => ~ IsLinked(r.g, l)
         /\ \A m \in Nodes \ {n} : r.p.dest[m] = p.dest[m]
<1> DEFINE r == DeleteNode(p, g, n)
<1>1. ToSet(p.links) \subseteq Links /\ p.links \in Seq(Links)
  BY LinksIn
<1>2. CASE n \notin p.nodes
  <2>1. r.g = g /\ r.p = p
    BY <1>2 DEF DeleteNode
  <2>2. \A l \in ToSet(p.links) : ~ IsEnd(l, n)
    BY <1>2 DEF Ends, IsEnd
  <2>3. Rewired(g, g, {})
    BY RewiredMore
  <2> HIDE DEF r
  <2>4. p.nodes \ {n} = p.nodes
    BY <1>2
  <2>5. ToSet(p.links) = {l \in ToSet(p.links) : ~ IsEnd(l, n)}
    BY <2>2
  <2> QED  BY <2>1, <2>2, <2>3, <2>4, <2>5 DEF r
<1>3. CASE n \in p.nodes
  <2> DEFINE mine == LinksOf(p.links, n)
             others == LinksOfOthers(p.links, n)
             D == {h \in Wires : Rewired(g, h, {})}
             dest == [p.dest EXCEPT ![n] = NoNode]
             nodes == p.nodes \ {n}
  <2>1. /\ r.g = Undoing(g, mine)
        /\ r.p = [p EXCEPT !.nodes = nodes, !.changed = TRUE, !.links = others, !.dest = dest]
    BY <1>3 DEF DeleteNode, Undoing, FoldLeft, MapThenFoldSet
  <2> HIDE DEF r
  <2>2. mine \in Seq(Links) /\ ToSet(mine) = {l \in ToSet(p.links) : IsEnd(l, n)}
    <3>1. /\ mine \in Seq(Links)
          /\ ToSet(mine) = ToSet(p.links) \cap {l \in ToSet(p.links) : IsEnd(l, n)}
      BY <1>1, AmongEffect DEF LinksOf
    <3> QED  BY <3>1
  <2>3. others \in Seq(Links) /\ ToSet(others) = {l \in ToSet(p.links) : ~ IsEnd(l, n)}
    <3>1. /\ others \in Seq(Links)
          /\ ToSet(others) = ToSet(p.links) \cap {l \in ToSet(p.links) : ~ IsEnd(l, n)}
      BY <1>1, AmongEffect DEF LinksOfOthers
    <3> QED  BY <3>1
  <2>4. dest \in [Nodes -> Source] /\ \A m \in Nodes \ {n} : dest[m] = p.dest[m]
    BY DEF Patchers, Source
  <2> HIDE DEF mine, others, dest
  <2>5. r.p \in Patchers /\ r.p.nodes = p.nodes \ {n} /\ r.p.links = others /\ r.p.dest = dest
    BY <2>1, <2>3, <2>4 DEF Patchers
  <2>6. g \in D
    BY RewiredMore
  <2>7. \A k \in 1..Len(mine) : mine[k] \in Links
    BY <2>2
  <2>8. ASSUME NEW h \in D, NEW k \in 1..Len(mine) PROVE UndoLink(h, mine[k]) \in D
    <3>1. mine[k] \in Links /\ h \in Wires /\ Rewired(g, h, {})
      BY <2>7
    <3> QED  BY <3>1, UndoLinkEffect
  <2>9. PICK f : UndoingRun(D, g, mine, f)
    <3> HIDE DEF D
    <3> QED  BY <2>2, <2>6, <2>8, UndoingSteps
  <2> DEFINE m == Len(mine)
             S == {k \in 0..m : \A j \in 1..k : ~ IsLinked(f[k], mine[j])}
  <2>10. /\ f \in [0..m -> D] /\ f[0] = g /\ Undoing(g, mine) = f[m]
         /\ \A k \in 1..m : f[k] = UndoLink(f[k - 1], mine[k])
    BY <2>9 DEF UndoingRun
  <2>11. m \in Nat /\ DOMAIN mine = 1..m
    BY <2>2
  <2> HIDE DEF m
  <2>12. 0 \in S
    BY <2>11
  <2>13. ASSUME NEW k \in 0..m - 1, k \in S PROVE k + 1 \in S
    <3>1. k + 1 \in 1..m /\ (k + 1) - 1 = k /\ k \in 0..m /\ k + 1 \in 0..m
      BY <2>11
    <3> DEFINE a == f[k]
               l == mine[k + 1]
    <3>2. a \in Wires /\ l \in Links /\ f[k + 1] = UndoLink(a, l)
      BY <2>7, <2>10, <3>1 DEF m
    <3>3. ~ IsLinked(f[k + 1], l)
      BY <3>2, UndoLinkEffect
    <3>4. ASSUME NEW j \in 1..k PROVE ~ IsLinked(f[k + 1], mine[j])
      <4>1. ~ IsLinked(a, mine[j]) /\ mine[j] \in Links
        <5>1. j \in 1..m
          BY <2>11, <3>1
        <5> QED  BY <2>7, <2>13, <5>1 DEF m
      <4> DEFINE s == <<mine[j].dest, mine[j].socket>>
      <4>2. CASE mine[j].socket > 0
        <5>1. s \in Sockets /\ mine[j].src \in Nodes
          BY <4>1, <4>2, SocketOfLink
        <5> HIDE DEF s, a, l
        <5>2. f[k + 1].wanted[s] = a.wanted[s] \/ f[k + 1].wanted[s] = NoNode
          BY <3>2, <5>1, UndoLinkEffect
        <5>3. a.wanted[s] # mine[j].src
          BY <4>1, <4>2 DEF IsLinked, s
        <5>4. f[k + 1].wanted[s] # mine[j].src
          BY <5>1, <5>2, <5>3, NodesAssumption
        <5> QED  BY <5>4 DEF IsLinked, s
      <4>3. CASE ~ (mine[j].socket > 0)
        BY <4>3 DEF IsLinked
      <4> QED  BY <4>2, <4>3
    <3>5. \A j \in 1..k + 1 : j \in 1..k \/ j = k + 1
      BY <3>1, <2>11
    <3> QED  BY <3>1, <3>3, <3>4, <3>5
  <2> HIDE DEF S
  <2>14. 0..m \subseteq S
    BY <2>11, <2>12, <2>13, NumbersUpTo
  <2>15. \A j \in 1..m : ~ IsLinked(r.g, mine[j])
    <3>1. m \in 0..m
      BY <2>11
    <3> QED  BY <2>1, <2>10, <2>14, <3>1 DEF S
  <2>16. Rewired(g, r.g, {})
    <3>1. m \in 0..m
      BY <2>11
    <3> QED  BY <2>1, <2>10, <3>1
  <2>17. \A l \in ToSet(p.links) : IsEnd(l, n) => ~ IsLinked(r.g, l)
    <3>1. \A l \in ToSet(mine) : ~ IsLinked(r.g, l)
      BY <2>11, <2>15 DEF ToSet
    <3> QED  BY <2>2, <3>1
  <2> QED  BY <2>3, <2>4, <2>5, <2>16, <2>17 DEF r
<1> QED  BY <1>2, <1>3

\* The socket that a link may take is one of its destination, or none.
LEMMA FindInSockEffect ==
  ASSUME NEW g \in Wires, NEW at \in [Nodes -> Int], NEW l \in Links
  PROVE  FindInSock(g, at, l) \in 0 .. InCount[l.dest]
<1> DEFINE Src(i) == g.wanted[<<l.dest, i>>]
           Far(i) == Dist(at, Src(i), l.dest)
           n == InCount[l.dest]
           sockets == 1 .. n
           free == {i \in sockets : Src(i) = NoNode}
           farther == {i \in sockets \ free : Far(i) >= l.dist}
           fixed == Table[l.src, l.dest]
           worst == {i \in farther : \A j \in farther : Far(j) <= Far(i)}
           any == CASE free # {} -> Min(free) [] free = {} /\ farther = {} -> 0 [] OTHER -> Max(worst)
           nearer == fixed \in free \/ Dist(at, l.src, l.dest) < Far(fixed)
<1>1. FindInSock(g, at, l) = IF fixed = 0 THEN any ELSE IF nearer THEN fixed ELSE 0
  BY DEF FindInSock
<1>2. l.dest \in Nodes /\ l.src \in Nodes /\ Linkable(l.src, l.dest) /\ n \in Nat
  BY NodesAssumption DEF Links
<1>3. fixed \in 0..n
  BY <1>2, TableAssumption, Zenon DEF Linkable
<1>4. \A i \in sockets : Src(i) \in Source
  BY <1>2, SocketOf DEF Wires
<1>5. free \in SUBSET (1..n) /\ farther \in SUBSET (1..n) /\ worst \in SUBSET (1..n)
  OBVIOUS
<1>6. free # {} => Min(free) \in 1..n
  <2> HIDE DEF free
  <2> QED  BY <1>2, <1>5, SmallestUpTo
<1>7. farther # {} => Max(worst) \in 1..n
  <2> SUFFICES ASSUME farther # {} PROVE Max(worst) \in 1..n
    OBVIOUS
  <2> DEFINE F == [i \in farther |-> Far(i)]
  <2>1. \A i \in farther : Far(i) \in Nat
    <3> TAKE i \in farther
    <3>1. Src(i) \in Nodes
      BY <1>4 DEF Source
    <3> QED  BY <1>2, <3>1, NewLinkEffect
  <2>2. F \in [farther -> Int]
    BY <2>1
  <2>3. PICK x \in farther : \A y \in farther : F[y] <= F[x]
    <3> HIDE DEF F, farther
    <3> QED  BY <1>2, <1>5, <2>2, LargestValue
  <2>4. x \in worst
    BY <2>3
  <2> HIDE DEF worst
  <2> QED  BY <1>2, <1>5, <2>4, LargestUpTo
<1> HIDE DEF free, farther, worst
<1>8. any \in 0..n
  BY <1>2, <1>6, <1>7
<1> HIDE DEF any, fixed, nearer
<1>9. 0 \in 0..n
  BY <1>2
<1> QED  BY <1>1, <1>3, <1>8, <1>9

-----------------------------------------------------------------------------
(* One turn of update ().                                                  *)

States == [ g : Wires, links : Seq(Links), dest : [Nodes -> Source], used : SUBSET Nodes ]

\* A socket is asked to read a node because a link between the two is made.
Sourced(g, links) ==
    \A s \in Sockets : g.wanted[s] # NoNode =>
        \E k \in DOMAIN links : IsLinked(g, links[k]) /\ <<links[k].dest, links[k].socket>> = s

\* The links up to k were tried, and those behind it not yet: of the first, the
\* ones that are made have different sources, or the same socket, and the
\* destination of the source is noted, as it is from the time before for the
\* others whose source is not taken.
Tried(u, k) ==
    /\ \A j \in DOMAIN u.links : IsLinked(u.g, u.links[j]) /\ j <= k =>
          u.links[j].src \in u.used /\ u.dest[u.links[j].src] = u.links[j].dest
    /\ \A j \in DOMAIN u.links : IsLinked(u.g, u.links[j]) /\ j > k =>
          u.links[j].src \in u.used \/ u.dest[u.links[j].src] = u.links[j].dest
    /\ \A i, j \in DOMAIN u.links :
          /\ i <= k /\ j <= k /\ u.links[i].src = u.links[j].src
          /\ IsLinked(u.g, u.links[i]) /\ IsLinked(u.g, u.links[j])
          => u.links[i].dest = u.links[j].dest /\ u.links[i].socket = u.links[j].socket

\* The links are the same but for their sockets.
SameEnds(links, more) ==
    /\ DOMAIN links = DOMAIN more
    /\ \A k \in DOMAIN links : links[k].src = more[k].src /\ links[k].dest = more[k].dest

\* A link that is given another socket.
LEMMA SocketGiven ==
  ASSUME NEW links \in Seq(Links), NEW k \in DOMAIN links, NEW x \in 0 .. InCount[links[k].dest]
  PROVE  LET more == [links EXCEPT ![k].socket = x] IN
         /\ more \in Seq(Links) /\ SameEnds(links, more) /\ more[k].socket = x
         /\ \A j \in DOMAIN links \ {k} : more[j] = links[j]
<1>1. links[k] \in Links /\ Len(links) \in Nat /\ DOMAIN links = 1..Len(links)
  OBVIOUS
<1> DEFINE l == [links[k] EXCEPT !.socket = x]
           more == [links EXCEPT ![k] = l]
<1>2. l \in Links /\ l.src = links[k].src /\ l.dest = links[k].dest /\ l.socket = x
  BY <1>1 DEF Links
<1> HIDE DEF l
<1>3. /\ more \in Seq(Links) /\ DOMAIN more = DOMAIN links
      /\ more[k] = l /\ \A j \in DOMAIN links \ {k} : more[j] = links[j]
  BY <1>1, <1>2
<1> HIDE DEF more
<1>4. SameEnds(links, more)
  BY <1>2, <1>3 DEF SameEnds
<1> QED  BY <1>2, <1>3, <1>4 DEF more, l

\* The link is made already, and keeps its socket.
LEMMA TryMade ==
  ASSUME NEW u \in States, NEW v \in States, NEW k \in DOMAIN u.links,
         v.g = u.g, v.links = u.links, v.dest = u.dest,
         v.used = u.used \cup {u.links[k].src},
         IsLinked(u.g, u.links[k]), u.links[k].src \notin u.used
  PROVE  Tried(u, k - 1) => Tried(v, k)
<1> SUFFICES ASSUME Tried(u, k - 1) PROVE Tried(v, k)
  OBVIOUS
<1>1. \A j \in DOMAIN u.links : j <= k - 1 \/ j = k \/ j > k
  BY DEF States
<1>2. k \in Nat /\ \A j \in DOMAIN u.links : j \in Nat
  BY DEF States
<1>3. \A j \in DOMAIN u.links : IsLinked(u.g, u.links[j]) /\ j <= k - 1 =>
         u.links[j].src \in u.used /\ u.dest[u.links[j].src] = u.links[j].dest
  BY DEF Tried
<1>4. \A j \in DOMAIN u.links : IsLinked(u.g, u.links[j]) /\ j > k - 1 =>
         u.links[j].src \in u.used \/ u.dest[u.links[j].src] = u.links[j].dest
  BY DEF Tried
<1>5. \A i, j \in DOMAIN u.links :
         /\ i <= k - 1 /\ j <= k - 1 /\ u.links[i].src = u.links[j].src
         /\ IsLinked(u.g, u.links[i]) /\ IsLinked(u.g, u.links[j])
         => u.links[i].dest = u.links[j].dest /\ u.links[i].socket = u.links[j].socket
  BY DEF Tried
<1>6. ASSUME NEW j \in DOMAIN v.links, IsLinked(v.g, v.links[j]), j <= k
      PROVE  v.links[j].src \in v.used /\ v.dest[v.links[j].src] = v.links[j].dest
  <2>1. CASE j = k
    <3>1. k > k - 1
      BY <1>2
    <3> QED  BY <1>4, <2>1, <3>1
  <2>2. CASE j # k
    <3>1. j <= k - 1
      BY <1>2, <1>6, <2>2
    <3> QED  BY <1>3, <1>6, <3>1
  <2> QED  BY <2>1, <2>2
<1>7. ASSUME NEW j \in DOMAIN v.links, IsLinked(v.g, v.links[j]), j > k
      PROVE  v.links[j].src \in v.used \/ v.dest[v.links[j].src] = v.links[j].dest
  <2>1. j > k - 1
    BY <1>2, <1>7
  <2> QED  BY <1>4, <1>7, <2>1
<1>8. ASSUME NEW i \in DOMAIN v.links, NEW j \in DOMAIN v.links,
             i <= k, j <= k, v.links[i].src = v.links[j].src,
             IsLinked(v.g, v.links[i]), IsLinked(v.g, v.links[j])
      PROVE  v.links[i].dest = v.links[j].dest /\ v.links[i].socket = v.links[j].socket
  <2>1. (i <= k - 1 \/ i = k) /\ (j <= k - 1 \/ j = k)
    BY <1>2, <1>8
  <2>2. ~ (i = k /\ j <= k - 1) /\ ~ (j = k /\ i <= k - 1)
    BY <1>3, <1>8
  <2> QED  BY <1>5, <1>8, <2>1, <2>2
<1> QED  BY <1>6, <1>7, <1>8 DEF Tried

\* The link is undone, or was not made and cannot be.
LEMMA TryUndone ==
  ASSUME NEW u \in States, NEW v \in States, NEW k \in DOMAIN u.links,
         v.g = UndoLink(u.g, u.links[k]), v.dest = u.dest, v.used = u.used,
         DOMAIN v.links = DOMAIN u.links, v.links[k].socket = 0,
         \A j \in DOMAIN u.links \ {k} : v.links[j] = u.links[j]
  PROVE  /\ Sourced(u.g, u.links) => Sourced(v.g, v.links)
         /\ Tried(u, k - 1) => Tried(v, k)
<1>1. k \in Nat /\ \A j \in DOMAIN u.links : j \in Nat /\ u.links[j] \in Links
  BY DEF States
<1>2. u.g \in Wires /\ u.links[k] \in Links
  BY DEF States
<1> DEFINE p == <<u.links[k].dest, u.links[k].socket>>
<1>3. /\ ~ IsLinked(v.g, u.links[k])
      /\ \A s \in Sockets : \/ v.g.wanted[s] = u.g.wanted[s]
                            \/ v.g.wanted[s] = NoNode /\ s = p
  BY <1>2, UndoLinkEffect
<1>4. ~ IsLinked(v.g, v.links[k])
  BY DEF IsLinked
<1>5. ASSUME NEW j \in DOMAIN u.links, IsLinked(v.g, v.links[j])
      PROVE  j # k /\ IsLinked(u.g, u.links[j]) /\ v.links[j] = u.links[j]
  <2> DEFINE s == <<u.links[j].dest, u.links[j].socket>>
  <2>1. j # k /\ v.links[j] = u.links[j] /\ u.links[j].socket > 0 /\ v.g.wanted[s] = u.links[j].src
    BY <1>4, <1>5 DEF IsLinked
  <2>2. s \in Sockets /\ u.links[j].src \in Nodes
    BY <1>1, <2>1, SocketOfLink
  <2> HIDE DEF s
  <2>3. u.g.wanted[s] = u.links[j].src
    BY <1>3, <2>1, <2>2, NodesAssumption
  <2> QED  BY <2>1, <2>3 DEF IsLinked, s
<1>6. ASSUME Sourced(u.g, u.links), NEW s \in Sockets, v.g.wanted[s] # NoNode
      PROVE  \E j \in DOMAIN v.links :
                IsLinked(v.g, v.links[j]) /\ <<v.links[j].dest, v.links[j].socket>> = s
  <2>1. v.g.wanted[s] = u.g.wanted[s]
    BY <1>3, <1>6
  <2>2. PICK j \in DOMAIN u.links :
           IsLinked(u.g, u.links[j]) /\ <<u.links[j].dest, u.links[j].socket>> = s
    BY <1>6, <2>1 DEF Sourced
  <2>3. IsLinked(v.g, u.links[j])
    BY <2>1, <2>2 DEF IsLinked
  <2>4. j # k
    BY <1>3, <2>3
  <2> QED  BY <2>2, <2>3, <2>4
<1>7. Sourced(u.g, u.links) => Sourced(v.g, v.links)
  BY <1>6 DEF Sourced
<1>8. ASSUME Tried(u, k - 1) PROVE Tried(v, k)
  <2>1. \A j \in DOMAIN u.links : j # k => (j <= k <=> j <= k - 1) /\ (j > k <=> j > k - 1)
    BY <1>1
  <2>2. ASSUME NEW j \in DOMAIN v.links, IsLinked(v.g, v.links[j]), j <= k
        PROVE  v.links[j].src \in v.used /\ v.dest[v.links[j].src] = v.links[j].dest
    BY <1>5, <1>8, <2>1, <2>2 DEF Tried
  <2>3. ASSUME NEW j \in DOMAIN v.links, IsLinked(v.g, v.links[j]), j > k
        PROVE  v.links[j].src \in v.used \/ v.dest[v.links[j].src] = v.links[j].dest
    BY <1>5, <1>8, <2>1, <2>3 DEF Tried
  <2>4. ASSUME NEW i \in DOMAIN v.links, NEW j \in DOMAIN v.links,
               i <= k, j <= k, v.links[i].src = v.links[j].src,
               IsLinked(v.g, v.links[i]), IsLinked(v.g, v.links[j])
        PROVE  v.links[i].dest = v.links[j].dest /\ v.links[i].socket = v.links[j].socket
    BY <1>5, <1>8, <2>1, <2>4 DEF Tried
  <2> QED  BY <2>2, <2>3, <2>4 DEF Tried
<1> QED  BY <1>7, <1>8

\* The link is made, in the socket of another or in a free one.
LEMMA TryConnected ==
  ASSUME NEW u \in States, NEW v \in States, NEW k \in DOMAIN u.links,
         NEW q \in Sockets, q = <<u.links[k].dest, v.links[k].socket>>,
         v.g.wanted = [u.g.wanted EXCEPT ![q] = u.links[k].src],
         v.dest = [u.dest EXCEPT ![u.links[k].src] = u.links[k].dest],
         v.used = u.used \cup {u.links[k].src},
         DOMAIN v.links = DOMAIN u.links, v.links[k].src = u.links[k].src,
         v.links[k].dest = u.links[k].dest, v.links[k].socket > 0,
         \A j \in DOMAIN u.links \ {k} : v.links[j] = u.links[j],
         ~ IsLinked(u.g, u.links[k]), u.links[k].src \notin u.used
  PROVE  /\ Sourced(u.g, u.links) => Sourced(v.g, v.links)
         /\ Tried(u, k - 1) => Tried(v, k)
<1> DEFINE n == u.links[k].src
           m == u.links[k].dest
<1>1. k \in Nat /\ \A j \in DOMAIN u.links : j \in Nat /\ u.links[j] \in Links
  BY DEF States
<1>2. u.g.wanted \in [Sockets -> Source] /\ u.dest \in [Nodes -> Source]
  BY DEF States, Wires
<1>3. n \in Nodes /\ m \in Nodes
  BY <1>1 DEF Links
<1>4. v.g.wanted[q] = n /\ \A s \in Sockets \ {q} : v.g.wanted[s] = u.g.wanted[s]
  BY <1>2
<1>5. v.dest[n] = m /\ \A a \in Nodes \ {n} : v.dest[a] = u.dest[a]
  BY <1>2, <1>3
<1>6. IsLinked(v.g, v.links[k]) /\ <<v.links[k].dest, v.links[k].socket>> = q
  BY <1>4 DEF IsLinked
<1> DEFINE There(l) == l.src = n /\ <<l.dest, l.socket>> = q
<1>7. ASSUME NEW j \in DOMAIN u.links, IsLinked(v.g, v.links[j])
      PROVE  \/ There(v.links[j])
             \/ j # k /\ IsLinked(u.g, u.links[j]) /\ v.links[j] = u.links[j]
  <2>1. CASE j = k
    BY <1>6, <2>1
  <2>2. CASE j # k
    <3> DEFINE s == <<u.links[j].dest, u.links[j].socket>>
    <3>1. v.links[j] = u.links[j] /\ u.links[j].socket > 0 /\ v.g.wanted[s] = u.links[j].src
      BY <1>7, <2>2 DEF IsLinked
    <3>2. s \in Sockets
      BY <1>1, <3>1, SocketOfLink
    <3>3. CASE s = q
      BY <1>4, <3>1, <3>3
    <3>4. CASE s # q
      <4>1. u.g.wanted[s] = u.links[j].src
        BY <1>4, <3>1, <3>2, <3>4
      <4> QED  BY <2>2, <3>1, <4>1 DEF IsLinked
    <3> QED  BY <3>3, <3>4
  <2> QED  BY <2>1, <2>2
<1>8. ASSUME Sourced(u.g, u.links), NEW s \in Sockets, v.g.wanted[s] # NoNode
      PROVE  \E j \in DOMAIN v.links :
                IsLinked(v.g, v.links[j]) /\ <<v.links[j].dest, v.links[j].socket>> = s
  <2>1. CASE s = q
    BY <1>6, <2>1
  <2>2. CASE s # q
    <3>1. v.g.wanted[s] = u.g.wanted[s]
      BY <1>4, <2>2
    <3>2. PICK j \in DOMAIN u.links :
             IsLinked(u.g, u.links[j]) /\ <<u.links[j].dest, u.links[j].socket>> = s
      BY <1>8, <3>1 DEF Sourced
    <3>3. j # k
      BY <3>2
    <3>4. IsLinked(v.g, v.links[j])
      BY <3>1, <3>2, <3>3 DEF IsLinked
    <3> QED  BY <3>2, <3>3, <3>4
  <2> QED  BY <2>1, <2>2
<1>9. Sourced(u.g, u.links) => Sourced(v.g, v.links)
  BY <1>8 DEF Sourced
<1>10. ASSUME Tried(u, k - 1) PROVE Tried(v, k)
  <2>1. \A j \in DOMAIN u.links : j # k => (j <= k <=> j <= k - 1) /\ (j > k <=> j > k - 1)
    BY <1>1
  <2>2. \A j \in DOMAIN v.links : There(v.links[j]) => v.links[j].src = n /\ v.links[j].dest = m
    OBVIOUS
  <2> HIDE DEF There
  <2>3. \A j \in DOMAIN u.links : u.links[j].src \in Nodes
    BY <1>1 DEF Links
  <2>4. /\ \A j \in DOMAIN u.links : j # k /\ j <= k /\ IsLinked(u.g, u.links[j]) =>
               u.links[j].src \in u.used /\ u.dest[u.links[j].src] = u.links[j].dest
        /\ \A i, j \in DOMAIN u.links :
              /\ i # k /\ j # k /\ i <= k /\ j <= k /\ u.links[i].src = u.links[j].src
              /\ IsLinked(u.g, u.links[i]) /\ IsLinked(u.g, u.links[j])
              => u.links[i].dest = u.links[j].dest /\ u.links[i].socket = u.links[j].socket
    BY <1>10, <2>1 DEF Tried
  <2>5. ASSUME NEW j \in DOMAIN u.links, j # k, j <= k, IsLinked(u.g, u.links[j])
        PROVE  /\ u.links[j].src \in u.used /\ u.dest[u.links[j].src] = u.links[j].dest
               /\ u.links[j].src # n
    BY <2>5, <2>4
  <2>6. ASSUME NEW j \in DOMAIN v.links, IsLinked(v.g, v.links[j]), j <= k
        PROVE  v.links[j].src \in v.used /\ v.dest[v.links[j].src] = v.links[j].dest
    <3>1. CASE There(v.links[j])
      BY <1>5, <2>2, <3>1
    <3>2. CASE ~ There(v.links[j])
      <4>1. j # k /\ IsLinked(u.g, u.links[j]) /\ v.links[j] = u.links[j]
        BY <1>7, <2>6, <3>2
      <4>2. /\ u.links[j].src \in u.used /\ u.dest[u.links[j].src] = u.links[j].dest
            /\ u.links[j].src # n /\ u.links[j].src \in Nodes
        BY <2>3, <2>5, <2>6, <4>1
      <4> QED  BY <1>5, <4>1, <4>2
    <3> QED  BY <3>1, <3>2
  <2>7. ASSUME NEW j \in DOMAIN v.links, IsLinked(v.g, v.links[j]), j > k
        PROVE  v.links[j].src \in v.used \/ v.dest[v.links[j].src] = v.links[j].dest
    <3>1. CASE There(v.links[j])
      BY <2>2, <3>1
    <3>2. CASE ~ There(v.links[j])
      <4>1. j # k /\ IsLinked(u.g, u.links[j]) /\ v.links[j] = u.links[j]
        BY <1>7, <2>7, <3>2
      <4>2. u.links[j].src \in u.used \/ u.dest[u.links[j].src] = u.links[j].dest
        BY <1>10, <2>1, <2>7, <4>1 DEF Tried
      <4> QED  BY <1>5, <2>3, <4>1, <4>2
    <3> QED  BY <3>1, <3>2
  <2>8. ASSUME NEW i \in DOMAIN v.links, NEW j \in DOMAIN v.links,
               i <= k, j <= k, v.links[i].src = v.links[j].src,
               IsLinked(v.g, v.links[i]), IsLinked(v.g, v.links[j])
        PROVE  v.links[i].dest = v.links[j].dest /\ v.links[i].socket = v.links[j].socket
    <3>1. CASE There(v.links[i]) /\ There(v.links[j])
      BY <3>1 DEF There
    <3>2. CASE ~ There(v.links[i])
      <4>1. i # k /\ IsLinked(u.g, u.links[i]) /\ v.links[i] = u.links[i]
        BY <1>7, <2>8, <3>2
      <4>2. u.links[i].src # n
        BY <2>5, <2>8, <4>1
      <4>3. ~ There(v.links[j])
        BY <2>2, <2>8, <4>1, <4>2
      <4>4. j # k /\ IsLinked(u.g, u.links[j]) /\ v.links[j] = u.links[j]
        BY <1>7, <2>8, <4>3
      <4> QED  BY <2>8, <2>4, <4>1, <4>4
    <3>3. CASE ~ There(v.links[j])
      <4>1. j # k /\ IsLinked(u.g, u.links[j]) /\ v.links[j] = u.links[j]
        BY <1>7, <2>8, <3>3
      <4>2. u.links[j].src # n
        BY <2>5, <2>8, <4>1
      <4>3. ~ There(v.links[i])
        BY <2>2, <2>8, <4>1, <4>2
      <4>4. i # k /\ IsLinked(u.g, u.links[i]) /\ v.links[i] = u.links[i]
        BY <1>7, <2>8, <4>3
      <4> QED  BY <2>8, <2>4, <4>1, <4>4
    <3> QED  BY <3>1, <3>2, <3>3
  <2> QED  BY <2>6, <2>7, <2>8 DEF Tried
<1> QED  BY <1>9, <1>10

\* One turn, whatever it does.
LEMMA TryLinkEffect ==
  ASSUME NEW u \in States, NEW k \in DOMAIN u.links, NEW at \in [Nodes -> Int]
  PROVE  LET v == TryLink(u, k, at) IN
         /\ v \in States /\ SameEnds(u.links, v.links)
         /\ \A f \in Wires : Rewired(f, u.g, Nodes) => Rewired(f, v.g, Nodes)
         /\ Sourced(u.g, u.links) => Sourced(v.g, v.links)
         /\ Tried(u, k - 1) => Tried(v, k)
<1> DEFINE l == u.links[k]
           may == l.src \notin u.used /\ ~ (l.dest \in u.used /\ u.dest[l.dest] = l.src)
           i == FindInSock(u.g, at, l)
           v == TryLink(u, k, at)
           Given(x) == [u.links EXCEPT ![k].socket = x]
           undone == UndoLink(u.g, l)
           used == u.used \cup {l.src}
           made == ConnectIn(u.g, <<l.dest, i>>, l.src)
           dest == [u.dest EXCEPT ![l.src] = l.dest]
<1>10. /\ u.g \in Wires /\ u.links \in Seq(Links) /\ u.dest \in [Nodes -> Source]
       /\ u.used \in SUBSET Nodes
       /\ u = [g |-> u.g, links |-> u.links, dest |-> u.dest, used |-> u.used]
  BY DEF States
<1>11. l \in Links
  BY <1>10
<1>12. l.src \in Nodes /\ l.dest \in Nodes
  <2> HIDE DEF l
  <2> QED  BY <1>11 DEF Links
<1>1. /\ u.g \in Wires /\ u.links \in Seq(Links) /\ u.dest \in [Nodes -> Source]
      /\ u.used \in SUBSET Nodes /\ l \in Links /\ l.src \in Nodes /\ l.dest \in Nodes
      /\ InCount[l.dest] \in Nat /\ u = [g |-> u.g, links |-> u.links, dest |-> u.dest, used |-> u.used]
  <2> HIDE DEF l
  <2> QED  BY <1>10, <1>11, <1>12, NodesAssumption
<1>2. i \in 0 .. InCount[l.dest]
  <2> HIDE DEF l
  <2> QED  BY <1>1, FindInSockEffect
<1>3. \A x \in 0 .. InCount[l.dest] :
         /\ Given(x) \in Seq(Links) /\ SameEnds(u.links, Given(x)) /\ Given(x)[k].socket = x
         /\ \A j \in DOMAIN u.links \ {k} : Given(x)[j] = u.links[j]
  <2> TAKE x \in 0 .. InCount[l.dest]
  <2>1. u.links \in Seq(Links) /\ x \in 0 .. InCount[u.links[k].dest]
    BY <1>1
  <2> HIDE DEF l
  <2> QED  BY <2>1, SocketGiven
<1>4. \/ /\ may /\ IsLinked(u.g, l)
         /\ v = [u EXCEPT !.used = used]
      \/ v = [u EXCEPT !.g = undone, !.links = Given(0)]
      \/ /\ may /\ ~ IsLinked(u.g, l) /\ i # 0
         /\ v = [u EXCEPT !.g = made, !.links = Given(i), !.used = used, !.dest = dest]
  <2>1. CASE may /\ IsLinked(u.g, l)
    BY <2>1 DEF TryLink
  <2>2. CASE may /\ ~ IsLinked(u.g, l) /\ i = 0
    <3>1. v = [u EXCEPT !.links = Given(0)]
      BY <2>2 DEF TryLink
    <3>2. undone = u.g
      BY <2>2 DEF UndoLink
    <3> HIDE DEF v, undone, Given
    <3>3. v = [u EXCEPT !.g = undone, !.links = Given(0)]
      BY <1>1, <3>1, <3>2
    <3> QED  BY <3>3
  <2>3. CASE may /\ ~ IsLinked(u.g, l) /\ i # 0
    BY <2>3 DEF TryLink
  <2>4. CASE ~ may
    BY <2>4 DEF TryLink
  <2> QED  BY <2>1, <2>2, <2>3, <2>4
<1>5. undone \in Wires /\ \A f \in Wires : Rewired(f, u.g, Nodes) => Rewired(f, undone, Nodes)
  <2>1. Nodes \in SUBSET Nodes
    OBVIOUS
  <2> HIDE DEF l
  <2> QED  BY <1>1, <2>1, UndoLinkEffect
<1>6. 0 \in 0 .. InCount[l.dest]
  BY <1>1
<1>7. CASE may /\ IsLinked(u.g, l) /\ v = [u EXCEPT !.used = used]
  <2>1. used \in SUBSET Nodes
    BY <1>1
  <2> HIDE DEF v, l, used
  <2>2. v.g = u.g /\ v.links = u.links /\ v.dest = u.dest /\ v.used = used /\ v \in States
    BY <1>1, <1>7, <2>1 DEF States
  <2>3. SameEnds(u.links, v.links)
    BY <2>2 DEF SameEnds
  <2>4. Tried(u, k - 1) => Tried(v, k)
    BY <1>7, <2>2, TryMade DEF l, used
  <2> QED  BY <2>2, <2>3, <2>4 DEF v
<1>8. CASE v = [u EXCEPT !.g = undone, !.links = Given(0)]
  <2> DEFINE links == Given(0)
  <2>1. /\ links \in Seq(Links) /\ SameEnds(u.links, links) /\ links[k].socket = 0
        /\ \A j \in DOMAIN u.links \ {k} : links[j] = u.links[j]
    BY <1>3, <1>6
  <2> HIDE DEF v, l, undone, Given
  <2>2. /\ v.g = undone /\ v.links = links /\ v.dest = u.dest /\ v.used = u.used
        /\ v \in States
    BY <1>1, <1>5, <1>8, <2>1 DEF States
  <2>3. DOMAIN v.links = DOMAIN u.links
    BY <2>1, <2>2 DEF SameEnds
  <2>4. /\ Sourced(u.g, u.links) => Sourced(v.g, v.links)
        /\ Tried(u, k - 1) => Tried(v, k)
    BY <2>1, <2>2, <2>3, TryUndone DEF undone, l
  <2> QED  BY <1>5, <2>1, <2>2, <2>4 DEF v
<1>9. CASE /\ may /\ ~ IsLinked(u.g, l) /\ i # 0
           /\ v = [u EXCEPT !.g = made, !.links = Given(i), !.used = used, !.dest = dest]
  <2> DEFINE links == Given(i)
             q == <<l.dest, i>>
  <2>1. /\ links \in Seq(Links) /\ SameEnds(u.links, links) /\ links[k].socket = i
        /\ \A j \in DOMAIN u.links \ {k} : links[j] = u.links[j]
    BY <1>2, <1>3
  <2>2. i \in 1 .. InCount[l.dest] /\ i > 0
    BY <1>1, <1>2, <1>9
  <2>3. q \in Sockets
    BY <1>1, <2>2, SocketOf
  <2>4. l.src \in Nodes /\ l.src \in Source
    BY <1>1 DEF Source
  <2>5. used \in SUBSET Nodes
    BY <1>1
  <2>6. dest \in [Nodes -> Source]
    BY <1>1 DEF Source
  <2>7. /\ made = ConnectIn(u.g, q, l.src)
        /\ l.src \notin u.used
    BY <1>9
  <2> HIDE DEF v, l, Given, made, used, dest, i, q
  <2>8. made \in Wires /\ made.wanted = [u.g.wanted EXCEPT ![q] = l.src]
    BY <1>1, <2>3, <2>4, <2>7, ConnectInEffect
  <2>9. \A f \in Wires : Rewired(f, u.g, Nodes) => Rewired(f, made, Nodes)
    <3>1. Nodes \in SUBSET Nodes /\ l.src \in Nodes \cup {NoNode}
      BY <2>4
    <3> QED  BY <1>1, <2>3, <2>7, <3>1, RewiredMore
  <2>10. /\ v.g = made /\ v.links = links /\ v.dest = dest /\ v.used = used
         /\ v \in States
    BY <1>1, <1>9, <2>1, <2>5, <2>6, <2>8 DEF States
  <2>11. DOMAIN v.links = DOMAIN u.links /\ v.links[k].src = l.src /\ v.links[k].dest = l.dest
    BY <2>1, <2>10 DEF SameEnds, l
  <2>12. /\ Sourced(u.g, u.links) => Sourced(v.g, v.links)
         /\ Tried(u, k - 1) => Tried(v, k)
    <3>1. q = <<u.links[k].dest, v.links[k].socket>> /\ v.links[k].socket > 0
      BY <2>1, <2>2, <2>10 DEF q, l
    <3>2. ~ IsLinked(u.g, u.links[k])
      BY <1>9 DEF l
    <3>3. /\ v.dest = [u.dest EXCEPT ![u.links[k].src] = u.links[k].dest]
          /\ v.used = u.used \cup {u.links[k].src}
          /\ v.g.wanted = [u.g.wanted EXCEPT ![q] = u.links[k].src]
          /\ u.links[k].src \notin u.used
          /\ v.links[k].src = u.links[k].src /\ v.links[k].dest = u.links[k].dest
          /\ \A j \in DOMAIN u.links \ {k} : v.links[j] = u.links[j]
      BY <2>1, <2>7, <2>8, <2>10, <2>11 DEF dest, used, l
    <3> QED  BY <2>3, <2>10, <2>11, <3>1, <3>2, <3>3, TryConnected
  <2> QED  BY <2>1, <2>9, <2>10, <2>12 DEF v
<1> QED  BY <1>4, <1>7, <1>8, <1>9

\* Two sockets are not asked to read the same node.
SingleOut(g) ==
    \A s, t \in Sockets : g.wanted[s] = g.wanted[t] /\ g.wanted[s] # NoNode => s = t

\* The destination of a link that is made is noted.
Noted(g, p) == \A l \in ToSet(p.links) : IsLinked(g, l) => p.dest[l.src] = l.dest

\* The same whatever the places of the links.
LEMMA SourcedBy ==
  ASSUME NEW g, NEW p \in Patchers
  PROVE  Sourced(g, p.links) <=>
            \A s \in Sockets : g.wanted[s] # NoNode =>
                \E l \in ToSet(p.links) : IsLinked(g, l) /\ <<l.dest, l.socket>> = s
  BY DEF Sourced, ToSet

Sound(g, p) == Sourced(g, p.links) /\ SingleOut(g) /\ Noted(g, p)

\* The turns of update (), and what is so after each of them.
TurnsOf(p, g, at, f) ==
    /\ f[0] = [g |-> g, links |-> p.links, dest |-> p.dest, used |-> {}]
    /\ \A k \in 1..Len(p.links) : f[k] = TryLink(f[k - 1], k, at)
    /\ \A k \in 0..Len(p.links) :
          /\ f[k] \in States /\ SameEnds(p.links, f[k].links) /\ Tried(f[k], k)
          /\ Sourced(f[k].g, f[k].links) /\ Rewired(g, f[k].g, Nodes)

Ended(p, r, end) ==
    /\ r.g = end.g
    /\ r.p = [p EXCEPT !.links = end.links, !.dest = end.dest, !.changed = FALSE]

LEMMA UpdateTurns ==
  ASSUME NEW p \in Patchers, NEW g \in Wires, NEW at \in [Nodes -> Int],
         p.changed, Sourced(g, p.links), Noted(g, p)
  PROVE  \E f : TurnsOf(p, g, at, f) /\ Ended(p, Update(p, g, at), f[Len(p.links)])
<1> DEFINE first == [g |-> g, links |-> p.links, dest |-> p.dest, used |-> {}]
           ks == [k \in DOMAIN p.links |-> k]
           end == Trying(first, ks, at)
           r == Update(p, g, at)
           n == Len(p.links)
           D == {u \in States : /\ SameEnds(p.links, u.links) /\ Sourced(u.g, u.links)
                                /\ Rewired(g, u.g, Nodes)}
<1>1. /\ r.g = end.g
      /\ r.p = [p EXCEPT !.links = end.links, !.dest = end.dest, !.changed = FALSE]
  BY DEF Update, Trying, FoldLeft, MapThenFoldSet
<1> HIDE DEF r, end
<1>2. p.links \in Seq(Links) /\ n \in Nat /\ DOMAIN p.links = 1..n /\ p.dest \in [Nodes -> Source]
  BY DEF Patchers
<1>3. ks \in Seq(1..n) /\ Len(ks) = n /\ \A k \in 1..n : ks[k] = k
  BY <1>2
<1>4. first \in D
  <2>1. first \in States
    BY <1>2 DEF States
  <2>2. Rewired(g, g, Nodes) /\ SameEnds(p.links, p.links)
    BY RewiredMore DEF SameEnds
  <2> QED  BY <2>1, <2>2
<1>5. ASSUME NEW u \in D, NEW k \in 1..n
      PROVE  TryLink(u, k, at) \in D /\ (Tried(u, k - 1) => Tried(TryLink(u, k, at), k))
  <2>1. u \in States /\ k \in DOMAIN u.links /\ Rewired(g, u.g, Nodes) /\ Sourced(u.g, u.links)
    BY <1>2 DEF SameEnds
  <2> DEFINE v == TryLink(u, k, at)
  <2>2. /\ v \in States /\ SameEnds(u.links, v.links)
        /\ Rewired(g, v.g, Nodes) /\ Sourced(v.g, v.links)
        /\ Tried(u, k - 1) => Tried(v, k)
    BY <2>1, TryLinkEffect
  <2> HIDE DEF v
  <2>3. SameEnds(p.links, v.links)
    BY <2>2 DEF SameEnds
  <2> QED  BY <2>2, <2>3 DEF v
<1> HIDE DEF first, ks, n
<1>6. \A u \in D, k \in 1..Len(ks) : TryLink(u, ks[k], at) \in D
  BY <1>3, <1>5
<1>7. PICK f : TryingRun(D, first, ks, at, f)
  <2> HIDE DEF D
  <2> QED  BY <1>3, <1>4, <1>6, TryingSteps
<1>8. /\ f \in [0..n -> D] /\ f[0] = first /\ end = f[n]
      /\ \A k \in 1..n : f[k] = TryLink(f[k - 1], k, at)
  BY <1>3, <1>7 DEF TryingRun, end
<1> DEFINE S == {k \in 0..n : Tried(f[k], k)}
<1>9. 0 \in S
  <2>1. Tried(first, 0)
    <3>1. first.g = g /\ first.links = p.links /\ first.dest = p.dest
      BY DEF first
    <3>2. \A j \in DOMAIN p.links : j > 0 /\ ~ (j <= 0) /\ p.links[j] \in ToSet(p.links)
      BY <1>2 DEF ToSet
    <3> QED  BY <3>1, <3>2 DEF Tried, Noted
  <2> QED  BY <1>2, <1>8, <2>1
<1>10. ASSUME NEW k \in 0..n - 1, k \in S PROVE k + 1 \in S
  <2>1. k + 1 \in 1..n /\ (k + 1) - 1 = k /\ k \in 0..n /\ k + 1 \in 0..n
    BY <1>2
  <2>2. f[k] \in D /\ f[k + 1] = TryLink(f[k], k + 1, at) /\ Tried(f[k], (k + 1) - 1)
    BY <1>8, <1>10, <2>1
  <2> HIDE DEF D
  <2>3. Tried(f[k + 1], k + 1)
    BY <1>5, <2>1, <2>2
  <2> QED  BY <2>1, <2>3
<1> HIDE DEF S
<1>11. 0..n \subseteq S
  BY <1>2, <1>9, <1>10, NumbersUpTo
<1>12. TurnsOf(p, g, at, f)
  <2>1. \A k \in 0..n : Tried(f[k], k) /\ f[k] \in D
    BY <1>8, <1>11 DEF S
  <2>2. \A k \in 0..n : /\ f[k] \in States /\ SameEnds(p.links, f[k].links) /\ Tried(f[k], k)
                        /\ Sourced(f[k].g, f[k].links) /\ Rewired(g, f[k].g, Nodes)
    BY <2>1
  <2> HIDE DEF D
  <2> QED  BY <1>8, <2>2 DEF TurnsOf, first, n
<1>13. Ended(p, Update(p, g, at), f[Len(p.links)])
  BY <1>1, <1>8 DEF Ended, r, n
<1> QED  BY <1>12, <1>13

\* update () makes a sound patch of any whose notes are right.
LEMMA UpdateEffect ==
  ASSUME NEW p \in Patchers, NEW g \in Wires, NEW at \in [Nodes -> Int],
         p.changed, Ends(p), Sourced(g, p.links), Noted(g, p)
  PROVE  LET r == Update(p, g, at) IN
         /\ Rewired(g, r.g, Nodes) /\ r.p \in Patchers /\ r.p.nodes = p.nodes
         /\ Ends(r.p) /\ Sound(r.g, r.p)
<1> DEFINE r == Update(p, g, at)
           n == Len(p.links)
<1>1. PICK f : TurnsOf(p, g, at, f) /\ Ended(p, r, f[n])
  BY UpdateTurns
<1> DEFINE end == f[n]
<1>2. p.links \in Seq(Links) /\ n \in Nat /\ DOMAIN p.links = 1..n /\ p.dest \in [Nodes -> Source]
  BY DEF Patchers
<1> HIDE DEF r, n
<1>3. /\ end \in States /\ SameEnds(p.links, end.links) /\ Tried(end, n)
      /\ Sourced(end.g, end.links) /\ Rewired(g, end.g, Nodes)
  <2>1. n \in 0..n
    BY <1>2
  <2> QED  BY <1>1, <2>1 DEF TurnsOf, n
<1>4. r.g = end.g /\ r.p = [p EXCEPT !.links = end.links, !.dest = end.dest, !.changed = FALSE]
  BY <1>1 DEF Ended
<1> HIDE DEF end
<1>5. /\ end.g \in Wires /\ end.links \in Seq(Links) /\ end.dest \in [Nodes -> Source]
  BY <1>3 DEF States
<1>6. /\ r.p \in Patchers /\ r.p.nodes = p.nodes /\ r.p.links = end.links /\ r.p.dest = end.dest
  BY <1>4, <1>5 DEF Patchers
<1>7. DOMAIN end.links = 1..n
  BY <1>2, <1>3 DEF SameEnds
<1>8. Noted(r.g, r.p)
  <2>1. \A j \in DOMAIN end.links : IsLinked(end.g, end.links[j]) =>
           end.dest[end.links[j].src] = end.links[j].dest
    BY <1>2, <1>3, <1>7 DEF Tried
  <2> QED  BY <1>4, <1>6, <2>1 DEF Noted, ToSet
<1>9. SingleOut(r.g)
  <2> SUFFICES ASSUME NEW s \in Sockets, NEW t \in Sockets,
                      end.g.wanted[s] = end.g.wanted[t], end.g.wanted[s] # NoNode
               PROVE  s = t
    BY <1>4 DEF SingleOut
  <2>1. PICK i \in DOMAIN end.links :
           IsLinked(end.g, end.links[i]) /\ <<end.links[i].dest, end.links[i].socket>> = s
    BY <1>3 DEF Sourced
  <2>2. PICK j \in DOMAIN end.links :
           IsLinked(end.g, end.links[j]) /\ <<end.links[j].dest, end.links[j].socket>> = t
    BY <1>3 DEF Sourced
  <2>3. end.links[i].src = end.links[j].src
    BY <2>1, <2>2 DEF IsLinked
  <2>4. i <= n /\ j <= n
    BY <1>2, <1>7
  <2>5. end.links[i].dest = end.links[j].dest /\ end.links[i].socket = end.links[j].socket
    BY <1>3, <2>1, <2>2, <2>3, <2>4 DEF Tried
  <2> QED  BY <2>1, <2>2, <2>5
<1>10. Ends(r.p)
  BY <1>3, <1>6 DEF Ends, SameEnds, ToSet
<1>11. Sourced(r.g, r.p.links) /\ Rewired(g, r.g, Nodes)
  BY <1>3, <1>4, <1>6
<1> QED  BY <1>6, <1>8, <1>9, <1>10, <1>11 DEF Sound, r

-----------------------------------------------------------------------------
(* The order of the links.                                                 *)

\* The multiset of the links: in the order of their lengths, with one link for
\* an output and a destination at most, each at a socket its entry allows.
InOrder(links) ==
    \A i, j \in DOMAIN links : i < j => ~ Shorter(links[j], links[i])

SamePair(l, m) == l.src = m.src /\ l.dest = m.dest

OneForPair(links) ==
    \A i, j \in DOMAIN links : SamePair(links[i], links[j]) => i = j

Fits(l) == l.socket > 0 => Table[l.src, l.dest] \in {0, l.socket}

Tidy(links) ==
    InOrder(links) /\ OneForPair(links) /\ \A l \in ToSet(links) : Fits(l)

\* The order of the links is a strict weak order.
LEMMA ShorterOrder ==
  /\ \A l, m \in Links : ~ (Shorter(l, m) /\ Shorter(m, l))
  /\ \A l, m, o \in Links : ~ Shorter(l, m) /\ ~ Shorter(m, o) => ~ Shorter(l, o)
<1>1. \A l \in Links : l.dist \in Nat /\ l.center \in Nat
  BY DEF Links
<1>2. ASSUME NEW l \in Links, NEW m \in Links PROVE ~ (Shorter(l, m) /\ Shorter(m, l))
  BY <1>1 DEF Shorter
<1>3. ASSUME NEW l \in Links, NEW m \in Links, NEW o \in Links,
             ~ Shorter(l, m), ~ Shorter(m, o)
      PROVE  ~ Shorter(l, o)
  BY <1>1, <1>3 DEF Shorter
<1> QED  BY <1>2, <1>3

\* The places up to some place are counted by the last of them.
LEMMA InitialSegment ==
  ASSUME NEW n \in Nat, NEW t \in SUBSET (1..n), \A j \in t, i \in 1..n : i < j => i \in t
  PROVE  Cardinality(t) \in 0..n /\ t = 1..Cardinality(t)
<1>1. CASE t = {}
  <2>1. Cardinality(t) = 0
    BY <1>1, FS_EmptySet
  <2> QED  BY <1>1, <2>1
<1>2. CASE t # {}
  <2> DEFINE m == Max(t)
  <2>1. m \in t /\ \A y \in t : y <= m
    BY <1>2, LargestUpTo
  <2> HIDE DEF m
  <2>5. m \in 1..n /\ \A y \in t : y \in 1..m
    BY <2>1
  <2>6. \A i \in 1..m : i \in t
    <3>1. \A i \in 1..m : i \in 1..n /\ (i < m \/ i = m)
      BY <2>5
    <3> QED  BY <2>1, <3>1
  <2>2. t = 1..m /\ m \in 1..n
    BY <2>5, <2>6
  <2>3. IsFiniteSet(1..m) /\ Cardinality(1..m) = IF 1 > m THEN 0 ELSE m - 1 + 1
    BY <2>2, FS_Interval
  <2>4. Cardinality(t) = m
    BY <2>2, <2>3
  <2> QED  BY <2>2, <2>4
<1> QED  BY <1>1, <1>2

\* A link inserted in its place leaves a list in order.
LEMMA InsertedTidy ==
  ASSUME NEW s \in Seq(Links), NEW l \in Links, Tidy(s), Fits(l),
         \A m \in ToSet(s) : ~ SamePair(l, m)
  PROVE  Tidy(Inserted(s, l))
<1> DEFINE t == Inserted(s, l)
           n == Len(s)
           nearer == {k \in DOMAIN s : ~ Shorter(l, s[k])}
           b == Cardinality(nearer)
<1>1. n \in Nat /\ DOMAIN s = 1..n /\ \A k \in 1..n : s[k] \in Links /\ s[k] \in ToSet(s)
  BY DEF ToSet
<1>2. /\ b \in 0..n /\ t \in Seq(Links) /\ Len(t) = n + 1 /\ t[b + 1] = l
      /\ \A k \in 1..b : t[k] = s[k]
      /\ \A k \in b + 1..n : t[k + 1] = s[k]
  BY InsertedPlaces
<1>3. /\ \A i, j \in 1..n : i < j => ~ Shorter(s[j], s[i])
      /\ \A i, j \in 1..n : SamePair(s[i], s[j]) => i = j
  BY <1>1 DEF Tidy, InOrder, OneForPair
<1>4. nearer = 1..b
  <2>1. nearer \in SUBSET (1..n)
    BY <1>1
  <2>2. ASSUME NEW j \in nearer, NEW i \in 1..n, i < j PROVE i \in nearer
    <3>1. j \in 1..n /\ ~ Shorter(l, s[j]) /\ ~ Shorter(s[j], s[i])
      BY <1>1, <1>3, <2>2
    <3>2. ~ Shorter(l, s[i])
      BY <1>1, <3>1, ShorterOrder
    <3> QED  BY <1>1, <3>2
  <2> HIDE DEF nearer, n
  <2> QED  BY <1>1, <2>1, <2>2, InitialSegment
<1>5. \A k \in 1..b : k \in 1..n /\ ~ Shorter(l, s[k])
  BY <1>2, <1>4
<1>6. \A k \in b + 1..n : k \in 1..n /\ ~ Shorter(s[k], l)
  <2> TAKE k \in b + 1..n
  <2>1. k \in 1..n /\ k \notin 1..b
    BY <1>1, <1>2
  <2>2. Shorter(l, s[k])
    BY <1>1, <1>4, <2>1
  <2> QED  BY <1>1, <2>1, <2>2, ShorterOrder
<1> HIDE DEF nearer, b, t, n
<1>7. DOMAIN t = 1..n + 1
  BY <1>2
<1> DEFINE From(i, k) == k \in 1..n /\ t[i] = s[k]
                         /\ ((i = k /\ k \in 1..b) \/ (i = k + 1 /\ k \in b + 1..n))
<1>8. ASSUME NEW i \in 1..n + 1 PROVE i = b + 1 \/ \E k \in 1..n : From(i, k)
  <2>1. CASE i \in 1..b
    BY <1>2, <1>5, <2>1
  <2>2. CASE i = b + 1
    BY <2>2
  <2>3. CASE i \in b + 2..n + 1
    <3> DEFINE k == i - 1
    <3>1. k \in b + 1..n /\ k \in 1..n /\ i = k + 1
      BY <1>1, <1>2, <2>3
    <3> HIDE DEF k
    <3> QED  BY <1>2, <3>1
  <2> QED  BY <1>1, <1>2, <2>1, <2>2, <2>3
<1>9. ASSUME NEW i \in 1..n + 1, NEW j \in 1..n + 1, i < j PROVE ~ Shorter(t[j], t[i])
  <2>1. CASE i = b + 1 /\ j # b + 1
    <3>1. PICK k \in 1..n : From(j, k)
      BY <1>8, <2>1
    <3>2. k \in b + 1..n
      BY <1>1, <1>2, <1>9, <2>1, <3>1
    <3> QED  BY <1>2, <1>6, <2>1, <3>1, <3>2
  <2>2. CASE i # b + 1 /\ j = b + 1
    <3>1. PICK k \in 1..n : From(i, k)
      BY <1>8, <2>2
    <3>2. k \in 1..b
      BY <1>1, <1>2, <1>9, <2>2, <3>1
    <3> QED  BY <1>2, <1>5, <2>2, <3>1, <3>2
  <2>3. CASE i # b + 1 /\ j # b + 1
    <3>1. PICK k \in 1..n : From(i, k)
      BY <1>8, <2>3
    <3>2. PICK m \in 1..n : From(j, m)
      BY <1>8, <2>3
    <3>3. k < m
      BY <1>1, <1>2, <1>9, <3>1, <3>2
    <3> QED  BY <1>3, <3>1, <3>2, <3>3
  <2>4. ~ (i = b + 1 /\ j = b + 1)
    BY <1>1, <1>2, <1>9
  <2> QED  BY <2>1, <2>2, <2>3, <2>4
<1>10. ASSUME NEW i \in 1..n + 1, NEW j \in 1..n + 1, SamePair(t[i], t[j]) PROVE i = j
  <2>1. \A k \in 1..n : ~ SamePair(l, s[k]) /\ ~ SamePair(s[k], l)
    BY <1>1 DEF SamePair
  <2>2. CASE i = b + 1 \/ j = b + 1
    BY <1>2, <1>8, <1>10, <2>1, <2>2
  <2>3. CASE i # b + 1 /\ j # b + 1
    <3>1. PICK k \in 1..n : From(i, k)
      BY <1>8, <2>3
    <3>2. PICK m \in 1..n : From(j, m)
      BY <1>8, <2>3
    <3>3. k = m
      BY <1>3, <1>10, <3>1, <3>2
    <3> QED  BY <1>1, <1>2, <3>1, <3>2, <3>3
  <2> QED  BY <2>2, <2>3
<1>11. ToSet(t) = ToSet(s) \cup {l}
  BY InsertedEffect DEF t
<1>12. \A m \in ToSet(t) : Fits(m)
  BY <1>11 DEF Tidy
<1>13. InOrder(t) /\ OneForPair(t)
  BY <1>7, <1>9, <1>10 DEF InOrder, OneForPair
<1>14. Tidy(t)
  BY <1>12, <1>13 DEF Tidy
<1> QED  BY <1>14 DEF t

\* A part of a list is in order as the list is.
LEMMA AmongTidy ==
  ASSUME NEW s \in Seq(Links), Tidy(s), NEW set
  PROVE  Tidy(Among(s, set))
<1> DEFINE n == Len(s)
           b == <<>>
           D == Seq(Links)
<1>1. Among(s, set) = Picking(b, s, set)
  BY DEF Among, Pick, Picking
<1>2. n \in Nat /\ DOMAIN s = 1..n /\ \A k \in 1..n : s[k] \in Links /\ s[k] \in ToSet(s)
  BY DEF ToSet
<1>3. b \in D /\ s \in Seq(Links)
  OBVIOUS
<1>4. \A h \in D, k \in 1..Len(s) : Pick(h, s[k], set) \in D
  BY <1>2 DEF Pick
<1> HIDE DEF b
<1>5. PICK r : PickingRun(D, b, s, set, r)
  <2> HIDE DEF D
  <2> QED  BY <1>3, <1>4, PickingSteps
<1>6. /\ r \in [0..n -> D] /\ r[0] = b /\ Picking(b, s, set) = r[n]
      /\ \A k \in 1..n : r[k] = Pick(r[k - 1], s[k], set)
  BY <1>5 DEF PickingRun
<1>7. \A i, j \in 1..n : i < j => ~ Shorter(s[j], s[i]) /\ ~ SamePair(s[j], s[i])
  BY <1>2 DEF Tidy, InOrder, OneForPair
<1> DEFINE Past(k) == {s[j] : j \in 1..k}
           Good(k) == Tidy(r[k]) /\ ToSet(r[k]) \subseteq Past(k)
           S == {k \in 0..n : Good(k)}
<1>8. 0 \in S
  <2>1. Tidy(b) /\ ToSet(b) = {}
    <3>1. DOMAIN b = {}
      BY DEF b
    <3> QED  BY <3>1 DEF Tidy, InOrder, OneForPair, ToSet
  <2> HIDE DEF Past
  <2> QED  BY <1>2, <1>6, <2>1
<1>9. ASSUME NEW k \in 0..n - 1, k \in S PROVE k + 1 \in S
  <2>1. k + 1 \in 1..n /\ (k + 1) - 1 = k /\ k \in 0..n /\ k + 1 \in 0..n
    BY <1>2
  <2> DEFINE h == r[k]
             x == s[k + 1]
  <2>2. r[k + 1] = Pick(h, x, set) /\ h \in Seq(Links) /\ x \in Links /\ Tidy(h) /\ Fits(x)
    BY <1>2, <1>6, <1>9, <2>1 DEF Tidy
  <2>3. ToSet(h) \subseteq Past(k) /\ Past(k + 1) = Past(k) \cup {x}
    <3>1. 1..k + 1 = (1..k) \cup {k + 1}
      BY <2>1
    <3> QED  BY <1>9, <3>1
  <2>4. \A e \in ToSet(h) : ~ Shorter(x, e) /\ ~ SamePair(x, e)
    <3> TAKE e \in ToSet(h)
    <3>1. PICK j \in 1..k : e = s[j]
      BY <2>3
    <3>2. j \in 1..n /\ j < k + 1
      BY <1>2, <2>1
    <3> QED  BY <1>7, <2>1, <3>1, <3>2
  <2> HIDE DEF h, x, Past
  <2>5. CASE x \in set
    <3> DEFINE t == Append(h, x)
               m == Len(h)
    <3>1. r[k + 1] = t
      BY <2>2, <2>5 DEF Pick
    <3>2. /\ t \in Seq(Links) /\ Len(t) = m + 1 /\ t[m + 1] = x /\ m \in Nat
          /\ \A i \in 1..m : t[i] = h[i]
      BY <2>2, AppendProperties
    <3>3. ToSet(t) = ToSet(h) \cup {x}
      BY <2>2, AppendedEffect
    <3>4. DOMAIN h = 1..m /\ \A i \in 1..m : h[i] \in ToSet(h)
      BY <2>2 DEF ToSet
    <3> HIDE DEF t, m
    <3>5. DOMAIN t = 1..m + 1 /\ \A i \in 1..m + 1 : i \in 1..m \/ i = m + 1
      BY <3>2
    <3>6. ASSUME NEW i \in 1..m + 1, NEW j \in 1..m + 1, i < j PROVE ~ Shorter(t[j], t[i])
      <4>1. i \in 1..m
        BY <3>2, <3>6
      <4>2. CASE j = m + 1
        BY <2>4, <3>2, <3>4, <4>1, <4>2
      <4>3. CASE j \in 1..m
        BY <2>2, <3>2, <3>4, <3>6, <4>1, <4>3 DEF Tidy, InOrder
      <4> QED  BY <3>5, <4>2, <4>3
    <3>7. ASSUME NEW i \in 1..m + 1, NEW j \in 1..m + 1, SamePair(t[i], t[j]) PROVE i = j
      <4>1. CASE i = m + 1 /\ j \in 1..m
        BY <2>4, <3>2, <3>4, <3>7, <4>1
      <4>2. CASE i \in 1..m /\ j = m + 1
        BY <2>4, <3>2, <3>4, <3>7, <4>2 DEF SamePair
      <4>3. CASE i \in 1..m /\ j \in 1..m
        BY <2>2, <3>2, <3>4, <3>7, <4>3 DEF Tidy, OneForPair
      <4> QED  BY <3>5, <4>1, <4>2, <4>3
    <3>8. InOrder(t) /\ OneForPair(t) /\ \A e \in ToSet(t) : Fits(e)
      BY <2>2, <3>3, <3>5, <3>6, <3>7 DEF InOrder, OneForPair, Tidy
    <3> QED  BY <2>1, <2>3, <3>1, <3>3, <3>8 DEF Tidy
  <2>6. CASE x \notin set
    <3>1. r[k + 1] = h
      BY <2>2, <2>6 DEF Pick
    <3> QED  BY <2>1, <2>2, <2>3, <3>1
  <2> QED  BY <2>5, <2>6
<1> HIDE DEF S
<1>10. 0..n \subseteq S
  BY <1>2, <1>8, <1>9, NumbersUpTo
<1>11. Tidy(r[n])
  <2>1. n \in 0..n
    BY <1>2
  <2> QED  BY <1>10, <2>1 DEF S
<1> QED  BY <1>1, <1>6, <1>11

\* Links of other pairs, inserted one after the other.
LEMMA InsertedAllTidy ==
  ASSUME NEW links \in Seq(Links), NEW more \in Seq(Links), Tidy(links), OneForPair(more),
         \A l \in ToSet(more) : Fits(l) /\ \A m \in ToSet(links) : ~ SamePair(l, m)
  PROVE  Tidy(InsertedAll(links, more))
<1> DEFINE n == Len(more)
           D == Seq(Links)
<1>1. InsertedAll(links, more) = Inserting(links, more)
  BY DEF InsertedAll, Inserting, FoldLeft, MapThenFoldSet
<1>2. /\ n \in Nat /\ DOMAIN more = 1..n
      /\ \A k \in 1..n : more[k] \in Links /\ more[k] \in ToSet(more)
  BY DEF ToSet
<1>3. ASSUME NEW h \in D, NEW k \in 1..Len(more) PROVE Inserted(h, more[k]) \in D
  BY <1>2, InsertedEffect
<1>4. PICK r : InsertingRun(D, links, more, r)
  <2>1. links \in D /\ more \in Seq(Links)
    OBVIOUS
  <2> HIDE DEF D
  <2> QED  BY <1>3, <2>1, InsertingSteps
<1>5. /\ r \in [0..n -> D] /\ r[0] = links /\ Inserting(links, more) = r[n]
      /\ \A k \in 1..n : r[k] = Inserted(r[k - 1], more[k])
  BY <1>4 DEF InsertingRun
<1> DEFINE Past(k) == {more[j] : j \in 1..k}
           S == {k \in 0..n : Tidy(r[k]) /\ ToSet(r[k]) \subseteq ToSet(links) \cup Past(k)}
<1>6. 0 \in S
  BY <1>2, <1>5
<1>7. ASSUME NEW k \in 0..n - 1, k \in S PROVE k + 1 \in S
  <2>1. k + 1 \in 1..n /\ (k + 1) - 1 = k /\ k \in 0..n /\ k + 1 \in 0..n
    BY <1>2
  <2> DEFINE h == r[k]
             x == more[k + 1]
  <2>2. /\ r[k + 1] = Inserted(h, x) /\ h \in Seq(Links) /\ Tidy(h)
        /\ x \in Links /\ x \in ToSet(more) /\ Fits(x)
    BY <1>2, <1>5, <1>7, <2>1
  <2>3. ToSet(h) \subseteq ToSet(links) \cup Past(k) /\ Past(k + 1) = Past(k) \cup {x}
    <3>1. 1..k + 1 = (1..k) \cup {k + 1}
      BY <2>1
    <3> QED  BY <1>7, <3>1
  <2>4. \A m \in Past(k) : ~ SamePair(x, m)
    <3> TAKE m \in Past(k)
    <3>1. PICK j \in 1..k : m = more[j]
      OBVIOUS
    <3>2. j \in 1..n /\ j # k + 1
      BY <1>2, <2>1
    <3> QED  BY <1>2, <2>1, <3>1, <3>2 DEF OneForPair
  <2> HIDE DEF h, x, Past
  <2>5. \A m \in ToSet(h) : ~ SamePair(x, m)
    BY <2>2, <2>3, <2>4
  <2>6. Tidy(Inserted(h, x))
    BY <2>2, <2>5, InsertedTidy
  <2>7. ToSet(Inserted(h, x)) = ToSet(h) \cup {x}
    BY <2>2, InsertedEffect
  <2> QED  BY <2>1, <2>2, <2>3, <2>6, <2>7
<1> HIDE DEF S
<1>8. 0..n \subseteq S
  BY <1>2, <1>6, <1>7, NumbersUpTo
<1>9. Tidy(r[n])
  <2>1. n \in 0..n
    BY <1>2
  <2> QED  BY <1>8, <2>1 DEF S
<1> QED  BY <1>1, <1>5, <1>9

\* The links between two nodes are one for each direction at most.
OneEachWay(links, n, m) ==
    OneForPair(links) /\ \A l \in ToSet(links) : Fits(l) /\ {l.src, l.dest} = {n, m}

LEMMA PairTidy ==
  ASSUME NEW at \in [Nodes -> Int], NEW n \in Nodes, NEW m \in Nodes, n # m
  PROVE  OneEachWay(Pair(at, n, m), n, m)
<1> DEFINE a == NewLink(at, n, m)
           b == NewLink(at, m, n)
           x == IF ~ Linkable(n, m) THEN <<>> ELSE <<a>>
           y == IF ~ Linkable(m, n) THEN <<>> ELSE <<b>>
           t == x \o y
           T == {a, b}
<1>1. a.src = n /\ a.dest = m /\ a.socket = 0 /\ b.src = m /\ b.dest = n /\ b.socket = 0
  BY NewLinkEffect
<1>2. Pair(at, n, m) = t
  BY DEF Pair, Linkable
<1> HIDE DEF a, b
<1>0. ASSUME NEW c \in T, NEW z, z = <<>> \/ z = <<c>>
      PROVE  z \in Seq(T) /\ Len(z) \in {0, 1} /\ \A i \in 1..Len(z) : i = 1 /\ z[i] = c
  <2> HIDE DEF T
  <2>1. CASE z = <<>>
    BY <2>1
  <2>2. CASE z = <<c>>
    BY <2>2
  <2> QED  BY <1>0, <2>1, <2>2
<1>3. x \in Seq(T) /\ Len(x) \in {0, 1} /\ \A i \in 1..Len(x) : i = 1 /\ x[i] = a
  <2>1. a \in T /\ (x = <<>> \/ x = <<a>>)
    OBVIOUS
  <2> HIDE DEF x, T
  <2> QED  BY <1>0, <2>1
<1>4. y \in Seq(T) /\ Len(y) \in {0, 1} /\ \A i \in 1..Len(y) : i = 1 /\ y[i] = b
  <2>1. b \in T /\ (y = <<>> \/ y = <<b>>)
    OBVIOUS
  <2> HIDE DEF y, T
  <2> QED  BY <1>0, <2>1
<1> HIDE DEF x, y
<1>5. /\ t \in Seq(T) /\ Len(t) = Len(x) + Len(y)
      /\ \A i \in 1..Len(x) + Len(y) : t[i] = IF i <= Len(x) THEN x[i] ELSE y[i - Len(x)]
  BY <1>3, <1>4, ConcatProperties
<1> HIDE DEF t
<1>6. DOMAIN t = 1..Len(x) + Len(y)
  BY <1>5
<1>7. \A i \in DOMAIN t : (t[i] = a /\ i = 1) \/ (t[i] = b /\ i = Len(x) + 1)
  <2> TAKE i \in DOMAIN t
  <2>1. CASE i <= Len(x)
    BY <1>3, <1>5, <1>6, <2>1
  <2>2. CASE ~ (i <= Len(x))
    <3>1. i - Len(x) \in 1..Len(y)
      BY <1>3, <1>4, <1>6, <2>2
    <3>2. i - Len(x) = 1 /\ t[i] = b
      BY <1>4, <1>5, <1>6, <2>2, <3>1
    <3> QED  BY <1>3, <1>6, <3>2
  <2> QED  BY <2>1, <2>2
<1>8. OneForPair(t)
  BY <1>1, <1>7 DEF OneForPair, SamePair
<1>9. Fits(a) /\ Fits(b) /\ {a.src, a.dest} = {n, m} /\ {b.src, b.dest} = {n, m}
  BY <1>1 DEF Fits
<1>10. ASSUME NEW l \in ToSet(t) PROVE Fits(l) /\ {l.src, l.dest} = {n, m}
  <2>1. l = a \/ l = b
    BY <1>7 DEF ToSet
  <2> QED  BY <1>9, <2>1
<1> QED  BY <1>2, <1>8, <1>10 DEF OneEachWay

\* add_node keeps the order.
LEMMA AddNodeTidy ==
  ASSUME NEW p \in Patchers, NEW at \in [Nodes -> Int], NEW order \in Seq(Nodes), NEW n \in Nodes,
         Ends(p), Tidy(p.links), IsInjective(order)
  PROVE  Tidy(AddNode(p, at, order, n).links)
<1> DEFINE q == AddNode(p, at, order, n)
           others == Among(order, p.nodes)
           size == Len(others)
           D == Seq(Links)
<1>1. CASE n \in p.nodes
  BY <1>1 DEF AddNode
<1>2. CASE n \notin p.nodes
  <2>1. q.links = Joining(p.links, others, at, n)
    BY <1>2 DEF AddNode, Joining, Pair, FoldLeft, MapThenFoldSet
  <2> HIDE DEF q
  <2>2. others \in Seq(Nodes) /\ ToSet(others) = ToSet(order) \cap p.nodes /\ IsInjective(others)
    BY AmongEffect
  <2> HIDE DEF others
  <2>3. /\ size \in Nat /\ DOMAIN others = 1..size
        /\ \A k \in 1..size : others[k] \in Nodes /\ others[k] \in p.nodes /\ others[k] # n
    BY <1>2, <2>2 DEF ToSet
  <2>4. p.links \in D /\ n \in Nodes /\ at \in [Nodes -> Int]
    BY LinksIn
  <2>5. ASSUME NEW h \in D, NEW k \in 1..Len(others)
        PROVE  InsertedAll(h, Pair(at, n, others[k])) \in D
    BY <2>3, <2>4, PairEffect, InsertedAllEffect
  <2>6. PICK r : JoiningRun(D, p.links, others, at, n, r)
    <3> HIDE DEF D
    <3> QED  BY <2>2, <2>4, <2>5, JoiningSteps
  <2>7. /\ r \in [0..size -> D] /\ r[0] = p.links /\ Joining(p.links, others, at, n) = r[size]
        /\ \A k \in 1..size : r[k] = InsertedAll(r[k - 1], Pair(at, n, others[k]))
    BY <2>6 DEF JoiningRun
  <2> HIDE DEF size
  <2> DEFINE Met(l, k) == \E j \in 1..k : {l.src, l.dest} = {n, others[j]}
             Good(k) == Tidy(r[k]) /\ \A l \in ToSet(r[k]) : l \in ToSet(p.links) \/ Met(l, k)
             S == {k \in 0..size : Good(k)}
  <2>8. 0 \in S
    BY <2>3, <2>7
  <2>9. ASSUME NEW k \in 0..size - 1, k \in S PROVE k + 1 \in S
    <3>1. k + 1 \in 1..size /\ (k + 1) - 1 = k /\ k \in 0..size /\ k + 1 \in 0..size
      BY <2>3
    <3> DEFINE h == r[k]
               m == others[k + 1]
               x == Pair(at, n, m)
    <3>2. /\ r[k + 1] = InsertedAll(h, x) /\ h \in Seq(Links) /\ Tidy(h)
          /\ m \in Nodes /\ m \in p.nodes /\ m # n
      BY <2>3, <2>7, <2>9, <3>1
    <3> HIDE DEF h, m
    <3>3. x \in Seq(Links) /\ OneEachWay(x, n, m)
      BY <2>4, <3>2, PairEffect, PairTidy
    <3> HIDE DEF x
    <3>4. ASSUME NEW l \in ToSet(x), NEW e \in ToSet(h) PROVE ~ SamePair(l, e)
      <4>1. {l.src, l.dest} = {n, m}
        BY <3>3 DEF OneEachWay
      <4>2. CASE e \in ToSet(p.links)
        BY <1>2, <4>1, <4>2 DEF Ends, SamePair
      <4>3. CASE Met(e, k)
        <5>1. PICK j \in 1..k : {e.src, e.dest} = {n, others[j]}
          BY <4>3
        <5>2. j \in 1..size /\ j # k + 1
          BY <2>3, <3>1
        <5>3. others[j] # m
          BY <2>2, <2>3, <3>1, <5>2 DEF IsInjective, m
        <5> QED  BY <2>3, <3>2, <4>1, <5>1, <5>2, <5>3 DEF SamePair
      <4> QED  BY <2>9, <4>2, <4>3 DEF h
    <3>5. Tidy(InsertedAll(h, x))
      BY <3>2, <3>3, <3>4, InsertedAllTidy DEF OneEachWay
    <3>6. ToSet(InsertedAll(h, x)) = ToSet(h) \cup ToSet(x)
      BY <3>2, <3>3, InsertedAllEffect
    <3>7. \A l \in ToSet(h) : l \in ToSet(p.links) \/ Met(l, k + 1)
      <4>1. \A j \in 1..k : j \in 1..k + 1
        BY <3>1
      <4> QED  BY <2>9, <4>1 DEF h
    <3>8. \A l \in ToSet(x) : Met(l, k + 1)
      <4>1. k + 1 \in 1..k + 1
        BY <3>1
      <4> QED  BY <3>3, <4>1 DEF OneEachWay, m
    <3> HIDE DEF Met
    <3> QED  BY <3>1, <3>2, <3>5, <3>6, <3>7, <3>8
  <2> HIDE DEF S
  <2>10. 0..size \subseteq S
    BY <2>3, <2>8, <2>9, NumbersUpTo
  <2>11. Tidy(r[size])
    <3>1. size \in 0..size
      BY <2>3
    <3> QED  BY <2>10, <3>1 DEF S
  <2> QED  BY <2>1, <2>7, <2>11 DEF q
<1> QED  BY <1>1, <1>2

\* set_param_node puts the links it measures again in their places.
LEMMA SetParamNodeTidy ==
  ASSUME NEW p \in Patchers, NEW at \in [Nodes -> Int], NEW n \in Nodes, Tidy(p.links)
  PROVE  Tidy(SetParamNode(p, at, n).links)
<1> DEFINE Measured(l) == [ l EXCEPT !.dist = Dist(at, l.src, l.dest),
                                     !.center = IF l.dest = n THEN ToCenter(at, n) ELSE @ ]
           mine == {l \in ToSet(p.links) : IsEnd(l, n)}
           rest == {l \in ToSet(p.links) : ~ IsEnd(l, n)}
           moved == LinksOf(p.links, n)
           others == LinksOfOthers(p.links, n)
           again == [k \in DOMAIN moved |-> Measured(moved[k])]
<1>1. SetParamNode(p, at, n).links = InsertedAll(others, again)
  BY DEF SetParamNode
<1>2. p.links \in Seq(Links)
  BY LinksIn
<1>3. moved \in Seq(Links) /\ ToSet(moved) = ToSet(p.links) \cap mine /\ Tidy(moved)
  BY <1>2, AmongEffect, AmongTidy DEF LinksOf
<1>4. others \in Seq(Links) /\ ToSet(others) = ToSet(p.links) \cap rest /\ Tidy(others)
  BY <1>2, AmongEffect, AmongTidy DEF LinksOfOthers
<1>5. ASSUME NEW l \in Links PROVE Measured(l) \in Links /\ Same(Measured(l), l)
  <2>1. /\ l \in [src : Nodes, dest : Nodes, dist : Nat, center : Nat, socket : Nat]
        /\ Linkable(l.src, l.dest) /\ l.socket \in 0 .. InCount[l.dest]
    BY DEF Links
  <2>2. Dist(at, l.src, l.dest) \in Nat /\ ToCenter(at, n) \in Nat
    BY <2>1, NewLinkEffect
  <2>3. /\ Measured(l) \in [src : Nodes, dest : Nodes, dist : Nat, center : Nat, socket : Nat]
        /\ Same(Measured(l), l)
    BY <2>1, <2>2 DEF Same
  <2> HIDE DEF Measured
  <2> QED  BY <2>1, <2>3 DEF Links, Same
<1> HIDE DEF Measured, moved, others
<1>6. /\ again \in Seq(Links) /\ DOMAIN again = DOMAIN moved
      /\ \A k \in DOMAIN moved : /\ again[k] = Measured(moved[k])
                                  /\ moved[k] \in Links /\ moved[k] \in ToSet(moved)
  BY <1>3, <1>5 DEF ToSet
<1> HIDE DEF again
<1>7. \A k \in DOMAIN moved : Same(again[k], moved[k])
  BY <1>5, <1>6
<1>8. OneForPair(again)
  BY <1>3, <1>6, <1>7 DEF Tidy, OneForPair, Same, SamePair
<1>9. ASSUME NEW l \in ToSet(again)
      PROVE  Fits(l) /\ \A m \in ToSet(others) : ~ SamePair(l, m)
  <2>1. PICK k \in DOMAIN moved : l = again[k]
    BY <1>6 DEF ToSet
  <2>2. Fits(moved[k]) /\ IsEnd(moved[k], n) /\ Same(l, moved[k])
    BY <1>3, <1>6, <1>7, <2>1 DEF Tidy
  <2>3. \A m \in ToSet(others) : ~ IsEnd(m, n)
    BY <1>4
  <2> QED  BY <2>2, <2>3 DEF Fits, Same, SamePair, IsEnd
<1>10. Tidy(InsertedAll(others, again))
  BY <1>4, <1>6, <1>8, <1>9, InsertedAllTidy
<1> QED  BY <1>1, <1>10

-----------------------------------------------------------------------------
(* One turn of update (), and what it decides.                             *)

\* The source has no output yet, and is not read by its destination's source.
May(u, l) == l.src \notin u.used /\ ~ (l.dest \in u.used /\ u.dest[l.dest] = l.src)

\* The lists are the same but for the socket of one link.
Refit(links, more, k) ==
    /\ DOMAIN more = DOMAIN links
    /\ \A j \in DOMAIN links \ {k} : more[j] = links[j]
    /\ SamePair(more[k], links[k])
    /\ more[k].dist = links[k].dist /\ more[k].center = links[k].center

\* The link was made and stays, is not made from now on, or takes socket i.
Keeps(u, v, k) ==
    /\ May(u, u.links[k]) /\ IsLinked(u.g, u.links[k])
    /\ v.links[k] = u.links[k] /\ v.used = u.used \cup {u.links[k].src}
    /\ v.g.wanted = u.g.wanted

Drops(u, v, k, i) ==
    /\ ~ May(u, u.links[k]) \/ (~ IsLinked(u.g, u.links[k]) /\ i = 0)
    /\ v.links[k].socket = 0 /\ v.used = u.used
    /\ \A s \in Sockets :
          \/ v.g.wanted[s] = u.g.wanted[s]
          \/ /\ v.g.wanted[s] = NoNode /\ s = <<u.links[k].dest, u.links[k].socket>>
             /\ u.g.wanted[s] = u.links[k].src

Takes(u, v, k, i) ==
    /\ May(u, u.links[k]) /\ ~ IsLinked(u.g, u.links[k]) /\ i # 0
    /\ v.links[k].socket = i /\ v.used = u.used \cup {u.links[k].src}
    /\ v.g.wanted = [u.g.wanted EXCEPT ![<<u.links[k].dest, i>>] = u.links[k].src]

LEMMA TurnCases ==
  ASSUME NEW u \in States, NEW k \in DOMAIN u.links, NEW at \in [Nodes -> Int]
  PROVE  LET v == TryLink(u, k, at)
             i == FindInSock(u.g, at, u.links[k])
         IN  /\ Refit(u.links, v.links, k)
             /\ Keeps(u, v, k) \/ Drops(u, v, k, i) \/ Takes(u, v, k, i)
<1> DEFINE l == u.links[k]
           i == FindInSock(u.g, at, l)
           v == TryLink(u, k, at)
           undone == UndoLink(u.g, l)
           q == <<l.dest, i>>
           made == ConnectIn(u.g, q, l.src)
           Given(x) == [u.links EXCEPT ![k].socket = x]
           used == u.used \cup {l.src}
           dest == [u.dest EXCEPT ![l.src] = l.dest]
<1>1. /\ u.g \in Wires /\ u.links \in Seq(Links) /\ l \in Links
      /\ u = [g |-> u.g, links |-> u.links, dest |-> u.dest, used |-> u.used]
  BY DEF States
<1>2. l.src \in Nodes /\ l.src \in Source /\ l.dest \in Nodes /\ InCount[l.dest] \in Nat
  <2> HIDE DEF l
  <2> QED  BY <1>1, NodesAssumption DEF Links, Source
<1>3. i \in 0 .. InCount[l.dest]
  <2> HIDE DEF l
  <2> QED  BY <1>1, FindInSockEffect
<1>4. \A x \in Nat : Refit(u.links, Given(x), k) /\ Given(x)[k].socket = x
  <2> TAKE x \in Nat
  <2> DEFINE e == [l EXCEPT !.socket = x]
             more == [u.links EXCEPT ![k] = e]
  <2>1. /\ e.src = l.src /\ e.dest = l.dest /\ e.dist = l.dist /\ e.center = l.center
        /\ e.socket = x
    <3> HIDE DEF l
    <3> QED  BY <1>1 DEF Links
  <2> HIDE DEF e
  <2>2. /\ DOMAIN more = DOMAIN u.links /\ more[k] = e
        /\ \A j \in DOMAIN u.links \ {k} : more[j] = u.links[j]
    BY <1>1
  <2> HIDE DEF more
  <2>3. Refit(u.links, more, k) /\ more[k].socket = x
    BY <2>1, <2>2 DEF Refit, SamePair
  <2> QED  BY <2>3 DEF more, e
<1>5. CASE May(u, l) /\ IsLinked(u.g, l)
  <2>1. v = [u EXCEPT !.used = used]
    BY <1>5 DEF TryLink, May
  <2> HIDE DEF v, used
  <2>2. v.links = u.links /\ v.g = u.g /\ v.used = used
    BY <1>1, <2>1
  <2>3. Refit(u.links, v.links, k)
    BY <2>2 DEF Refit, SamePair
  <2>4. Keeps(u, v, k)
    BY <1>5, <2>2 DEF Keeps, used
  <2> QED  BY <2>3, <2>4 DEF v
<1>6. CASE ~ May(u, l) \/ (~ IsLinked(u.g, l) /\ i = 0)
  <2>1. v = [u EXCEPT !.g = undone, !.links = Given(0)]
    <3>1. CASE ~ May(u, l)
      BY <3>1 DEF TryLink, May
    <3>2. CASE May(u, l) /\ ~ IsLinked(u.g, l) /\ i = 0
      <4>1. v = [u EXCEPT !.links = Given(0)]
        BY <3>2 DEF TryLink, May
      <4>2. undone = u.g
        BY <3>2 DEF UndoLink
      <4> HIDE DEF v, undone, Given
      <4> QED  BY <1>1, <4>1, <4>2
    <3> QED  BY <1>6, <3>1, <3>2
  <2> HIDE DEF v, undone, Given
  <2>2. v.links = Given(0) /\ v.g = undone /\ v.used = u.used
    BY <1>1, <2>1
  <2>3. Refit(u.links, v.links, k) /\ v.links[k].socket = 0
    BY <1>4, <2>2
  <2>4. ASSUME NEW s \in Sockets
        PROVE  \/ undone.wanted[s] = u.g.wanted[s]
               \/ undone.wanted[s] = NoNode /\ s = <<l.dest, l.socket>> /\ u.g.wanted[s] = l.src
    <3>1. CASE IsLinked(u.g, l)
      <4>1. \/ undone.wanted[s] = u.g.wanted[s]
            \/ undone.wanted[s] = NoNode /\ s = <<l.dest, l.socket>>
        <5> HIDE DEF l
        <5> QED  BY <1>1, UndoLinkEffect DEF undone
      <4> QED  BY <3>1, <4>1 DEF IsLinked
    <3>2. CASE ~ IsLinked(u.g, l)
      BY <3>2 DEF undone, UndoLink
    <3> QED  BY <3>1, <3>2
  <2>5. Drops(u, v, k, i)
    <3> HIDE DEF i
    <3> QED  BY <1>6, <2>2, <2>3, <2>4 DEF Drops
  <2> QED  BY <2>3, <2>5 DEF v
<1>7. CASE May(u, l) /\ ~ IsLinked(u.g, l) /\ i # 0
  <2>1. v = [u EXCEPT !.g = made, !.links = Given(i), !.used = used, !.dest = dest]
    BY <1>7 DEF TryLink, May
  <2>2. i \in 1 .. InCount[l.dest] /\ i \in Nat
    BY <1>2, <1>3, <1>7
  <2>3. q \in Sockets
    <3> HIDE DEF i, l
    <3> QED  BY <1>2, <2>2, SocketOf
  <2> HIDE DEF v, Given, i, used, made, dest
  <2>4. v.links = Given(i) /\ v.g = made /\ v.used = used
    BY <1>1, <2>1
  <2>5. Refit(u.links, v.links, k) /\ v.links[k].socket = i
    BY <1>4, <2>2, <2>4
  <2>6. made.wanted = [u.g.wanted EXCEPT ![q] = l.src]
    <3> HIDE DEF q, l
    <3> QED  BY <1>1, <1>2, <2>3, ConnectInEffect DEF made
  <2>7. Takes(u, v, k, i)
    BY <1>7, <2>4, <2>5, <2>6 DEF Takes, used
  <2> QED  BY <2>5, <2>7 DEF v, i
<1> QED  BY <1>5, <1>6, <1>7

\* What find_in_sock answers: a socket the entry allows, which is free or has a
\* source that is as far as the link is long; or none, where all are taken by
\* sources as near.
LEMMA FindInSockPicks ==
  ASSUME NEW g \in Wires, NEW at \in [Nodes -> Int], NEW l \in Links
  PROVE  LET i == FindInSock(g, at, l)
             Src(j) == g.wanted[<<l.dest, j>>]
             Far(j) == Dist(at, Src(j), l.dest)
             fixed == Table[l.src, l.dest]
         IN  /\ i # 0 => fixed \in {0, i}
             /\ l.dist = Dist(at, l.src, l.dest) =>
                   /\ i # 0 => Src(i) = NoNode \/ Far(i) >= l.dist
                   /\ i = 0 => \A j \in 1 .. InCount[l.dest] :
                                  fixed \in {0, j} => Src(j) # NoNode /\ Far(j) <= l.dist
<1> DEFINE Src(j) == g.wanted[<<l.dest, j>>]
           Far(j) == Dist(at, Src(j), l.dest)
           n == InCount[l.dest]
           sockets == 1 .. n
           free == {j \in sockets : Src(j) = NoNode}
           farther == {j \in sockets \ free : Far(j) >= l.dist}
           fixed == Table[l.src, l.dest]
           worst == {j \in farther : \A m \in farther : Far(m) <= Far(j)}
           any == CASE free # {} -> Min(free) [] free = {} /\ farther = {} -> 0 [] OTHER -> Max(worst)
           nearer == fixed \in free \/ Dist(at, l.src, l.dest) < Far(fixed)
           i == FindInSock(g, at, l)
<1>1. i = IF fixed = 0 THEN any ELSE IF nearer THEN fixed ELSE 0
  BY DEF FindInSock
<1>2. l.dest \in Nodes /\ l.src \in Nodes /\ Linkable(l.src, l.dest) /\ n \in Nat /\ l.dist \in Nat
  BY NodesAssumption DEF Links
<1>3. fixed \in 0..n
  BY <1>2, TableAssumption, Zenon DEF Linkable
<1>4. \A j \in sockets : Src(j) \in Source
  BY <1>2, SocketOf DEF Wires
<1>5. \A j \in sockets \ free : Far(j) \in Nat
  <2> TAKE j \in sockets \ free
  <2>1. Src(j) \in Nodes
    BY <1>4 DEF Source
  <2> QED  BY <1>2, <2>1, NewLinkEffect
<1>6. free \in SUBSET (1..n) /\ farther \in SUBSET (1..n) /\ worst \in SUBSET (1..n)
  OBVIOUS
<1>7. free # {} => Min(free) \in free
  <2> HIDE DEF free
  <2> QED  BY <1>2, <1>6, SmallestUpTo
<1>8. farther # {} => Max(worst) \in farther
  <2> SUFFICES ASSUME farther # {} PROVE Max(worst) \in farther
    OBVIOUS
  <2> DEFINE F == [j \in farther |-> Far(j)]
  <2>1. F \in [farther -> Int]
    BY <1>5
  <2>2. PICK x \in farther : \A y \in farther : F[y] <= F[x]
    <3> HIDE DEF F, farther
    <3> QED  BY <1>2, <1>6, <2>1, LargestValue
  <2>3. x \in worst /\ worst \subseteq farther
    BY <2>2
  <2> HIDE DEF worst, farther
  <2> QED  BY <1>2, <1>6, <2>3, LargestUpTo
<1>9. CASE fixed = 0
  <2>1. i = any
    BY <1>1, <1>9
  <2> HIDE DEF i, fixed
  <2>2. CASE free # {}
    <3>1. any = Min(free)
      <4> HIDE DEF free, farther, worst
      <4> QED  BY <2>2
    <3>3. i \in free
      <4> HIDE DEF any, free
      <4> QED  BY <1>7, <2>1, <2>2, <3>1
    <3>2. i # 0 /\ Src(i) = NoNode
      BY <1>2, <3>3
    <3> QED  BY <1>9, <3>2 DEF i, fixed
  <2>3. CASE free = {} /\ farther = {}
    <3>1. i = 0
      BY <2>1, <2>3
    <3>2. \A j \in sockets : Src(j) # NoNode /\ Far(j) \in Nat /\ ~ (Far(j) >= l.dist)
      BY <1>5, <2>3
    <3>3. \A j \in sockets : Src(j) # NoNode /\ Far(j) <= l.dist
      <4> HIDE DEF Far
      <4> QED  BY <1>2, <3>2
    <3> QED  BY <3>1, <3>3 DEF i, fixed
  <2>4. CASE free = {} /\ farther # {}
    <3>1. i \in farther
      BY <1>8, <2>1, <2>4
    <3>2. i # 0 /\ Far(i) >= l.dist
      BY <1>2, <3>1
    <3> QED  BY <1>9, <3>2 DEF i, fixed
  <2> QED  BY <2>2, <2>3, <2>4
<1>10. CASE fixed # 0
  <2>1. i = IF nearer THEN fixed ELSE 0
    BY <1>1, <1>10
  <2> HIDE DEF i, fixed
  <2>2. fixed \in sockets
    BY <1>2, <1>3, <1>10
  <2>3. CASE fixed \in free
    <3>1. i = fixed /\ Src(i) = NoNode
      BY <2>1, <2>3
    <3> QED  BY <1>10, <3>1 DEF i, fixed
  <2>4. CASE fixed \notin free
    <3> DEFINE far == Far(fixed)
    <3>1. far \in Nat /\ Src(fixed) # NoNode
      BY <1>5, <2>2, <2>4
    <3>2. i = IF Dist(at, l.src, l.dest) < far THEN fixed ELSE 0
      BY <2>1, <2>4
    <3> HIDE DEF far
    <3>3. l.dist = Dist(at, l.src, l.dest) =>
             (i # 0 => i = fixed /\ far >= l.dist) /\ (i = 0 => far <= l.dist)
      BY <1>2, <1>10, <3>1, <3>2
    <3>4. i # 0 => i = fixed
      BY <3>2
    <3>5. l.dist = Dist(at, l.src, l.dest) /\ i = 0 =>
             \A j \in sockets : fixed \in {0, j} => Src(j) # NoNode /\ Far(j) <= l.dist
      BY <1>10, <3>1, <3>3 DEF far
    <3>6. l.dist = Dist(at, l.src, l.dest) /\ i # 0 => Far(i) >= l.dist
      BY <3>3, <3>4 DEF far
    <3> QED  BY <3>4, <3>5, <3>6 DEF i, fixed
  <2> QED  BY <2>3, <2>4
<1> QED  BY <1>9, <1>10

-----------------------------------------------------------------------------
(* Every turn makes the link if the definition wants it.                   *)

\* The links of a set that compete with a link.
RivalsOf(links, set, l) == {j \in set : Rivals(links[j], l)}

\* What Nearest asks of link k: its ends and its socket are not taken by those
\* made before it.
Open(links, before, k) ==
    /\ \A j \in before : links[j].src # links[k].src
    /\ \A j \in before : links[j].src # links[k].dest \/ links[j].dest # links[k].src
    /\ Cardinality(RivalsOf(links, before, links[k])) < Capacity(links[k])

\* The links up to k that are made.
Made(g, links, k) == {j \in DOMAIN links : j <= k /\ IsLinked(g, links[j])}

\* A source is used by a link that was made.
Backed(u, k) == \A n \in u.used : \E j \in Made(u.g, u.links, k) : u.links[j].src = n

\* The distances are those of now, and tell rivals apart.
Telling(links, at) ==
    /\ \A k \in DOMAIN links : links[k].dist = Dist(at, links[k].src, links[k].dest)
    /\ \A j, k \in DOMAIN links :
          Rivals(links[j], links[k]) /\ j # k => links[j].dist # links[k].dist

\* The entry of the link is for any socket of its destination, or for this one.
Allows(l, i) == Table[l.src, l.dest] \in {0, i}

\* Of the links of a set, all of them made, none has a socket.
Spared(g, links, set, n, i) ==
    \A j \in set : IsLinked(g, links[j]) /\ (links[j].dest = n => links[j].socket # i)

\* What the patcher goes by in a turn says the same as the links made so far.
LEMMA MayOpen ==
  ASSUME NEW u \in States, NEW k \in DOMAIN u.links, Tried(u, k - 1), Backed(u, k - 1)
  PROVE  LET before == Made(u.g, u.links, k - 1) IN
         May(u, u.links[k]) <=>
            /\ \A j \in before : u.links[j].src # u.links[k].src
            /\ \A j \in before : \/ u.links[j].src # u.links[k].dest
                                 \/ u.links[j].dest # u.links[k].src
<1> DEFINE before == Made(u.g, u.links, k - 1)
<1>1. \A j \in before : u.links[j].src \in u.used /\ u.dest[u.links[j].src] = u.links[j].dest
  BY DEF Made, Tried
<1>2. \A n \in u.used : \E j \in before : u.links[j].src = n
  BY DEF Backed
<1> HIDE DEF before
<1> QED  BY <1>1, <1>2 DEF May, before

\* The elements of a list and their places.
LEMMA ElementOf ==
  ASSUME NEW T, NEW s \in Seq(T), NEW k \in DOMAIN s
  PROVE  s[k] \in T /\ s[k] \in ToSet(s) /\ k \in Nat /\ k \in 1..Len(s) /\ Len(s) \in Nat
  BY DEF ToSet

\* Of two places the one that is not behind the other is before it.
LEMMA PlacesByLength ==
  ASSUME NEW m \in Nat, NEW k \in Nat, NEW x \in Nat, NEW y \in Nat, m # k, x # y,
         m < k => ~ (y < x), k < m => ~ (x < y)
  PROVE  (x >= y => m > k) /\ (x <= y => m < k)
  OBVIOUS

\* What the entries of two links to the same node allow: where one is made in a
\* socket that the other may take, the two are rivals.
LEMMA EntryRivals ==
  ASSUME NEW l \in Links, NEW e \in Links, Fits(e), e.socket > 0, e.dest = l.dest,
         Allows(l, e.socket)
  PROVE  Rivals(e, l)
<1> DEFINE a == Table[l.src, l.dest]
           c == Table[e.src, l.dest]
<1>1. /\ l.src \in Nodes /\ l.dest \in Nodes /\ e.src \in Nodes
      /\ a # NoLink /\ c # NoLink
  BY DEF Links, Linkable
<1>2. a \in {0, e.socket} /\ c \in {0, e.socket}
  BY DEF Fits, Allows
<1>3. (a = 0 => c = 0) /\ (c = 0 => a = 0)
  BY <1>1, EntriesAssumption
<1> HIDE DEF a, c
<1>4. a = c
  BY <1>2, <1>3
<1> QED  BY <1>4 DEF Rivals, a, c

\* Such a link is before or behind the other as it is nearer or farther.
LEMMA RivalPlaces ==
  ASSUME NEW links \in Seq(Links), NEW k \in DOMAIN links, NEW m \in DOMAIN links,
         NEW at, NEW g, Tidy(links), Telling(links, at), IsLinked(g, links[m]),
         m # k, links[m].dest = links[k].dest,
         Allows(links[k], links[m].socket)
  PROVE  /\ links[m].dist >= links[k].dist => m > k
         /\ links[m].dist <= links[k].dist => m < k
<1>1. /\ links[k] \in Links /\ links[m] \in Links /\ links[m] \in ToSet(links)
      /\ k \in Nat /\ m \in Nat
  BY ElementOf, Zenon
<1>2. Fits(links[m]) /\ links[m].socket > 0
  BY <1>1 DEF Tidy, IsLinked
<1>3. Rivals(links[m], links[k])
  BY <1>1, <1>2, EntryRivals
<1>4. links[m].dist # links[k].dist
  BY <1>3 DEF Telling
<1>5. /\ m < k => ~ Shorter(links[k], links[m])
      /\ k < m => ~ Shorter(links[m], links[k])
  BY DEF Tidy, InOrder
<1> DEFINE x == links[m].dist
           y == links[k].dist
<1>6. x \in Nat /\ y \in Nat
  BY <1>1 DEF Links
<1>7. (m < k => ~ (y < x)) /\ (k < m => ~ (x < y)) /\ x # y
  BY <1>4, <1>5 DEF Shorter
<1> HIDE DEF x, y
<1>8. (x >= y => m > k) /\ (x <= y => m < k)
  BY <1>1, <1>6, <1>7, PlacesByLength, Zenon
<1> QED  BY <1>8 DEF x, y

\* The numbers up to one.
LEMMA UpToCard ==
  ASSUME NEW n \in Nat
  PROVE  /\ IsFiniteSet(1..n) /\ Cardinality(1..n) = n
         /\ \A i \in 1..n : IsFiniteSet((1..n) \ {i}) /\ Cardinality((1..n) \ {i}) = n - 1
<1>1. IsFiniteSet(1..n) /\ Cardinality(1..n) = IF 1 > n THEN 0 ELSE n - 1 + 1
  BY FS_Interval
<1>2. Cardinality(1..n) = n
  BY <1>1
<1> QED  BY <1>1, <1>2, FS_RemoveElement

\* Numbers that bound one another.
LEMMA FewerThan ==
  ASSUME NEW n \in Nat, NEW c \in Nat
  PROVE  (c <= n - 1 => c < n) /\ (n <= c => ~ (c < n)) /\ (c # 0 => ~ (c < 1))
  OBVIOUS

\* A link that was made has a socket of its destination.
LEMMA SocketInRange ==
  ASSUME NEW l \in Links, NEW g, IsLinked(g, l)
  PROVE  l.socket \in 1 .. InCount[l.dest] /\ g.wanted[<<l.dest, l.socket>>] = l.src
<1>1. /\ l.socket > 0 /\ g.wanted[<<l.dest, l.socket>>] = l.src
      /\ l.socket \in 0 .. InCount[l.dest] /\ l.dest \in Nodes
  BY DEF IsLinked, Links
<1>2. InCount[l.dest] \in Nat
  BY <1>1, NodesAssumption
<1> QED  BY <1>1, <1>2

\* The rivals that are made have sockets of their own, so one that none of them
\* has leaves room.
LEMMA RoomLeft ==
  ASSUME NEW links \in Seq(Links), NEW l \in Links, NEW g, Tidy(links),
         NEW n, n = InCount[l.dest], NEW i \in 1..n, Allows(l, i),
         NEW before \in SUBSET DOMAIN links, Spared(g, links, before, l.dest, i)
  PROVE  Cardinality(RivalsOf(links, before, l)) < Capacity(l)
<1> DEFINE R == RivalsOf(links, before, l)
           fixed == Table[l.src, l.dest]
<1>1. n \in Nat
  BY NodesAssumption DEF Links
<1>2. ASSUME NEW j \in R
      PROVE  /\ j \in DOMAIN links /\ links[j].dest = l.dest /\ links[j].socket # i
             /\ links[j].socket \in 1..n /\ Allows(l, links[j].socket)
             /\ g.wanted[<<l.dest, links[j].socket>>] = links[j].src
  <2>1. /\ j \in DOMAIN links /\ Rivals(links[j], l) /\ IsLinked(g, links[j])
        /\ links[j].dest = l.dest => links[j].socket # i
    BY DEF RivalsOf, Spared
  <2>2. links[j] \in Links /\ links[j] \in ToSet(links)
    BY <2>1, ElementOf, Zenon
  <2>3. Fits(links[j])
    BY <2>2 DEF Tidy
  <2>4. /\ links[j].socket \in 1 .. InCount[links[j].dest]
        /\ g.wanted[<<links[j].dest, links[j].socket>>] = links[j].src
    BY <2>1, <2>2, SocketInRange
  <2>5. links[j].dest = l.dest /\ Table[links[j].src, links[j].dest] = fixed
    BY <2>1 DEF Rivals
  <2>6. Allows(l, links[j].socket)
    BY <2>1, <2>3, <2>5 DEF Fits, Allows, IsLinked
  <2> QED  BY <2>1, <2>4, <2>5, <2>6
<1>3. R \in SUBSET DOMAIN links
  BY DEF RivalsOf
<1>4. fixed = 0 => Capacity(l) = n
  BY DEF Capacity
<1>5. fixed # 0 => Capacity(l) = 1
  BY DEF Capacity
<1>6. fixed # 0 => \A x, y : Allows(l, x) /\ Allows(l, y) => x = y
  BY DEF Allows
<1> HIDE DEF R, fixed
<1>7. CASE fixed = 0
  <2> DEFINE f == [j \in R |-> links[j].socket]
             T == (1..n) \ {i}
  <2>1. IsFiniteSet(T) /\ Cardinality(T) = n - 1
    BY <1>1, UpToCard
  <2>2. f \in [R -> T]
    BY <1>2
  <2>3. ASSUME NEW x \in R, NEW y \in R, f[x] = f[y] PROVE x = y
    <3>1. links[x].socket = links[y].socket
      BY <2>3
    <3>2. links[x].src = links[y].src /\ links[x].dest = links[y].dest
      BY <1>2, <3>1
    <3>3. x \in DOMAIN links /\ y \in DOMAIN links
      BY <1>2
    <3> QED  BY <3>2, <3>3 DEF Tidy, OneForPair, SamePair
  <2> HIDE DEF f, T
  <2>5. f \in Injection(R, T)
    BY <2>2, <2>3 DEF Injection, IsInjective
  <2>6. IsFiniteSet(R) /\ Cardinality(R) <= n - 1
    BY <2>1, <2>5, FS_Injection
  <2>7. Cardinality(R) \in Nat
    BY <2>6, FS_CardinalityType
  <2> QED  BY <1>1, <1>4, <1>7, <2>6, <2>7, FewerThan DEF R
<1>8. CASE fixed # 0
  <2>1. R = {}
    BY <1>2, <1>6, <1>8
  <2>2. Cardinality(R) = 0
    BY <2>1, FS_EmptySet
  <2> QED  BY <1>5, <1>8, <2>2 DEF R
<1> QED  BY <1>7, <1>8

\* Where each socket has a rival that is made there is no room.
LEMMA NoRoom ==
  ASSUME NEW links \in Seq(Links), NEW l \in Links, NEW before \in SUBSET DOMAIN links,
         NEW n, n = InCount[l.dest],
         \A i \in 1..n : Allows(l, i) =>
            \E j \in RivalsOf(links, before, l) : links[j].socket = i
  PROVE  ~ (Cardinality(RivalsOf(links, before, l)) < Capacity(l))
<1> DEFINE R == RivalsOf(links, before, l)
           fixed == Table[l.src, l.dest]
<1>1. l.src \in Nodes /\ l.dest \in Nodes /\ Linkable(l.src, l.dest) /\ n \in Nat
  BY NodesAssumption DEF Links
<1>2. fixed \in 0..n
  BY <1>1, TableAssumption, Zenon DEF Linkable
<1>3. fixed = 0 => Capacity(l) = n /\ \A i : Allows(l, i)
  BY DEF Capacity, Allows
<1>4. fixed # 0 => Capacity(l) = 1 /\ Allows(l, fixed)
  BY DEF Capacity, Allows
<1>5. IsFiniteSet(R) /\ Cardinality(R) \in Nat
  <2> DEFINE size == Len(links)
  <2>1. size \in Nat /\ DOMAIN links = 1..size
    BY LenProperties
  <2>2. R \subseteq DOMAIN links
    BY DEF RivalsOf
  <2> HIDE DEF R, size
  <2>3. IsFiniteSet(R)
    BY <2>1, <2>2, UpToCard, FS_Subset
  <2> QED  BY <2>3, FS_CardinalityType
<1> HIDE DEF R, fixed
<1>6. \A i \in 1..n : Allows(l, i) => \E j \in R : links[j].socket = i
  BY DEF R
<1>7. CASE fixed = 0
  <2> DEFINE T == 1..n
             f == [i \in T |-> CHOOSE j \in R : links[j].socket = i]
  <2>1. \A i \in T : \E j \in R : links[j].socket = i
    BY <1>3, <1>6, <1>7
  <2>2. IsFiniteSet(T) /\ Cardinality(T) = n
    BY <1>1, UpToCard
  <2> HIDE DEF T
  <2>3. \A i \in T : f[i] \in R /\ links[f[i]].socket = i
    <3> TAKE i \in T
    <3>1. \E j \in R : links[j].socket = i
      BY <2>1
    <3> QED  BY <3>1
  <2>4. f \in [T -> R]
    BY <2>3
  <2> HIDE DEF f
  <2>5. f \in Injection(T, R)
    BY <2>3, <2>4 DEF Injection, IsInjective
  <2>6. n <= Cardinality(R)
    BY <1>5, <2>2, <2>5, FS_Injection
  <2> QED  BY <1>1, <1>3, <1>5, <1>7, <2>6, FewerThan DEF R
<1>8. CASE fixed # 0
  <2>1. fixed \in 1..n
    BY <1>1, <1>2, <1>8
  <2>2. PICK j \in R : links[j].socket = fixed
    BY <1>4, <1>6, <1>8, <2>1
  <2>3. Cardinality(R) # 0
    BY <1>5, <2>2, FS_EmptySet
  <2> QED  BY <1>4, <1>5, <1>8, <2>3, FewerThan DEF R
<1> QED  BY <1>7, <1>8

\* The same of find_in_sock, of a link that is as long as the distance.
LEMMA PickedSocket ==
  ASSUME NEW g \in Wires, NEW at \in [Nodes -> Int], NEW l \in Links,
         l.dist = Dist(at, l.src, l.dest), NEW i, i = FindInSock(g, at, l)
  PROVE  /\ i # 0 => /\ Allows(l, i)
                     /\ \/ g.wanted[<<l.dest, i>>] = NoNode
                        \/ Dist(at, g.wanted[<<l.dest, i>>], l.dest) >= l.dist
         /\ i = 0 => \A j \in 1 .. InCount[l.dest] : Allows(l, j) =>
                        /\ g.wanted[<<l.dest, j>>] # NoNode
                        /\ Dist(at, g.wanted[<<l.dest, j>>], l.dest) <= l.dist
  BY FindInSockPicks DEF Allows

\* What a link that is made in a socket says of it.
LEMMA MadeReads ==
  ASSUME NEW links \in Seq(Links), NEW at, Telling(links, at), Tidy(links),
         NEW g, NEW j \in DOMAIN links, IsLinked(g, links[j])
  PROVE  /\ links[j] \in Links /\ links[j].src \in Nodes /\ Fits(links[j]) /\ links[j].socket > 0
         /\ g.wanted[<<links[j].dest, links[j].socket>>] = links[j].src
         /\ links[j].dist = Dist(at, links[j].src, links[j].dest)
<1>1. links[j] \in Links /\ links[j] \in ToSet(links)
  BY ElementOf, Zenon
<1>2. links[j].src \in Nodes
  BY <1>1 DEF Links
<1>3. links[j].socket > 0 /\ g.wanted[<<links[j].dest, links[j].socket>>] = links[j].src
  BY DEF IsLinked
<1> QED  BY <1>1, <1>2, <1>3 DEF Telling, Tidy

\* A link that is displaced from a socket is behind the one that takes it.
LEMMA TakenBehind ==
  ASSUME NEW links \in Seq(Links), NEW g \in Wires, NEW at \in [Nodes -> Int],
         NEW k \in DOMAIN links, NEW j \in DOMAIN links, Tidy(links), Telling(links, at),
         IsLinked(g, links[j]), j # k, links[j].dest = links[k].dest,
         links[j].socket = FindInSock(g, at, links[k])
  PROVE  j > k
<1> DEFINE i == FindInSock(g, at, links[k])
<1>1. /\ links[j].src \in Nodes /\ links[j].socket > 0
      /\ g.wanted[<<links[j].dest, links[j].socket>>] = links[j].src
      /\ links[j].dist = Dist(at, links[j].src, links[j].dest)
  BY MadeReads
<1>2. links[k] \in Links /\ links[k].dist = Dist(at, links[k].src, links[k].dest)
  BY ElementOf, Zenon DEF Telling
<1>3. i # 0 /\ links[j].socket = i
  BY <1>1
<1> HIDE DEF i
<1>4. /\ Allows(links[k], i)
      /\ \/ g.wanted[<<links[k].dest, i>>] = NoNode
         \/ Dist(at, g.wanted[<<links[k].dest, i>>], links[k].dest) >= links[k].dist
  BY <1>2, <1>3, PickedSocket DEF i
<1>5. g.wanted[<<links[k].dest, i>>] = links[j].src
  BY <1>1, <1>3
<1>6. links[j].src # NoNode
  BY <1>1, NodesAssumption
<1>7. links[j].dist >= links[k].dist /\ Allows(links[k], links[j].socket)
  BY <1>1, <1>3, <1>4, <1>5, <1>6
<1> QED  BY <1>7, RivalPlaces

\* A link for which there is no socket has all of them taken by links before it.
LEMMA NonePicked ==
  ASSUME NEW links \in Seq(Links), NEW g \in Wires, NEW at \in [Nodes -> Int],
         NEW k \in DOMAIN links, Tidy(links), Telling(links, at), Sourced(g, links),
         ~ IsLinked(g, links[k]), FindInSock(g, at, links[k]) = 0
  PROVE  ~ (Cardinality(RivalsOf(links, Made(g, links, k - 1), links[k])) < Capacity(links[k]))
<1> DEFINE before == Made(g, links, k - 1)
<1>1. links[k] \in Links /\ links[k].dist = Dist(at, links[k].src, links[k].dest) /\ k \in Nat
  BY ElementOf, Zenon DEF Telling
<1>2. links[k].dest \in Nodes
  BY <1>1 DEF Links
<1>3. ASSUME NEW i \in 1 .. InCount[links[k].dest], Allows(links[k], i)
      PROVE  \E j \in RivalsOf(links, before, links[k]) : links[j].socket = i
  <2>1. /\ g.wanted[<<links[k].dest, i>>] # NoNode
        /\ Dist(at, g.wanted[<<links[k].dest, i>>], links[k].dest) <= links[k].dist
    BY <1>1, <1>3, PickedSocket
  <2>2. <<links[k].dest, i>> \in Sockets
    BY <1>2, SocketOf
  <2>3. PICK m \in DOMAIN links :
           IsLinked(g, links[m]) /\ <<links[m].dest, links[m].socket>> = <<links[k].dest, i>>
    BY <2>1, <2>2 DEF Sourced
  <2>4. m # k /\ links[m].dest = links[k].dest /\ links[m].socket = i
    BY <2>3
  <2>5. /\ links[m] \in Links /\ Fits(links[m]) /\ links[m].socket > 0
        /\ g.wanted[<<links[m].dest, links[m].socket>>] = links[m].src
        /\ links[m].dist = Dist(at, links[m].src, links[m].dest)
    BY <2>3, MadeReads
  <2>6. links[m].dist <= links[k].dist /\ Allows(links[k], links[m].socket)
    BY <1>3, <2>1, <2>4, <2>5
  <2>7. m < k
    BY <2>3, <2>4, <2>6, RivalPlaces
  <2>8. Rivals(links[m], links[k])
    BY <1>1, <2>4, <2>5, <2>6, EntryRivals
  <2>9. m \in Nat
    BY ElementOf, Zenon
  <2>10. m <= k - 1
    BY <1>1, <2>7, <2>9
  <2> QED  BY <2>3, <2>4, <2>8, <2>10 DEF RivalsOf, Made
<1>4. before \in SUBSET DOMAIN links
  BY DEF Made
<1> HIDE DEF before
<1>5. ~ (Cardinality(RivalsOf(links, before, links[k])) < Capacity(links[k]))
  BY <1>1, <1>3, <1>4, NoRoom
<1> QED  BY <1>5 DEF before

\* A link for which there is one has it from no link before it.
LEMMA OnePicked ==
  ASSUME NEW links \in Seq(Links), NEW g \in Wires, NEW at \in [Nodes -> Int],
         NEW k \in DOMAIN links, Tidy(links), Telling(links, at),
         FindInSock(g, at, links[k]) # 0
  PROVE  Cardinality(RivalsOf(links, Made(g, links, k - 1), links[k])) < Capacity(links[k])
<1> DEFINE before == Made(g, links, k - 1)
           i == FindInSock(g, at, links[k])
<1>1. links[k] \in Links /\ links[k].dist = Dist(at, links[k].src, links[k].dest) /\ k \in Nat
  BY ElementOf, Zenon DEF Telling
<1>2. i \in 1 .. InCount[links[k].dest]
  <2>1. i \in 0 .. InCount[links[k].dest] /\ i # 0
    BY <1>1, FindInSockEffect
  <2>2. InCount[links[k].dest] \in Nat
    BY <1>1, NodesAssumption DEF Links
  <2> HIDE DEF i
  <2> QED  BY <2>1, <2>2
<1>3. Allows(links[k], i)
  BY <1>1, PickedSocket
<1>4. Spared(g, links, before, links[k].dest, i)
  <2> SUFFICES ASSUME NEW j \in before
               PROVE  /\ IsLinked(g, links[j])
                      /\ links[j].dest = links[k].dest => links[j].socket # i
    BY DEF Spared
  <2>1. j \in DOMAIN links /\ IsLinked(g, links[j]) /\ j <= k - 1
    BY DEF Made
  <2>2. j \in Nat
    BY <2>1, ElementOf, Zenon
  <2>3. j # k /\ ~ (j > k)
    BY <1>1, <2>1, <2>2
  <2> QED  BY <2>1, <2>3, TakenBehind
<1>5. before \in SUBSET DOMAIN links
  BY DEF Made
<1> HIDE DEF before, i
<1>6. Cardinality(RivalsOf(links, before, links[k])) < Capacity(links[k])
  BY <1>1, <1>2, <1>3, <1>4, <1>5, RoomLeft
<1> QED  BY <1>6 DEF before

\* So has one that was made and stays.
LEMMA OneKept ==
  ASSUME NEW links \in Seq(Links), NEW g, NEW at, NEW k \in DOMAIN links,
         Tidy(links), Telling(links, at), IsLinked(g, links[k])
  PROVE  Cardinality(RivalsOf(links, Made(g, links, k - 1), links[k])) < Capacity(links[k])
<1> DEFINE before == Made(g, links, k - 1)
           i == links[k].socket
<1>1. links[k] \in Links /\ k \in Nat
  BY ElementOf, Zenon
<1>2. i \in 1 .. InCount[links[k].dest] /\ g.wanted[<<links[k].dest, i>>] = links[k].src
  BY <1>1, SocketInRange
<1>3. Allows(links[k], i)
  BY MadeReads DEF Fits, Allows
<1>4. Spared(g, links, before, links[k].dest, i)
  <2> SUFFICES ASSUME NEW j \in before, links[j].dest = links[k].dest, links[j].socket = i
               PROVE  FALSE
    BY DEF Spared, Made
  <2>1. j \in DOMAIN links /\ IsLinked(g, links[j]) /\ j <= k - 1
    BY DEF Made
  <2>2. j \in Nat
    BY <2>1, ElementOf, Zenon
  <2>3. j # k
    BY <1>1, <2>1, <2>2
  <2>4. links[j].src = links[k].src
    BY <1>2, <2>1, MadeReads
  <2> QED  BY <2>1, <2>3, <2>4 DEF Tidy, OneForPair, SamePair
<1>5. before \in SUBSET DOMAIN links
  BY DEF Made
<1> HIDE DEF before, i
<1>6. Cardinality(RivalsOf(links, before, links[k])) < Capacity(links[k])
  BY <1>1, <1>2, <1>3, <1>4, <1>5, RoomLeft
<1> QED  BY <1>6 DEF before

\* A turn leaves the links before it made or not made.
LEMMA TurnBefore ==
  ASSUME NEW u \in States, NEW v \in States, NEW k \in DOMAIN u.links,
         NEW at \in [Nodes -> Int], v = TryLink(u, k, at), Tidy(u.links), Telling(u.links, at),
         NEW j \in DOMAIN u.links, j < k
  PROVE  v.links[j] = u.links[j] /\ (IsLinked(v.g, u.links[j]) <=> IsLinked(u.g, u.links[j]))
<1> DEFINE i == FindInSock(u.g, at, u.links[k])
           s == <<u.links[j].dest, u.links[j].socket>>
<1>1. /\ u.links \in Seq(Links) /\ u.g \in Wires /\ v.g \in Wires
      /\ u.links[j] \in Links /\ j \in Nat /\ k \in Nat /\ u.links[k] \in Links
  <2>1. u.links \in Seq(Links) /\ u.g \in Wires /\ v.g \in Wires
    BY DEF States
  <2> QED  BY <2>1, ElementOf, Zenon
<1>2. j # k
  BY <1>1
<1>3. /\ Refit(u.links, v.links, k)
      /\ Keeps(u, v, k) \/ Drops(u, v, k, i) \/ Takes(u, v, k, i)
  BY TurnCases
<1>4. v.links[j] = u.links[j]
  BY <1>2, <1>3 DEF Refit
<1>5. u.links[j].src # u.links[k].src \/ u.links[j].dest # u.links[k].dest
  BY <1>2 DEF Tidy, OneForPair, SamePair
<1>6. u.links[j].src \in Nodes /\ u.links[j].src # NoNode
  BY <1>1, NodesAssumption DEF Links
<1>7. u.links[j].socket > 0 => s \in Sockets
  BY <1>1, SocketOfLink
<1> HIDE DEF i
<1>8. ASSUME u.links[j].socket > 0
      PROVE  v.g.wanted[s] = u.links[j].src <=> u.g.wanted[s] = u.links[j].src
  <2>1. CASE Keeps(u, v, k)
    BY <2>1 DEF Keeps
  <2>2. CASE Drops(u, v, k, i)
    <3>1. \/ v.g.wanted[s] = u.g.wanted[s]
          \/ /\ v.g.wanted[s] = NoNode /\ s = <<u.links[k].dest, u.links[k].socket>>
             /\ u.g.wanted[s] = u.links[k].src
      BY <1>7, <1>8, <2>2 DEF Drops
    <3> QED  BY <1>5, <1>6, <3>1
  <2>3. CASE Takes(u, v, k, i)
    <3>1. v.g.wanted = [u.g.wanted EXCEPT ![<<u.links[k].dest, i>>] = u.links[k].src]
      BY <2>3 DEF Takes
    <3>2. DOMAIN u.g.wanted = Sockets
      BY <1>1 DEF Wires
    <3>3. CASE s # <<u.links[k].dest, i>>
      BY <1>7, <1>8, <3>1, <3>2, <3>3
    <3>4. CASE s = <<u.links[k].dest, i>>
      <4>1. u.links[j].dest = u.links[k].dest /\ u.links[j].socket = i
        BY <3>4
      <4>2. v.g.wanted[s] = u.links[k].src
        BY <1>7, <1>8, <3>1, <3>2, <3>4
      <4>3. v.g.wanted[s] # u.links[j].src
        BY <1>5, <4>1, <4>2
      <4>4. ASSUME u.g.wanted[s] = u.links[j].src PROVE FALSE
        <5>1. IsLinked(u.g, u.links[j])
          BY <1>8, <4>4 DEF IsLinked
        <5>2. j > k
          BY <1>1, <1>2, <4>1, <5>1, TakenBehind DEF i
        <5> QED  BY <1>1, <5>2
      <4> QED  BY <4>3, <4>4
    <3> QED  BY <3>3, <3>4
  <2> QED  BY <1>3, <2>1, <2>2, <2>3
<1>9. IsLinked(v.g, u.links[j]) <=> IsLinked(u.g, u.links[j])
  BY <1>8 DEF IsLinked
<1> QED  BY <1>4, <1>9

\* A turn makes the link if the definition wants it, and not else; its source is
\* used then, and no other comes to be.
LEMMA TurnMakes ==
  ASSUME NEW u \in States, NEW v \in States, NEW k \in DOMAIN u.links,
         NEW at \in [Nodes -> Int], v = TryLink(u, k, at), Tidy(u.links), Telling(u.links, at),
         Sourced(u.g, u.links), Tried(u, k - 1), Backed(u, k - 1)
  PROVE  /\ IsLinked(v.g, v.links[k]) <=> Open(u.links, Made(u.g, u.links, k - 1), k)
         /\ v.used = u.used \/ (v.used = u.used \cup {u.links[k].src} /\ IsLinked(v.g, v.links[k]))
<1> DEFINE i == FindInSock(u.g, at, u.links[k])
           before == Made(u.g, u.links, k - 1)
           room == Cardinality(RivalsOf(u.links, before, u.links[k])) < Capacity(u.links[k])
<1>1. /\ u.links \in Seq(Links) /\ u.g \in Wires /\ v.g \in Wires /\ u.links[k] \in Links
  <2>1. u.links \in Seq(Links) /\ u.g \in Wires /\ v.g \in Wires
    BY DEF States
  <2> QED  BY <2>1, ElementOf, Zenon
<1>2. /\ Refit(u.links, v.links, k)
      /\ Keeps(u, v, k) \/ Drops(u, v, k, i) \/ Takes(u, v, k, i)
  BY TurnCases
<1>3. Open(u.links, before, k) <=> May(u, u.links[k]) /\ room
  BY MayOpen DEF Open
<1>4. IsLinked(u.g, u.links[k]) => room
  BY <1>1, OneKept
<1>5. i # 0 => room
  BY <1>1, OnePicked
<1>6. ~ IsLinked(u.g, u.links[k]) /\ i = 0 => ~ room
  BY <1>1, NonePicked
<1>7. i # 0 => <<u.links[k].dest, i>> \in Sockets /\ i > 0
  <2> SUFFICES ASSUME i # 0 PROVE <<u.links[k].dest, i>> \in Sockets /\ i > 0
    OBVIOUS
  <2>1. i \in 0 .. InCount[u.links[k].dest]
    BY <1>1, FindInSockEffect
  <2>2. u.links[k].dest \in Nodes /\ InCount[u.links[k].dest] \in Nat
    BY <1>1, NodesAssumption DEF Links
  <2> HIDE DEF i
  <2>3. i \in 1 .. InCount[u.links[k].dest]
    BY <2>1, <2>2
  <2> QED  BY <2>2, <2>3, SocketOf
<1> HIDE DEF i, before, room
<1>8. CASE Keeps(u, v, k)
  <2>1. /\ v.links[k] = u.links[k] /\ v.g.wanted = u.g.wanted /\ May(u, u.links[k])
        /\ v.used = u.used \cup {u.links[k].src} /\ IsLinked(u.g, u.links[k])
    BY <1>8 DEF Keeps
  <2>2. IsLinked(v.g, v.links[k])
    BY <2>1 DEF IsLinked
  <2> QED  BY <1>3, <1>4, <2>1, <2>2 DEF before
<1>9. CASE Drops(u, v, k, i)
  <2>1. /\ v.links[k].socket = 0 /\ v.used = u.used
        /\ ~ May(u, u.links[k]) \/ (~ IsLinked(u.g, u.links[k]) /\ i = 0)
    BY <1>9 DEF Drops
  <2>2. ~ IsLinked(v.g, v.links[k])
    BY <2>1 DEF IsLinked
  <2> QED  BY <1>3, <1>6, <2>1, <2>2 DEF before
<1>10. CASE Takes(u, v, k, i)
  <2>1. /\ v.links[k].socket = i /\ i # 0 /\ May(u, u.links[k])
        /\ v.used = u.used \cup {u.links[k].src}
        /\ v.g.wanted = [u.g.wanted EXCEPT ![<<u.links[k].dest, i>>] = u.links[k].src]
    BY <1>10 DEF Takes
  <2>2. v.links[k].src = u.links[k].src /\ v.links[k].dest = u.links[k].dest
    BY <1>2 DEF Refit, SamePair
  <2>3. DOMAIN u.g.wanted = Sockets
    BY <1>1 DEF Wires
  <2>4. v.g.wanted[<<u.links[k].dest, i>>] = u.links[k].src
    BY <1>7, <2>1, <2>3
  <2>5. IsLinked(v.g, v.links[k])
    BY <1>7, <2>1, <2>2, <2>4 DEF IsLinked
  <2> QED  BY <1>3, <1>5, <2>1, <2>5 DEF before
<1> QED  BY <1>2, <1>8, <1>9, <1>10

\* What is kept of the links up to the turn.
LEMMA TurnMade ==
  ASSUME NEW u \in States, NEW v \in States, NEW k \in DOMAIN u.links,
         NEW at \in [Nodes -> Int], v = TryLink(u, k, at), Tidy(u.links), Telling(u.links, at),
         Sourced(u.g, u.links), Tried(u, k - 1), Backed(u, k - 1)
  PROVE  /\ \A j \in DOMAIN u.links : j < k =>
               (j \in Made(v.g, v.links, k) <=> j \in Made(u.g, u.links, k - 1))
         /\ k \in Made(v.g, v.links, k) <=> Open(u.links, Made(u.g, u.links, k - 1), k)
         /\ Backed(v, k)
<1>1. u.links \in Seq(Links) /\ k \in Nat
  <2>1. u.links \in Seq(Links)
    BY DEF States
  <2> QED  BY <2>1, ElementOf, Zenon
<1>2. Refit(u.links, v.links, k)
  BY TurnCases
<1>3. DOMAIN v.links = DOMAIN u.links /\ v.links[k].src = u.links[k].src
  BY <1>2 DEF Refit, SamePair
<1>4. ASSUME NEW j \in DOMAIN u.links, j < k
      PROVE  /\ j \in Made(v.g, v.links, k) <=> j \in Made(u.g, u.links, k - 1)
             /\ v.links[j] = u.links[j]
  <2>1. v.links[j] = u.links[j] /\ (IsLinked(v.g, u.links[j]) <=> IsLinked(u.g, u.links[j]))
    BY <1>4, TurnBefore
  <2>2. j \in Nat
    BY <1>1, ElementOf, Zenon
  <2>3. j <= k /\ j <= k - 1
    BY <1>1, <1>4, <2>2
  <2> QED  BY <1>3, <2>1, <2>3 DEF Made
<1>5. k \in Made(v.g, v.links, k) <=> IsLinked(v.g, v.links[k])
  BY <1>1, <1>3 DEF Made
<1>6. /\ IsLinked(v.g, v.links[k]) <=> Open(u.links, Made(u.g, u.links, k - 1), k)
      /\ v.used = u.used \/ (v.used = u.used \cup {u.links[k].src} /\ IsLinked(v.g, v.links[k]))
  BY TurnMakes
<1>7. ASSUME NEW n \in u.used PROVE \E j \in Made(v.g, v.links, k) : v.links[j].src = n
  <2>1. PICK j \in Made(u.g, u.links, k - 1) : u.links[j].src = n
    BY DEF Backed
  <2>2. j \in DOMAIN u.links /\ j <= k - 1
    BY DEF Made
  <2>3. j \in Nat
    BY <1>1, <2>2, ElementOf, Zenon
  <2>4. j < k
    BY <1>1, <2>2, <2>3
  <2> QED  BY <1>4, <2>1, <2>2, <2>4
<1>8. Backed(v, k)
  BY <1>3, <1>5, <1>6, <1>7 DEF Backed
<1> QED  BY <1>4, <1>5, <1>6, <1>8

\* The lists are the same but for the sockets.
SameBut(links, more) ==
    /\ DOMAIN more = DOMAIN links
    /\ \A j \in DOMAIN links : /\ SamePair(more[j], links[j])
                               /\ more[j].dist = links[j].dist
                               /\ more[j].center = links[j].center

\* Of such lists the same is said.
LEMMA SameButSays ==
  ASSUME NEW links, NEW more, SameBut(links, more)
  PROVE  /\ InOrder(links) => InOrder(more)
         /\ OneForPair(links) => OneForPair(more)
         /\ \A at : Telling(links, at) => Telling(more, at)
         /\ \A set \in SUBSET DOMAIN links, k \in DOMAIN links :
               Open(more, set, k) <=> Open(links, set, k)
<1>1. /\ DOMAIN more = DOMAIN links
      /\ \A j \in DOMAIN links : /\ more[j].src = links[j].src /\ more[j].dest = links[j].dest
                                 /\ more[j].dist = links[j].dist
                                 /\ more[j].center = links[j].center
  BY DEF SameBut, SamePair
<1>2. \A i, j \in DOMAIN links : /\ Shorter(more[i], more[j]) <=> Shorter(links[i], links[j])
                                 /\ Rivals(more[i], more[j]) <=> Rivals(links[i], links[j])
  BY <1>1 DEF Shorter, Rivals
<1>3. InOrder(links) => InOrder(more)
  BY <1>1, <1>2 DEF InOrder
<1>4. OneForPair(links) => OneForPair(more)
  BY <1>1 DEF OneForPair, SamePair
<1>5. \A at : Telling(links, at) => Telling(more, at)
  BY <1>1, <1>2 DEF Telling
<1>6. ASSUME NEW set \in SUBSET DOMAIN links, NEW k \in DOMAIN links
      PROVE  Open(more, set, k) <=> Open(links, set, k)
  <2>1. RivalsOf(more, set, more[k]) = RivalsOf(links, set, links[k])
    BY <1>2 DEF RivalsOf
  <2>2. Capacity(more[k]) = Capacity(links[k])
    BY <1>1 DEF Capacity
  <2>3. \A j \in set : /\ more[j].src = links[j].src /\ more[j].dest = links[j].dest
                       /\ more[k].src = links[k].src /\ more[k].dest = links[k].dest
    BY <1>1
  <2> QED  BY <2>1, <2>2, <2>3 DEF Open
<1> QED  BY <1>3, <1>4, <1>5, <1>6

\* A turn keeps the links tidy.
LEMMA TurnTidy ==
  ASSUME NEW u \in States, NEW v \in States, NEW k \in DOMAIN u.links,
         NEW at \in [Nodes -> Int], v = TryLink(u, k, at), Tidy(u.links)
  PROVE  Tidy(v.links) /\ SameBut(u.links, v.links)
<1> DEFINE i == FindInSock(u.g, at, u.links[k])
<1>1. /\ Refit(u.links, v.links, k)
      /\ Keeps(u, v, k) \/ Drops(u, v, k, i) \/ Takes(u, v, k, i)
  BY TurnCases
<1>2. u.g \in Wires /\ u.links \in Seq(Links) /\ v.links \in Seq(Links)
  BY DEF States
<1>3. SameBut(u.links, v.links)
  BY <1>1 DEF Refit, SameBut, SamePair
<1>4. u.links[k] \in Links /\ Fits(u.links[k])
  BY <1>2, ElementOf, Zenon DEF Tidy
<1>5. i # 0 => Allows(u.links[k], i)
  BY <1>2, <1>4, FindInSockPicks DEF Allows
<1> HIDE DEF i
<1>6. Fits(v.links[k])
  <2>1. CASE Keeps(u, v, k)
    BY <1>4, <2>1 DEF Keeps
  <2>2. CASE Drops(u, v, k, i)
    <3>1. v.links[k].socket = 0
      BY <2>2 DEF Drops
    <3>2. ~ (v.links[k].socket > 0)
      BY <3>1
    <3> QED  BY <3>2 DEF Fits
  <2>3. CASE Takes(u, v, k, i)
    <3>1. v.links[k].socket = i /\ i # 0
      BY <2>3 DEF Takes
    <3>2. v.links[k].src = u.links[k].src /\ v.links[k].dest = u.links[k].dest
      BY <1>1 DEF Refit, SamePair
    <3> QED  BY <1>5, <3>1, <3>2 DEF Fits, Allows
  <2> QED  BY <1>1, <2>1, <2>2, <2>3
<1>7. ASSUME NEW l \in ToSet(v.links) PROVE Fits(l)
  <2>1. PICK j \in DOMAIN v.links : l = v.links[j]
    BY DEF ToSet
  <2>2. CASE j = k
    BY <1>6, <2>1, <2>2
  <2>3. CASE j # k
    <3>1. j \in DOMAIN u.links /\ l = u.links[j]
      BY <1>1, <2>1, <2>3 DEF Refit
    <3>2. l \in ToSet(u.links)
      BY <1>2, <3>1, ElementOf, Zenon
    <3> QED  BY <3>2 DEF Tidy
  <2> QED  BY <2>2, <2>3
<1> QED  BY <1>3, <1>7, SameButSays DEF Tidy

\* The links up to k are made as the definition says of links.
Decided(links, u, k) ==
    \A j \in DOMAIN links : j <= k =>
        (j \in Made(u.g, u.links, k)
            <=> Open(links, {m \in Made(u.g, u.links, k) : m < j}, j))

\* The next turn is as good.
LEMMA TurnDecides ==
  ASSUME NEW links \in Seq(Links), NEW u \in States, NEW v \in States, NEW k \in DOMAIN links,
         NEW at \in [Nodes -> Int], v = TryLink(u, k, at), SameBut(links, u.links),
         Tidy(u.links), Telling(links, at), Sourced(u.g, u.links),
         Tried(u, k - 1), Backed(u, k - 1), Decided(links, u, k - 1)
  PROVE  Decided(links, v, k) /\ Backed(v, k) /\ Tidy(v.links) /\ SameBut(links, v.links)
<1> DEFINE old == Made(u.g, u.links, k - 1)
           new == Made(v.g, v.links, k)
<1>1. k \in DOMAIN u.links /\ DOMAIN u.links = DOMAIN links /\ k \in Nat
      /\ \A j \in DOMAIN links : j \in Nat
  <2>1. k \in DOMAIN u.links /\ DOMAIN u.links = DOMAIN links
    BY DEF SameBut
  <2> QED  BY <2>1, ElementOf, Zenon
<1>2. Telling(u.links, at)
  BY SameButSays
<1>3. Tidy(v.links) /\ SameBut(u.links, v.links)
  BY <1>1, TurnTidy
<1>4. SameBut(links, v.links)
  BY <1>3 DEF SameBut, SamePair
<1>5. /\ \A j \in DOMAIN links : j < k => (j \in new <=> j \in old)
      /\ k \in new <=> Open(u.links, old, k)
      /\ Backed(v, k)
  BY <1>1, <1>2, TurnMade
<1>6. new \subseteq DOMAIN links /\ old \subseteq DOMAIN links /\ \A m \in old : m < k
  <2>1. new \subseteq DOMAIN links /\ old \subseteq DOMAIN links /\ \A m \in old : m <= k - 1
    BY <1>1, <1>4 DEF Made, SameBut
  <2> QED  BY <1>1, <2>1
<1>7. \A j \in DOMAIN links : j <= k - 1 =>
         (j \in old <=> Open(links, {m \in old : m < j}, j))
  BY DEF Decided
<1> HIDE DEF old, new
<1>8. ASSUME NEW j \in DOMAIN links, j <= k
      PROVE  {m \in new : m < j} = {m \in old : m < j}
  <2>1. \A m \in DOMAIN links : m < j => m < k
    BY <1>1, <1>8
  <2> QED  BY <1>5, <1>6, <2>1
<1>9. ASSUME NEW j \in DOMAIN links, j <= k
      PROVE  j \in new <=> Open(links, {m \in new : m < j}, j)
  <2>1. CASE j < k
    <3>1. j <= k - 1
      BY <1>1, <2>1
    <3> QED  BY <1>5, <1>7, <1>8, <2>1, <3>1
  <2>2. CASE j = k
    <3>1. {m \in new : m < k} = old
      BY <1>6, <1>8, <2>2
    <3>2. Open(u.links, old, k) <=> Open(links, old, k)
      BY <1>6, SameButSays
    <3> QED  BY <1>5, <2>2, <3>1, <3>2
  <2>3. j < k \/ j = k
    BY <1>1, <1>9
  <2> QED  BY <2>1, <2>2, <2>3
<1>10. Decided(links, v, k)
  BY <1>9 DEF Decided, new
<1> QED  BY <1>3, <1>4, <1>5, <1>10

\* What update () makes of links that are tidy and measured now.
LEMMA UpdateNearest ==
  ASSUME NEW p \in Patchers, NEW g \in Wires, NEW at \in [Nodes -> Int],
         p.changed, Sourced(g, p.links), Noted(g, p), Tidy(p.links)
  PROVE  LET r == Update(p, g, at)
             made == {k \in DOMAIN r.p.links : IsLinked(r.g, r.p.links[k])}
         IN  Tidy(r.p.links) /\ (Telling(p.links, at) => Nearest(r.p.links, made))
<1> DEFINE r == Update(p, g, at)
           n == Len(p.links)
           made == {k \in DOMAIN r.p.links : IsLinked(r.g, r.p.links[k])}
<1>1. PICK f : TurnsOf(p, g, at, f) /\ Ended(p, r, f[n])
  BY UpdateTurns
<1>2. p.links \in Seq(Links) /\ n \in Nat /\ DOMAIN p.links = 1..n
  BY DEF Patchers
<1>3. /\ f[0] = [g |-> g, links |-> p.links, dest |-> p.dest, used |-> {}]
      /\ \A k \in 1..n : f[k] = TryLink(f[k - 1], k, at)
      /\ \A k \in 0..n : f[k] \in States /\ Tried(f[k], k) /\ Sourced(f[k].g, f[k].links)
  BY <1>1 DEF TurnsOf
<1>4. r.p.links = f[n].links /\ r.g = f[n].g
  <2> HIDE DEF r
  <2> QED  BY <1>1 DEF Patchers, Ended
<1>5. f[0].links = p.links /\ f[0].used = {}
  BY <1>3
<1> HIDE DEF n, r, made
<1> DEFINE S == {k \in 0..n : /\ Tidy(f[k].links) /\ SameBut(p.links, f[k].links)
                              /\ Telling(p.links, at) => Backed(f[k], k) /\ Decided(p.links, f[k], k)}
<1>6. 0 \in S
  <2>1. SameBut(p.links, p.links)
    BY DEF SameBut, SamePair
  <2>2. \A j \in DOMAIN p.links : ~ (j <= 0)
    BY <1>2
  <2>3. Backed(f[0], 0) /\ Decided(p.links, f[0], 0)
    BY <1>5, <2>2 DEF Backed, Decided
  <2>4. 0 \in 0..n
    BY <1>2
  <2> QED  BY <1>5, <2>1, <2>3, <2>4
<1>7. ASSUME NEW k \in 0..n - 1, k \in S PROVE k + 1 \in S
  <2>1. k + 1 \in 1..n /\ (k + 1) - 1 = k /\ k \in 0..n /\ k + 1 \in 0..n
    BY <1>2
  <2>2. /\ f[k] \in States /\ f[k + 1] \in States /\ f[k + 1] = TryLink(f[k], k + 1, at)
        /\ Tried(f[k], (k + 1) - 1) /\ Sourced(f[k].g, f[k].links)
    BY <1>3, <2>1
  <2>3. /\ Tidy(f[k].links) /\ SameBut(p.links, f[k].links)
        /\ Telling(p.links, at) => Backed(f[k], (k + 1) - 1) /\ Decided(p.links, f[k], (k + 1) - 1)
    BY <1>7, <2>1
  <2>4. k + 1 \in DOMAIN p.links /\ k + 1 \in DOMAIN f[k].links
    BY <1>2, <2>1, <2>3 DEF SameBut
  <2>5. Tidy(f[k + 1].links) /\ SameBut(f[k].links, f[k + 1].links)
    BY <2>2, <2>3, <2>4, TurnTidy
  <2>6. SameBut(p.links, f[k + 1].links)
    BY <2>3, <2>5 DEF SameBut, SamePair
  <2>7. Telling(p.links, at) => Backed(f[k + 1], k + 1) /\ Decided(p.links, f[k + 1], k + 1)
    <3> SUFFICES ASSUME Telling(p.links, at)
                 PROVE  Backed(f[k + 1], k + 1) /\ Decided(p.links, f[k + 1], k + 1)
      OBVIOUS
    <3> QED  BY <1>2, <2>2, <2>3, <2>4, TurnDecides
  <2> QED  BY <2>1, <2>5, <2>6, <2>7
<1> HIDE DEF S
<1>8. 0..n \subseteq S
  BY <1>2, <1>6, <1>7, NumbersUpTo
<1>9. n \in S
  BY <1>2, <1>8
<1>10. /\ Tidy(f[n].links) /\ SameBut(p.links, f[n].links)
       /\ Telling(p.links, at) => Decided(p.links, f[n], n)
  BY <1>9 DEF S
<1>11. DOMAIN r.p.links = DOMAIN p.links /\ \A j \in DOMAIN p.links : j <= n
  BY <1>2, <1>4, <1>10 DEF SameBut
<1>12. made = Made(f[n].g, f[n].links, n)
  BY <1>4, <1>11 DEF made, Made
<1>13. ASSUME Telling(p.links, at) PROVE Nearest(r.p.links, made)
  <2>1. \A j \in DOMAIN p.links : j \in made <=> Open(p.links, {m \in made : m < j}, j)
    BY <1>10, <1>11, <1>12, <1>13 DEF Decided
  <2>2. \A j \in DOMAIN p.links :
           j \in made <=> Open(r.p.links, {m \in made : m < j}, j)
    <3> TAKE j \in DOMAIN p.links
    <3>1. {m \in made : m < j} \in SUBSET DOMAIN p.links
      BY <1>11 DEF made
    <3> QED  BY <1>4, <1>10, <2>1, <3>1, SameButSays
  <2> QED  BY <1>11, <2>2 DEF Nearest, Open, RivalsOf
<1> QED  BY <1>4, <1>10, <1>13 DEF r, made

\* The links of the nodes that stay.
LEMMA DeleteNodeTidy ==
  ASSUME NEW p \in Patchers, NEW g, NEW n, Tidy(p.links)
  PROVE  LET r == DeleteNode(p, g, n) IN
         Tidy(r.p.links) /\ (n \in p.nodes => r.p.changed) /\ (n \notin p.nodes => r.p = p)
<1> DEFINE r == DeleteNode(p, g, n)
<1>1. p.links \in Seq(Links) /\ p.changed \in BOOLEAN
  BY DEF Patchers
<1>2. CASE n \notin p.nodes
  <2>1. r.p = p
    BY <1>2 DEF DeleteNode
  <2> HIDE DEF r
  <2> QED  BY <1>2, <2>1 DEF r
<1>3. CASE n \in p.nodes
  <2>1. r.p = [ p EXCEPT !.nodes = @ \ {n}, !.changed = TRUE,
                        !.links = LinksOfOthers(@, n), !.dest[n] = NoNode ]
    BY <1>3 DEF DeleteNode
  <2> HIDE DEF r
  <2>2. r.p.links = LinksOfOthers(p.links, n) /\ r.p.changed
    BY <2>1 DEF Patchers
  <2>3. Tidy(r.p.links)
    BY <1>1, <2>2, AmongTidy DEF LinksOfOthers
  <2> QED  BY <1>3, <2>2, <2>3 DEF r
<1> QED  BY <1>2, <1>3

-----------------------------------------------------------------------------
(* What keeps a patch sound.                                               *)

\* Sockets that are asked to read nothing.
LEMMA ShrunkSound ==
  ASSUME NEW p \in Patchers, NEW g \in Wires, NEW h \in Wires, Sound(g, p),
         \A s \in Sockets : h.wanted[s] = g.wanted[s] \/ h.wanted[s] = NoNode
  PROVE  /\ Sound(h, p)
         /\ \A l \in ToSet(p.links) : IsLinked(h, l) => IsLinked(g, l)
<1>1. ToSet(p.links) \subseteq Links
  BY LinksIn
<1>2. ASSUME NEW l \in ToSet(p.links), IsLinked(h, l) PROVE IsLinked(g, l)
  <2> DEFINE s == <<l.dest, l.socket>>
  <2>1. l \in Links /\ l.socket > 0 /\ h.wanted[s] = l.src
    BY <1>1, <1>2 DEF IsLinked
  <2>2. s \in Sockets /\ l.src \in Nodes
    BY <2>1, SocketOfLink
  <2> HIDE DEF s
  <2>3. g.wanted[s] = l.src
    BY <2>1, <2>2, NodesAssumption
  <2> QED  BY <2>1, <2>3 DEF IsLinked, s
<1>3. ASSUME NEW s \in Sockets, h.wanted[s] # NoNode
      PROVE  \E l \in ToSet(p.links) : IsLinked(h, l) /\ <<l.dest, l.socket>> = s
  <2>1. h.wanted[s] = g.wanted[s] /\ g.wanted[s] # NoNode
    BY <1>3
  <2>2. PICK l \in ToSet(p.links) : IsLinked(g, l) /\ <<l.dest, l.socket>> = s
    BY <2>1, SourcedBy DEF Sound
  <2>3. IsLinked(h, l)
    BY <2>1, <2>2 DEF IsLinked
  <2> QED  BY <2>2, <2>3
<1>4. Sourced(h, p.links)
  BY <1>3, SourcedBy
<1>5. SingleOut(h)
  BY DEF Sound, SingleOut
<1>6. Noted(h, p)
  BY <1>2 DEF Sound, Noted
<1> QED  BY <1>2, <1>4, <1>5, <1>6 DEF Sound

\* A node that leaves the patcher.
LEMMA DeletedSound ==
  ASSUME NEW p \in Patchers, NEW g \in Wires, NEW n \in Nodes, Ends(p), Sound(g, p)
  PROVE  LET r == DeleteNode(p, g, n) IN Ends(r.p) /\ Sound(r.g, r.p)
<1> DEFINE r == DeleteNode(p, g, n)
<1>1. /\ Rewired(g, r.g, {}) /\ r.p \in Patchers /\ r.p.nodes = p.nodes \ {n}
      /\ ToSet(r.p.links) = {l \in ToSet(p.links) : ~ IsEnd(l, n)}
      /\ \A l \in ToSet(p.links) : IsEnd(l, n) => ~ IsLinked(r.g, l)
      /\ \A m \in Nodes \ {n} : r.p.dest[m] = p.dest[m]
  BY DeleteNodeEffect
<1> HIDE DEF r
<1>2. Sound(r.g, p)
  <2>1. r.g \in Wires /\ \A s \in Sockets : r.g.wanted[s] = g.wanted[s] \/ r.g.wanted[s] = NoNode
    BY <1>1 DEF Rewired
  <2> QED  BY <2>1, ShrunkSound
<1>3. Ends(r.p)
  BY <1>1 DEF Ends, IsEnd
<1>4. Sourced(r.g, r.p.links)
  <2> SUFFICES ASSUME NEW s \in Sockets, r.g.wanted[s] # NoNode
               PROVE  \E l \in ToSet(r.p.links) : IsLinked(r.g, l) /\ <<l.dest, l.socket>> = s
    BY <1>1, SourcedBy
  <2>1. PICK l \in ToSet(p.links) : IsLinked(r.g, l) /\ <<l.dest, l.socket>> = s
    BY <1>2, SourcedBy DEF Sound
  <2> QED  BY <1>1, <2>1
<1>5. Noted(r.g, r.p)
  <2> SUFFICES ASSUME NEW l \in ToSet(r.p.links), IsLinked(r.g, l) PROVE r.p.dest[l.src] = l.dest
    BY DEF Noted
  <2>1. l \in ToSet(p.links) /\ l.src # n
    BY <1>1 DEF IsEnd
  <2>2. l.src \in Nodes /\ p.dest[l.src] = l.dest
    BY <1>2, <2>1, LinksIn DEF Sound, Noted, Links
  <2> QED  BY <1>1, <2>1, <2>2
<1> QED  BY <1>2, <1>3, <1>4, <1>5 DEF Sound, r

\* A node that comes to the patcher.
LEMMA AddedSound ==
  ASSUME NEW p \in Patchers, NEW q, NEW n \in Nodes, NEW g, Ends(p), Sound(g, p), Joined(p, q, n)
  PROVE  Ends(q) /\ Sound(g, q)
<1>1. /\ q \in Patchers /\ q.nodes = p.nodes \cup {n} /\ q.dest = p.dest
      /\ ToSet(p.links) \subseteq ToSet(q.links)
      /\ \A l \in ToSet(q.links) :
            \/ l \in ToSet(p.links)
            \/ l.socket = 0 /\ l.src \in p.nodes \cup {n} /\ l.dest \in p.nodes \cup {n}
  BY DEF Joined
<1>2. Ends(q)
  BY <1>1 DEF Ends
<1>3. Sourced(g, q.links)
  BY <1>1, SourcedBy DEF Sound
<1>4. Noted(g, q)
  <2> SUFFICES ASSUME NEW l \in ToSet(q.links), IsLinked(g, l) PROVE q.dest[l.src] = l.dest
    BY DEF Noted
  <2>1. l \in ToSet(p.links)
    BY <1>1 DEF IsLinked
  <2> QED  BY <1>1, <2>1 DEF Sound, Noted
<1> QED  BY <1>2, <1>3, <1>4 DEF Sound

\* Links that are measured again.
LEMMA MovedSound ==
  ASSUME NEW p \in Patchers, NEW at \in [Nodes -> Int], NEW n \in Nodes, NEW g, Ends(p), Sound(g, p)
  PROVE  LET q == SetParamNode(p, at, n) IN Ends(q) /\ Sound(g, q)
<1> DEFINE q == SetParamNode(p, at, n)
<1>1. /\ q \in Patchers /\ q.nodes = p.nodes /\ q.dest = p.dest
      /\ \A l \in ToSet(q.links) : \E m \in ToSet(p.links) : Same(l, m)
      /\ \A m \in ToSet(p.links) : \E l \in ToSet(q.links) : Same(l, m)
  BY SetParamNodeEffect
<1> HIDE DEF q
<1>2. \A l, m : Same(l, m) => (IsLinked(g, l) <=> IsLinked(g, m))
  BY DEF Same, IsLinked
<1>3. Ends(q)
  BY <1>1 DEF Ends, Same
<1>4. Sourced(g, q.links)
  <2> SUFFICES ASSUME NEW s \in Sockets, g.wanted[s] # NoNode
               PROVE  \E l \in ToSet(q.links) : IsLinked(g, l) /\ <<l.dest, l.socket>> = s
    BY <1>1, SourcedBy
  <2>1. PICK m \in ToSet(p.links) : IsLinked(g, m) /\ <<m.dest, m.socket>> = s
    BY SourcedBy DEF Sound
  <2>2. PICK l \in ToSet(q.links) : Same(l, m)
    BY <1>1, <2>1
  <2> QED  BY <1>2, <2>1, <2>2 DEF Same
<1>5. Noted(g, q)
  <2> SUFFICES ASSUME NEW l \in ToSet(q.links), IsLinked(g, l) PROVE q.dest[l.src] = l.dest
    BY DEF Noted
  <2>1. PICK m \in ToSet(p.links) : Same(l, m)
    BY <1>1
  <2>2. IsLinked(g, m)
    BY <1>2, <2>1
  <2> QED  BY <1>1, <2>1, <2>2 DEF Sound, Noted, Same
<1> QED  BY <1>3, <1>4, <1>5 DEF Sound, q

\* What a step of the user's thread may do to the sockets, and to those of the
\* nodes of X that it destroys.
Reconnected(g, h, X) ==
    /\ h \in Wires /\ Refs(h)
    /\ \A s \in Sockets :
          /\ h.actual[s] \notin X
          /\ s[1] \in X => /\ h.wanted[s] = NoNode /\ h.actual[s] = NoNode
                           /\ h.env[s].val = 0
          /\ s[1] \notin X =>
                /\ h.env[s].val = g.env[s].val
                /\ \/ /\ h.wanted[s] = g.wanted[s] /\ h.actual[s] = g.actual[s]
                      /\ h.pending[s] = g.pending[s]
                   \/ Finished(g, s) /\ h.actual[s] = h.wanted[s]
                   \/ ~ Finished(g, s) /\ h.actual[s] = g.actual[s] /\ h.pending[s]

\* Connections are such a step.
LEMMA RewiredOnly ==
  ASSUME NEW g, NEW h, NEW S, Rewired(g, h, S), Refs(g)
  PROVE  Reconnected(g, h, {})
  BY DEF Rewired, Reconnected

\* And the end of nodes that nothing is connected to.
LEMMA RewiredFreed ==
  ASSUME NEW g, NEW h, NEW S, Rewired(g, h, S), Refs(g), NEW X \in SUBSET Nodes,
         \A n \in X : ~ HasConnections(h, n)
  PROVE  Reconnected(g, Freed(h, X), X)
<1> DEFINE f == Freed(h, X)
<1>1. h \in Wires /\ Refs(h)
  BY DEF Rewired
<1>2. /\ f \in Wires /\ f.actual = h.actual /\ Refs(f)
      /\ \A s \in Sockets :
            /\ s[1] \in X => f.wanted[s] = NoNode /\ ~ f.pending[s] /\ f.env[s].val = 0
            /\ s[1] \notin X => /\ f.wanted[s] = h.wanted[s]
                                /\ f.pending[s] = h.pending[s]
                                /\ f.env[s] = h.env[s]
  BY <1>1, FreedEffect
<1> HIDE DEF f
<1>3. \A n \in X, s \in Sockets : h.actual[s] # n /\ (s[1] = n => h.actual[s] = NoNode)
  <2> TAKE n \in X, s \in Sockets
  <2>1. Connected(h, n) = {}
    BY DEF HasConnections
  <2>2. h.refs[n] = {t \in Sockets : h.actual[t] = n}
    BY <1>1 DEF Refs
  <2>3. s \notin h.refs[n]
    BY <2>1 DEF Connected
  <2>4. s[1] = n => h.actual[s] = NoNode
    BY <2>1 DEF Connected, SocketsOf
  <2> QED  BY <2>2, <2>3, <2>4
<1>4. ASSUME NEW s \in Sockets PROVE f.actual[s] \notin X
  BY <1>2, <1>3
<1>5. ASSUME NEW s \in Sockets, s[1] \in X
      PROVE  f.wanted[s] = NoNode /\ f.actual[s] = NoNode /\ f.env[s].val = 0
  BY <1>2, <1>3, <1>5
<1>6. ASSUME NEW s \in Sockets, s[1] \notin X
      PROVE  /\ f.env[s].val = g.env[s].val
             /\ \/ /\ f.wanted[s] = g.wanted[s] /\ f.actual[s] = g.actual[s]
                   /\ f.pending[s] = g.pending[s]
                \/ Finished(g, s) /\ f.actual[s] = f.wanted[s]
                \/ ~ Finished(g, s) /\ f.actual[s] = g.actual[s] /\ f.pending[s]
  BY <1>2, <1>6 DEF Rewired
<1> QED  BY <1>2, <1>4, <1>5, <1>6 DEF Reconnected, f

-----------------------------------------------------------------------------
(* The thread.                                                             *)

\* A node that the thread is inside, with an input of it or none.
Frames == {f \in [node : Nodes, input : Nat] : f.input \in 0 .. InCount[f.node]}

Threads == [ pc : {"idle", "inputs", "sockets", "force", "delete"},
             stack : Seq(Frames), done : SUBSET Nodes, src : Source ]

RtTyped ==
    /\ rt \in Threads
    /\ rt.pc \in {"inputs", "sockets", "force"} <=> rt.stack # <<>>
    /\ rt.stack = <<>> => rt.done = {}
    /\ rt.pc = "force" => Top.input > 0

\* The input of the node on the top.
LEMMA TopStepped ==
  ASSUME NEW s \in Seq(Frames), s # <<>>, NEW i \in 0 .. InCount[s[Len(s)].node]
  PROVE  LET t == [s EXCEPT ![Len(s)].input = i] IN
         /\ t \in Seq(Frames) /\ Len(t) = Len(s) /\ t # <<>>
         /\ \A k \in 1 .. Len(s) - 1 : t[k] = s[k]
         /\ t[Len(s)] = [node |-> s[Len(s)].node, input |-> i]
<1> DEFINE e == [s[Len(s)] EXCEPT !.input = i]
           f == [node |-> s[Len(s)].node, input |-> i]
           t == [s EXCEPT ![Len(s)] = e]
<1>1. Len(s) \in 1 .. Len(s) /\ DOMAIN s = 1 .. Len(s) /\ Len(s) \in Nat
  OBVIOUS
<1>2. s[Len(s)] \in Frames
  BY <1>1
<1>3. e = f /\ f \in Frames
  BY <1>2, NodesAssumption DEF Frames
<1> HIDE DEF e, f
<1>4. /\ t \in Seq(Frames) /\ Len(t) = Len(s)
      /\ \A j \in 1 .. Len(s) : t[j] = IF j = Len(s) THEN e ELSE s[j]
  BY <1>1, <1>3, ExceptSeq
<1>5. t # <<>>
  BY <1>1, <1>4
<1> QED  BY <1>1, <1>3, <1>4, <1>5 DEF f, e

\* Another node on the top.
LEMMA TopPushed ==
  ASSUME NEW s \in Seq(Frames), NEW n \in Nodes
  PROVE  LET t == Append(s, [node |-> n, input |-> 0]) IN
         /\ t \in Seq(Frames) /\ Len(t) = Len(s) + 1 /\ t # <<>>
         /\ \A k \in 1 .. Len(s) : t[k] = s[k]
         /\ t[Len(s) + 1] = [node |-> n, input |-> 0]
<1> DEFINE f == [node |-> n, input |-> 0]
<1>1. f \in Frames
  BY NodesAssumption DEF Frames
<1> HIDE DEF f
<1>2. /\ Append(s, f) \in Seq(Frames) /\ Len(Append(s, f)) = Len(s) + 1
      /\ \A k \in 1 .. Len(s) : Append(s, f)[k] = s[k]
      /\ Append(s, f)[Len(s) + 1] = f /\ Append(s, f) # <<>>
  BY <1>1
<1> QED  BY <1>2 DEF f

\* The node on the top is left.
LEMMA TopPopped ==
  ASSUME NEW s \in Seq(Frames), s # <<>>
  PROVE  /\ Front(s) \in Seq(Frames) /\ Len(Front(s)) = Len(s) - 1
         /\ \A k \in 1 .. Len(s) - 1 : Front(s)[k] = s[k]
  BY DEF Front

\* The node on the top is one of those the thread is inside.
LEMMA TopFrame ==
  ASSUME RtTyped, rt.stack # <<>>
  PROVE  /\ Len(rt.stack) \in Nat \ {0} /\ Len(rt.stack) \in DOMAIN rt.stack
         /\ DOMAIN rt.stack = 1 .. Len(rt.stack) /\ rt.stack \in Seq(Frames)
         /\ Top = rt.stack[Len(rt.stack)] /\ Top \in Frames
         /\ Top.node \in Nodes /\ Top.input \in 0 .. InCount[Top.node]
         /\ Top.node \in Inside
<1>1. rt.stack \in Seq(Frames)
  BY DEF RtTyped, Threads
<1>2. /\ Len(rt.stack) \in Nat \ {0} /\ Len(rt.stack) \in DOMAIN rt.stack
      /\ DOMAIN rt.stack = 1 .. Len(rt.stack)
  BY <1>1
<1>3. Top = rt.stack[Len(rt.stack)] /\ Top \in Frames
  BY <1>1, <1>2 DEF Top
<1>4. Top.node \in Nodes /\ Top.input \in 0 .. InCount[Top.node]
  BY <1>3 DEF Frames
<1>5. Top.node \in Inside
  BY <1>2, <1>3 DEF Inside
<1> QED  BY <1>1, <1>2, <1>3, <1>4, <1>5

\* What the steps of the thread do to it, for any number of nodes on the stack.
BeginMove ==
    /\ rt.stack = <<>> /\ rt'.pc = "inputs" /\ rt'.done = {Output}
    /\ Len(rt'.stack) = 1 /\ rt'.stack[1] = [node |-> Output, input |-> 0]

InputsMove(i) ==
    LET n == Top.node
        src == sock.actual[<<n, i>>]
    IN  /\ rt.pc = "inputs" /\ rt.stack # <<>> /\ n \in exists
        /\ i \in 1 .. InCount[n] /\ i > Top.input
        /\ src \in Nodes /\ src \notin rt.done
        /\ \A j \in 1 .. InCount[n] : Top.input < j /\ sock.actual[<<n, j>>] \notin rt.done \cup {NoNode} => i <= j
        /\ rt'.pc = "inputs"
        /\ rt'.done = IF src \in exists THEN rt.done \cup {src} ELSE rt.done
        /\ Len(rt'.stack) = Len(rt.stack) + 1
        /\ \A k \in 1 .. Len(rt.stack) - 1 : rt'.stack[k] = rt.stack[k]
        /\ rt'.stack[Len(rt.stack)] = [node |-> n, input |-> i]
        /\ rt'.stack[Len(rt.stack) + 1] = [node |-> src, input |-> 0]

\* The node on the top goes on to an input, with another state of the thread.
TopMove(pc, i) ==
    /\ rt.stack # <<>> /\ Top.node \in exists
    /\ i \in 0 .. InCount[Top.node]
    /\ rt'.pc = pc /\ rt'.done = rt.done
    /\ Len(rt'.stack) = Len(rt.stack)
    /\ \A k \in 1 .. Len(rt.stack) - 1 : rt'.stack[k] = rt.stack[k]
    /\ rt'.stack[Len(rt.stack)] = [node |-> Top.node, input |-> i]

LeaveMove ==
    /\ TopMove("sockets", 0) /\ rt.pc = "inputs"
    /\ \A j \in 1 .. InCount[Top.node] :
          Top.input < j => sock.actual[<<Top.node, j>>] \in rt.done \cup {NoNode}

\* A connection that is due.
DueMove(i) ==
    LET q == <<Top.node, i>>
    IN  /\ TopMove("force", i) /\ rt.pc = "sockets"
        /\ i > 0 /\ q \in Sockets /\ Finished(sock, q)
        /\ rt'.src = sock.wanted[q]

\* Back to the node that reads this one.
BackMove ==
    /\ rt.pc = "sockets" /\ rt.stack # <<>> /\ Top.node \in exists
    /\ rt'.pc = "inputs" /\ rt'.done = rt.done
    /\ Len(rt'.stack) = Len(rt.stack) - 1 /\ rt'.stack # <<>>
    /\ \A k \in 1 .. Len(rt.stack) - 1 : rt'.stack[k] = rt.stack[k]

OutMove == rt.pc = "sockets" /\ rt'.pc = "delete" /\ rt'.stack = <<>> /\ rt'.done = {}

\* The beginning of a block.
LEMMA BeginMoves ==
  ASSUME RtTyped, RtBegin
  PROVE  BeginMove /\ RtTyped'
<1>1. /\ rt.pc = "idle" /\ rt \in Threads
      /\ rt' = [rt EXCEPT !.pc = "inputs", !.done = @ \cup {Output},
                          !.stack = Append(<<>>, [node |-> Output, input |-> 0])]
  BY DEF RtBegin, Entered, RtTyped
<1>2. rt.stack = <<>> /\ rt.done = {}
  BY <1>1 DEF RtTyped
<1> DEFINE empty == <<>>
           t == Append(empty, [node |-> Output, input |-> 0])
<1>3. Output \in Nodes
  BY WorldAssumption
<1>4. empty \in Seq(Frames) /\ Len(empty) = 0
  OBVIOUS
<1> HIDE DEF empty
<1>5. t \in Seq(Frames) /\ Len(t) = Len(empty) + 1 /\ t[Len(empty) + 1] = [node |-> Output, input |-> 0] /\ t # <<>>
  BY <1>3, <1>4, TopPushed
<1>6. rt' = [rt EXCEPT !.pc = "inputs", !.done = {Output}, !.stack = t]
  BY <1>1, <1>2 DEF empty
<1> HIDE DEF t
<1>7. /\ rt' \in Threads /\ rt'.pc = "inputs" /\ rt'.done = {Output} /\ rt'.stack = t
  <2>1. rt \in Threads /\ t \in Seq(Frames) /\ {Output} \in SUBSET Nodes
    BY <1>1, <1>3, <1>5
  <2> QED  BY <1>6, <2>1 DEF Threads
<1> QED  BY <1>2, <1>4, <1>5, <1>7 DEF BeginMove, RtTyped

\* Going to the source of an input.
LEMMA InputsMoves ==
  ASSUME RtTyped, RtInputs, sock \in Wires
  PROVE  RtTyped' /\ \E i : InputsMove(i)
<1> DEFINE n == Top.node
           i == Min(Ahead)
           src == sock.actual[<<n, i>>]
           stack == [rt.stack EXCEPT ![Len(rt.stack)].input = i]
           t == Append(stack, [node |-> src, input |-> 0])
<1>1. rt.pc = "inputs" /\ rt \in Threads /\ n \in exists /\ Ahead # {} /\ rt.stack # <<>>
  BY DEF RtInputs, RtIn, RtTyped
<1>2. \/ src \in exists /\ Entered(stack, src)
      \/ src \notin exists /\ rt' = [rt EXCEPT !.stack = t]
  BY DEF RtInputs
<1>3. /\ Len(rt.stack) \in Nat \ {0} /\ rt.stack \in Seq(Frames) /\ n \in Nodes
      /\ Top.input \in 0 .. InCount[n] /\ n = rt.stack[Len(rt.stack)].node
  BY <1>1, TopFrame
<1> HIDE DEF n
<1>4. Ahead = {j \in Top.input + 1 .. InCount[n] : sock.actual[<<n, j>>] \notin rt.done \cup {NoNode}}
  BY DEF Ahead, n
<1>5. InCount[n] \in Nat /\ Top.input \in Nat
  BY <1>3, NodesAssumption
<1>6. i \in Ahead /\ \A j \in Ahead : i <= j
  <2>1. Ahead \in SUBSET (1 .. InCount[n])
    BY <1>4, <1>5
  <2> QED  BY <1>1, <1>5, <2>1, SmallestUpTo
<1> HIDE DEF i
<1>7. i \in 1 .. InCount[n] /\ i > Top.input /\ src \notin rt.done \cup {NoNode}
  BY <1>4, <1>5, <1>6
<1>8. \A j \in 1 .. InCount[n] : Top.input < j /\ sock.actual[<<n, j>>] \notin rt.done \cup {NoNode} => i <= j
  BY <1>4, <1>5, <1>6
<1>9. src \in Nodes
  <2>1. <<n, i>> \in Sockets
    BY <1>3, <1>7, SocketOf
  <2> QED  BY <1>7, <2>1 DEF Wires, Source
<1> HIDE DEF src
<1>10. /\ stack \in Seq(Frames) /\ Len(stack) = Len(rt.stack)
       /\ \A k \in 1 .. Len(rt.stack) - 1 : stack[k] = rt.stack[k]
       /\ stack[Len(rt.stack)] = [node |-> n, input |-> i]
  <2>1. i \in 0 .. InCount[rt.stack[Len(rt.stack)].node]
    BY <1>3, <1>7
  <2> QED  BY <1>1, <1>3, <2>1, TopStepped
<1> HIDE DEF stack
<1>11. /\ t \in Seq(Frames) /\ Len(t) = Len(stack) + 1 /\ t # <<>>
       /\ \A k \in 1 .. Len(stack) : t[k] = stack[k]
       /\ t[Len(stack) + 1] = [node |-> src, input |-> 0]
  BY <1>9, <1>10, TopPushed
<1>12. /\ rt' \in Threads /\ rt'.pc = "inputs" /\ rt'.stack = t /\ rt'.src = rt.src
       /\ rt'.done = IF src \in exists THEN rt.done \cup {src} ELSE rt.done
  <2>1. CASE src \in exists
    <3>1. rt' = [rt EXCEPT !.pc = "inputs", !.done = @ \cup {src}, !.stack = t]
      BY <1>2, <2>1 DEF Entered
    <3> HIDE DEF t
    <3> QED  BY <1>1, <1>9, <1>11, <2>1, <3>1 DEF Threads
  <2>2. CASE src \notin exists
    <3>1. rt' = [rt EXCEPT !.stack = t]
      BY <1>2, <2>2
    <3> HIDE DEF t
    <3> QED  BY <1>1, <1>11, <2>2, <3>1 DEF Threads
  <2> QED  BY <2>1, <2>2
<1> HIDE DEF t
<1>13. /\ Len(t) = Len(rt.stack) + 1
       /\ \A k \in 1 .. Len(rt.stack) - 1 : t[k] = rt.stack[k]
       /\ t[Len(rt.stack)] = [node |-> n, input |-> i]
       /\ t[Len(rt.stack) + 1] = [node |-> src, input |-> 0]
  BY <1>3, <1>10, <1>11
<1>14. InputsMove(i)
  BY <1>1, <1>7, <1>8, <1>9, <1>12, <1>13 DEF InputsMove, src, n
<1>15. RtTyped'
  BY <1>11, <1>12 DEF RtTyped
<1> QED  BY <1>14, <1>15

\* Going on to another input of the node on the top.
LEMMA TopMoves ==
  ASSUME RtTyped, rt.stack # <<>>, Top.node \in exists, NEW i \in 0 .. InCount[Top.node],
         NEW pc \in {"sockets", "force"}, NEW src \in Source, pc = "force" => i > 0,
         rt' = [rt EXCEPT !.pc = pc, !.src = src, !.stack = [rt.stack EXCEPT ![Len(rt.stack)].input = i]]
  PROVE  RtTyped' /\ TopMove(pc, i) /\ rt'.src = src
<1> DEFINE t == [rt.stack EXCEPT ![Len(rt.stack)].input = i]
<1>1. /\ Len(rt.stack) \in Nat \ {0} /\ rt.stack \in Seq(Frames)
      /\ Top.node = rt.stack[Len(rt.stack)].node
  BY TopFrame
<1>2. /\ t \in Seq(Frames) /\ Len(t) = Len(rt.stack) /\ t # <<>>
      /\ \A k \in 1 .. Len(rt.stack) - 1 : t[k] = rt.stack[k]
      /\ t[Len(rt.stack)] = [node |-> Top.node, input |-> i]
  BY <1>1, TopStepped
<1>3. rt \in Threads /\ rt' = [rt EXCEPT !.pc = pc, !.src = src, !.stack = t]
  BY DEF RtTyped
<1> HIDE DEF t
<1>4. /\ rt' \in Threads /\ rt'.pc = pc /\ rt'.done = rt.done /\ rt'.src = src /\ rt'.stack = t
  BY <1>2, <1>3 DEF Threads
<1>5. TopMove(pc, i)
  BY <1>2, <1>4 DEF TopMove
<1>6. pc = "force" => Top'.input > 0
  BY <1>2, <1>4 DEF Top
<1> QED  BY <1>2, <1>4, <1>5, <1>6 DEF RtTyped

\* The end of a node's inputs.
LEMMA LeaveMoves ==
  ASSUME RtTyped, RtLeave, sock \in Wires
  PROVE  RtTyped' /\ LeaveMove
<1>1. /\ rt.pc = "inputs" /\ rt \in Threads /\ Top.node \in exists /\ Ahead = {} /\ rt.stack # <<>>
      /\ rt' = [rt EXCEPT !.pc = "sockets", !.stack[Len(rt.stack)].input = 0]
  BY DEF RtLeave, RtIn, RtTyped
<1> DEFINE src == rt.src
           t == [rt.stack EXCEPT ![Len(rt.stack)].input = 0]
<1>2. rt' = [rt EXCEPT !.pc = "sockets", !.src = src, !.stack = t] /\ src \in Source
  BY <1>1 DEF Threads
<1>3. Top.node \in Nodes /\ Top.input \in 0 .. InCount[Top.node] /\ InCount[Top.node] \in Nat
  BY <1>1, TopFrame, NodesAssumption
<1> HIDE DEF src
<1>4. RtTyped' /\ TopMove("sockets", 0)
  <2>1. 0 \in 0 .. InCount[Top.node]
    BY <1>3
  <2> QED  BY <1>1, <1>2, <2>1, TopMoves
<1>5. ASSUME NEW j \in 1 .. InCount[Top.node], Top.input < j
      PROVE  sock.actual[<<Top.node, j>>] \in rt.done \cup {NoNode}
  <2>1. j \in Top.input + 1 .. InCount[Top.node]
    BY <1>3, <1>5
  <2> QED  BY <1>1, <2>1 DEF Ahead
<1> QED  BY <1>1, <1>4, <1>5 DEF LeaveMove

\* The next connection that is due, or the way back.
LEMMA SocketsMoves ==
  ASSUME RtTyped, RtSockets, sock \in Wires
  PROVE  RtTyped' /\ ((\E i : DueMove(i)) \/ BackMove \/ OutMove)
<1> DEFINE n == Top.node
           due == {i \in Top.input + 1 .. InCount[n] :
                      sock.pending[<<n, i>>] /\ Finished(sock, <<n, i>>)}
           caller == Front(rt.stack)
<1>1. rt.pc = "sockets" /\ rt \in Threads /\ n \in exists /\ rt.stack # <<>>
  BY DEF RtSockets, RtIn, RtTyped
<1>2. \/ /\ due # {}
         /\ rt' = [rt EXCEPT !.pc = "force", !.src = sock.wanted[<<n, Min(due)>>],
                             !.stack[Len(rt.stack)].input = Min(due)]
      \/ caller # <<>> /\ rt' = [rt EXCEPT !.pc = "inputs", !.stack = caller]
      \/ rt' = [Idle EXCEPT !.pc = "delete"]
  BY DEF RtSockets
<1>3. /\ Len(rt.stack) \in Nat \ {0} /\ rt.stack \in Seq(Frames) /\ n \in Nodes
      /\ Top.input \in 0 .. InCount[n] /\ InCount[n] \in Nat
  BY <1>1, TopFrame, NodesAssumption
<1>4. ASSUME due # {}, rt' = [rt EXCEPT !.pc = "force", !.src = sock.wanted[<<n, Min(due)>>],
                                       !.stack[Len(rt.stack)].input = Min(due)]
      PROVE  RtTyped' /\ \E i : DueMove(i)
  <2> DEFINE i == Min(due)
             q == <<n, i>>
             src == sock.wanted[q]
             t == [rt.stack EXCEPT ![Len(rt.stack)].input = i]
  <2>1. i \in due
    <3>1. due \in SUBSET (1 .. InCount[n])
      BY <1>3
    <3> HIDE DEF due
    <3> QED  BY <1>3, <1>4, <3>1, SmallestUpTo
  <2>2. rt' = [rt EXCEPT !.pc = "force", !.src = src, !.stack = t]
    BY <1>1, <1>4 DEF Threads
  <2> HIDE DEF i
  <2>3. i \in 1 .. InCount[n] /\ i > 0 /\ Finished(sock, q)
    BY <1>3, <2>1
  <2>4. q \in Sockets /\ src \in Source
    <3>1. q \in Sockets
      BY <1>3, <2>3, SocketOf
    <3> QED  BY <3>1 DEF Wires
  <2> HIDE DEF src
  <2>5. RtTyped' /\ TopMove("force", i) /\ rt'.src = src
    <3>1. i \in 0 .. InCount[Top.node] /\ Top.node \in exists
      BY <1>1, <2>3
    <3> QED  BY <1>1, <2>2, <2>3, <2>4, <3>1, TopMoves
  <2>6. DueMove(i)
    BY <1>1, <2>3, <2>4, <2>5 DEF DueMove, src
  <2> QED  BY <2>5, <2>6
<1>5. ASSUME caller # <<>>, rt' = [rt EXCEPT !.pc = "inputs", !.stack = caller]
      PROVE  RtTyped' /\ BackMove
  <2>1. /\ caller \in Seq(Frames) /\ Len(caller) = Len(rt.stack) - 1
        /\ \A k \in 1 .. Len(rt.stack) - 1 : caller[k] = rt.stack[k]
    BY <1>1, <1>3, TopPopped
  <2> HIDE DEF caller
  <2>2. rt' \in Threads /\ rt'.pc = "inputs" /\ rt'.done = rt.done /\ rt'.stack = caller
    BY <1>1, <1>5, <2>1 DEF Threads
  <2> QED  BY <1>1, <1>5, <2>1, <2>2 DEF BackMove, RtTyped
<1>6. ASSUME rt' = [Idle EXCEPT !.pc = "delete"]
      PROVE  RtTyped' /\ OutMove
  <2>1. rt' = [pc |-> "delete", stack |-> <<>>, done |-> {}, src |-> NoNode]
    BY <1>6 DEF Idle
  <2>2. rt' \in Threads /\ rt'.stack = <<>> /\ rt'.pc = "delete" /\ rt'.done = {}
    BY <2>1 DEF Threads, Source
  <2> QED  BY <1>1, <2>2 DEF RtTyped, OutMove
<1> QED  BY <1>2, <1>4, <1>5, <1>6
-----------------------------------------------------------------------------
(* The world: its nodes, what the patcher keeps of them, and the sockets.   *)

NodesSound ==
    /\ exists \subseteq Nodes /\ {Output, Mixer} \subseteq exists
    /\ dying \subseteq exists \ {Output, Mixer}
    /\ ids \in Seq(Nodes) /\ exists = ToSet(ids) /\ IsInjective(ids)

PatchSound ==
    /\ sock \in Wires /\ Refs(sock)
    /\ patch \in Patchers /\ Ends(patch) /\ patch.nodes \subseteq exists \ dying
    /\ Sound(sock, patch)

GhostsTyped == late \subseteq Users /\ torn \subseteq Sockets

WorldInv ==
    /\ NodesSound /\ PatchSound /\ RtTyped /\ GhostsTyped
    /\ changes \in 0 .. MaxChanges /\ broken \in BOOLEAN

\* The positions the patcher measures with.
LEMMA PositionsKnown ==
  ASSUME ParamInv
  PROVE  /\ At \in [Nodes -> Int]
         /\ \A n \in Nodes : [At EXCEPT ![n] = ParamIn(n)[n].dest] \in [Nodes -> Int]
<1>1. param \in Params
  BY DEF ParamInv
<1>2. At \in [Nodes -> Int]
  BY <1>1 DEF At, Params
<1>3. ASSUME NEW n \in Nodes PROVE [At EXCEPT ![n] = ParamIn(n)[n].dest] \in [Nodes -> Int]
  <2>1. ParamIn(n) \in Params
    BY TakenIn
  <2>2. ParamIn(n)[n].dest \in Int
    BY <2>1 DEF Params
  <2> QED  BY <1>2, <2>2
<1> QED  BY <1>2, <1>3

\* What a socket is asked to read is a node of the patcher, as is its own.
LEMMA SourcesThere ==
  ASSUME NEW g, NEW p \in Patchers, Sourced(g, p.links), Ends(p), NEW s \in Sockets,
         g.wanted[s] # NoNode
  PROVE  g.wanted[s] \in p.nodes /\ s[1] \in p.nodes
<1>1. PICK l \in ToSet(p.links) : IsLinked(g, l) /\ <<l.dest, l.socket>> = s
  BY SourcedBy
<1>2. g.wanted[s] = l.src /\ s[1] = l.dest
  BY <1>1 DEF IsLinked
<1> QED  BY <1>2 DEF Ends

\* Connections after connections.
LEMMA RewiredTwice ==
  ASSUME NEW f, NEW g, NEW h, NEW S, Rewired(f, g, S), Rewired(g, h, S)
  PROVE  Rewired(f, h, S)
<1>1. /\ f \in Wires /\ g \in Wires /\ h \in Wires /\ (Refs(f) => Refs(h))
  BY DEF Rewired
<1>2. ASSUME NEW s \in Sockets
      PROVE  /\ h.env[s].val = f.env[s].val
             /\ h.wanted[s] = f.wanted[s] \/ h.wanted[s] \in S \cup {NoNode}
             /\ \/ h.wanted[s] = f.wanted[s] /\ h.actual[s] = f.actual[s] /\ h.pending[s] = f.pending[s]
                \/ Finished(f, s) /\ h.actual[s] = h.wanted[s]
                \/ ~ Finished(f, s) /\ h.actual[s] = f.actual[s] /\ h.pending[s]
  BY DEF Rewired, Finished
<1> QED  BY <1>1, <1>2 DEF Rewired

\* The parts of the world a step leaves alone.
LEMMA RtTypedSame == RtTyped /\ rt' = rt => RtTyped'
  BY DEF RtTyped, Top

LEMMA TornTyped ==
  ASSUME NEW g, Connecting(g), torn \subseteq Sockets
  PROVE  sock' = g /\ torn' \subseteq Sockets
  BY DEF Connecting

\* The order of the nodes after some have gone.
LEMMA GoneNodes ==
  ASSUME NodesSound, NEW set, set \subseteq dying \/ set \subseteq Users, Gone(set),
         dying' = dying \ set
  PROVE  NodesSound'
<1>1. exists' = exists \ set /\ ids' = Among(ids, exists \ set)
  BY DEF Gone
<1>2. set \cap {Output, Mixer} = {}
  BY DEF NodesSound, Users
<1>3. ids \in Seq(Nodes) /\ IsInjective(ids) /\ exists = ToSet(ids)
  BY DEF NodesSound
<1>4. /\ Among(ids, exists \ set) \in Seq(Nodes)
      /\ ToSet(Among(ids, exists \ set)) = ToSet(ids) \cap (exists \ set)
      /\ IsInjective(Among(ids, exists \ set))
  BY <1>3, AmongEffect
<1> QED  BY <1>1, <1>2, <1>3, <1>4 DEF NodesSound

\* world () leaves a sound patch of the output and the mixer.
LEMMA WorldInit ==
  ASSUME Init
  PROVE  WorldInv /\ Tidy(patch.links) /\ \A s \in Sockets : sock.actual[s] = sock.wanted[s]
<1> DEFINE center == [n \in Nodes |-> 0]
           one == <<Output>>
           two == <<Output, Mixer>>
           empty == AddNode(NewPatcher, center, one, Output)
           both == AddNode(empty, center, two, Mixer)
           first == Update(both, NewSockets, center)
<1>1. /\ exists = {Output, Mixer} /\ ids = two /\ dying = {}
      /\ sock = first.g /\ patch = first.p
      /\ rt = Idle /\ changes = 0 /\ late = {} /\ torn = {} /\ broken = FALSE
  BY DEF Init
<1>2. Output \in Nodes /\ Mixer \in Nodes /\ Output # Mixer /\ MaxChanges \in Nat
  BY WorldAssumption
<1>3. center \in [Nodes -> Int] /\ one \in Seq(Nodes) /\ two \in Seq(Nodes)
  BY <1>2
<1>4. NodesSound
  <2>1. ToSet(two) = {Output, Mixer}
    <3>1. DOMAIN two = {1, 2} /\ two[1] = Output /\ two[2] = Mixer
      OBVIOUS
    <3> HIDE DEF two
    <3> QED  BY <3>1 DEF ToSet
  <2>2. IsInjective(two)
    BY <1>2 DEF IsInjective
  <2> HIDE DEF two
  <2> QED  BY <1>1, <1>2, <1>3, <2>1, <2>2 DEF NodesSound
<1>5. RtTyped
  <2>1. rt = [pc |-> "idle", stack |-> <<>>, done |-> {}, src |-> NoNode]
    BY <1>1 DEF Idle
  <2> QED  BY <2>1 DEF RtTyped, Threads, Source
<1> HIDE DEF center, one, two
<1>6. NewPatcher \in Patchers /\ NewPatcher.nodes = {} /\ NewPatcher.links = <<>>
  BY DEF NewPatcher, Patchers, Source
<1>7. /\ NewSockets \in Wires /\ Refs(NewSockets)
      /\ \A s \in Sockets : NewSockets.wanted[s] = NoNode
  BY NewSocketsEffect
<1>8. Ends(NewPatcher) /\ Sound(NewSockets, NewPatcher)
  <2>1. ToSet(NewPatcher.links) = {}
    BY <1>6 DEF ToSet
  <2> HIDE DEF NewPatcher
  <2> QED  BY <1>6, <1>7, <2>1, SourcedBy DEF Ends, Sound, SingleOut, Noted
<1>9. Joined(NewPatcher, empty, Output)
  BY <1>2, <1>3, <1>6, AddNodeEffect
<1> DEFINE new == NewPatcher
           wires == NewSockets
<1> HIDE DEF empty, new, wires
<1>10. empty \in Patchers /\ Ends(empty) /\ Sound(wires, empty) /\ empty.nodes = {Output} /\ empty.changed
  <2>1. new \in Patchers /\ new.nodes = {} /\ Ends(new) /\ Sound(wires, new) /\ Joined(new, empty, Output)
    BY <1>6, <1>8, <1>9 DEF new, wires
  <2>2. empty \in Patchers /\ empty.nodes = {Output} /\ empty.changed
    BY <2>1 DEF Joined
  <2>3. Ends(empty) /\ Sound(wires, empty)
    BY <1>2, <2>1, AddedSound
  <2> QED  BY <2>2, <2>3
<1>11. Joined(empty, both, Mixer)
  BY <1>2, <1>3, <1>10, AddNodeEffect
<1> HIDE DEF both
<1>12. both \in Patchers /\ Ends(both) /\ Sound(wires, both) /\ both.nodes = {Output, Mixer} /\ both.changed
  <2>1. both \in Patchers /\ both.nodes = {Output, Mixer} /\ both.changed
    BY <1>2, <1>10, <1>11 DEF Joined
  <2>2. Ends(both) /\ Sound(wires, both)
    BY <1>2, <1>10, <1>11, AddedSound
  <2> QED  BY <2>1, <2>2
<1>13. wires \in Wires /\ Refs(wires) /\ first = Update(both, wires, center)
  BY <1>7 DEF wires
<1> HIDE DEF first
<1>14. /\ Rewired(wires, first.g, Nodes) /\ first.p \in Patchers /\ first.p.nodes = both.nodes
       /\ Ends(first.p) /\ Sound(first.g, first.p)
  <2>1. Sourced(wires, both.links) /\ Noted(wires, both)
    BY <1>12 DEF Sound
  <2>2. wires \in Wires /\ center \in [Nodes -> Int] /\ both \in Patchers /\ both.changed /\ Ends(both)
    BY <1>3, <1>12, <1>13
  <2> QED  BY <1>13, <2>1, <2>2, UpdateEffect
<1>15. PatchSound
  <2>1. sock \in Wires /\ Refs(sock)
    BY <1>1, <1>13, <1>14 DEF Rewired
  <2> QED  BY <1>1, <1>12, <1>14, <2>1 DEF PatchSound
<1>16. GhostsTyped /\ changes \in 0 .. MaxChanges /\ broken \in BOOLEAN
  <2>1. late = {} /\ torn = {} /\ changes = 0 /\ broken = FALSE
    BY <1>1
  <2>2. GhostsTyped
    BY <2>1 DEF GhostsTyped
  <2>3. changes \in 0 .. MaxChanges
    BY <1>2, <2>1
  <2>4. broken \in BOOLEAN
    BY <2>1
  <2> QED  BY <2>2, <2>3, <2>4
<1>17. \A s \in Sockets : sock.actual[s] = sock.wanted[s]
  <2>1. \A s \in Sockets : wires.wanted[s] = NoNode /\ wires.actual[s] = NoNode /\ Finished(wires, s)
    BY NewSocketsEffect DEF wires, Finished
  <2>2. \A s \in Sockets : first.g.actual[s] = first.g.wanted[s]
    BY <1>14, <2>1 DEF Rewired
  <2> QED  BY <1>1, <2>2
<1>18. Tidy(patch.links)
  <2>1. IsInjective(one) /\ IsInjective(two)
    BY <1>2 DEF IsInjective, one, two
  <2>2. Tidy(new.links)
    <3>1. new.links = <<>>
      BY <1>6 DEF new
    <3> QED  BY <3>1 DEF Tidy, InOrder, OneForPair, ToSet
  <2>3. new \in Patchers /\ Ends(new) /\ empty = AddNode(new, center, one, Output)
    BY <1>6, <1>8 DEF new, empty
  <2>4. Tidy(empty.links)
    BY <1>2, <1>3, <2>1, <2>2, <2>3, AddNodeTidy
  <2>5. both = AddNode(empty, center, two, Mixer)
    BY DEF both
  <2>6. Tidy(both.links)
    BY <1>2, <1>3, <1>10, <2>1, <2>4, <2>5, AddNodeTidy
  <2>7. Tidy(first.p.links)
    <3>1. Sourced(wires, both.links) /\ Noted(wires, both)
      BY <1>12 DEF Sound
    <3> QED  BY <1>3, <1>12, <1>13, <2>6, <3>1, UpdateNearest
  <2> QED  BY <1>1, <2>7
<1> QED  BY <1>4, <1>5, <1>15, <1>16, <1>17, <1>18 DEF WorldInv


\* A node is added, given a position, or brought to the patcher.
LEMMA WorldAdd ==
  ASSUME WorldInv, NEW n \in Users, NEW pos, Add(n, pos)
  PROVE  WorldInv'
<1>1. /\ n \in Nodes /\ n \notin exists /\ exists' = exists \cup {n} /\ ids' = Append(ids, n)
      /\ UNCHANGED <<dying, sock, patch, rt, late, torn, changes, broken>>
  BY DEF Add, Users
<1>2. ids \in Seq(Nodes) /\ IsInjective(ids) /\ exists = ToSet(ids)
  BY DEF WorldInv, NodesSound
<1>3. ids' \in Seq(Nodes) /\ ToSet(ids') = ToSet(ids) \cup {n} /\ IsInjective(ids')
  BY <1>1, <1>2, AppendedEffect
<1>4. NodesSound'
  BY <1>1, <1>2, <1>3 DEF WorldInv, NodesSound
<1>5. PatchSound'
  BY <1>1 DEF WorldInv, PatchSound
<1>6. RtTyped'
  BY <1>1, RtTypedSame DEF WorldInv
<1> QED  BY <1>1, <1>4, <1>5, <1>6 DEF WorldInv, GhostsTyped

LEMMA WorldMove ==
  ASSUME WorldInv, ParamInv, NEW n \in Users, NEW pos, Move(n, pos)
  PROVE  WorldInv'
<1>1. /\ n \in Nodes /\ changes < MaxChanges /\ changes' = changes + 1
      /\ patch' = SetParamNode(patch, At, n)
      /\ late' = IF n \in Inside THEN late \cup {n} ELSE late \ {n}
      /\ UNCHANGED <<exists, ids, dying, sock, rt, torn, broken>>
  BY DEF Move, Change, Users
<1>2. At \in [Nodes -> Int]
  BY PositionsKnown
<1>3. /\ sock \in Wires /\ Refs(sock) /\ patch \in Patchers /\ Ends(patch)
      /\ patch.nodes \subseteq exists \ dying /\ Sound(sock, patch)
  BY DEF WorldInv, PatchSound
<1>4. patch' \in Patchers /\ patch'.nodes = patch.nodes
  BY <1>1, <1>2, <1>3, SetParamNodeEffect
<1>5. Ends(patch') /\ Sound(sock, patch')
  BY <1>1, <1>2, <1>3, MovedSound
<1>6. PatchSound'
  BY <1>1, <1>3, <1>4, <1>5 DEF PatchSound
<1>7. RtTyped'
  BY <1>1, RtTypedSame DEF WorldInv
<1>8. NodesSound'
  BY <1>1 DEF WorldInv, NodesSound
<1>9. changes' \in 0 .. MaxChanges
  BY <1>1, WorldAssumption DEF WorldInv
<1> QED  BY <1>1, <1>6, <1>7, <1>8, <1>9 DEF WorldInv, GhostsTyped

LEMMA WorldActivate ==
  ASSUME WorldInv, ParamInv, NEW n \in Users, Activate(n)
  PROVE  WorldInv'
<1> DEFINE at == [At EXCEPT ![n] = ParamIn(n)[n].dest]
<1>1. /\ n \in Nodes /\ n \in exists \ dying
      /\ patch' = AddNode(patch, at, ids, n)
      /\ UNCHANGED <<exists, ids, dying, sock, rt, late, torn, changes, broken>>
  BY DEF Activate, Held, Users, ghosts
<1>2. at \in [Nodes -> Int]
  BY <1>1, PositionsKnown
<1> HIDE DEF at
<1>3. /\ sock \in Wires /\ Refs(sock) /\ patch \in Patchers /\ Ends(patch)
      /\ patch.nodes \subseteq exists \ dying /\ Sound(sock, patch) /\ ids \in Seq(Nodes)
  BY DEF WorldInv, PatchSound, NodesSound
<1>4. Joined(patch, patch', n)
  BY <1>1, <1>2, <1>3, AddNodeEffect
<1>5. Ends(patch') /\ Sound(sock, patch')
  BY <1>1, <1>3, <1>4, AddedSound
<1>6. PatchSound'
  BY <1>1, <1>3, <1>4, <1>5 DEF PatchSound, Joined
<1>7. RtTyped'
  BY <1>1, RtTypedSame DEF WorldInv
<1>8. NodesSound'
  BY <1>1 DEF WorldInv, NodesSound
<1> QED  BY <1>1, <1>6, <1>7, <1>8 DEF WorldInv, GhostsTyped

\* A node leaves the patcher.
LEMMA WorldDeactivate ==
  ASSUME WorldInv, NEW n \in Users, Deactivate(n)
  PROVE  WorldInv' /\ Rewired(sock, sock', {}) /\ Connecting(sock') /\ UNCHANGED <<exists, rt>>
<1> DEFINE r == DeleteNode(patch, sock, n)
<1>1. /\ n \in Nodes /\ changes < MaxChanges /\ changes' = changes + 1
      /\ patch' = r.p /\ Connecting(r.g)
      /\ UNCHANGED <<exists, ids, dying, rt, late, broken>>
  BY DEF Deactivate, Change, Users
<1>2. /\ sock \in Wires /\ Refs(sock) /\ patch \in Patchers /\ Ends(patch)
      /\ patch.nodes \subseteq exists \ dying /\ Sound(sock, patch) /\ torn \subseteq Sockets
  BY DEF WorldInv, PatchSound, GhostsTyped
<1>3. /\ Rewired(sock, r.g, {}) /\ r.p \in Patchers /\ r.p.nodes = patch.nodes \ {n}
  BY <1>1, <1>2, DeleteNodeEffect
<1>4. Ends(r.p) /\ Sound(r.g, r.p)
  BY <1>1, <1>2, DeletedSound
<1> HIDE DEF r
<1>5. sock' = r.g /\ torn' \subseteq Sockets
  BY <1>1, <1>2, TornTyped
<1>6. PatchSound'
  BY <1>1, <1>2, <1>3, <1>4, <1>5 DEF PatchSound, Rewired
<1>7. RtTyped'
  BY <1>1, RtTypedSame DEF WorldInv
<1>8. NodesSound'
  BY <1>1 DEF WorldInv, NodesSound
<1>9. changes' \in 0 .. MaxChanges
  BY <1>1, WorldAssumption DEF WorldInv
<1>10. WorldInv'
  BY <1>1, <1>5, <1>6, <1>7, <1>8, <1>9 DEF WorldInv, GhostsTyped
<1> QED  BY <1>1, <1>3, <1>5, <1>10

\* The patcher connects.
LEMMA WorldUpdate ==
  ASSUME WorldInv, ParamInv, UpdatePatch
  PROVE  WorldInv' /\ Rewired(sock, sock', Nodes) /\ Connecting(sock') /\ UNCHANGED <<exists, rt>>
<1> DEFINE r == Update(patch, sock, At)
<1>1. /\ patch.changed /\ patch' = r.p /\ Connecting(r.g)
      /\ UNCHANGED <<exists, ids, dying, rt, late, changes, broken>>
  BY DEF UpdatePatch
<1>2. /\ sock \in Wires /\ Refs(sock) /\ patch \in Patchers /\ Ends(patch)
      /\ patch.nodes \subseteq exists \ dying /\ Sound(sock, patch) /\ torn \subseteq Sockets
      /\ Sourced(sock, patch.links) /\ Noted(sock, patch)
  BY DEF WorldInv, PatchSound, GhostsTyped, Sound
<1>3. At \in [Nodes -> Int]
  BY PositionsKnown
<1>4. /\ Rewired(sock, r.g, Nodes) /\ r.p \in Patchers /\ r.p.nodes = patch.nodes
      /\ Ends(r.p) /\ Sound(r.g, r.p)
  BY <1>1, <1>2, <1>3, UpdateEffect
<1> HIDE DEF r
<1>5. sock' = r.g /\ torn' \subseteq Sockets
  BY <1>1, <1>2, TornTyped
<1>6. PatchSound'
  BY <1>1, <1>2, <1>4, <1>5 DEF PatchSound, Rewired
<1>7. RtTyped'
  BY <1>1, RtTypedSame DEF WorldInv
<1>8. NodesSound'
  BY <1>1 DEF WorldInv, NodesSound
<1>9. WorldInv'
  BY <1>1, <1>5, <1>6, <1>7, <1>8 DEF WorldInv, GhostsTyped
<1> QED  BY <1>1, <1>4, <1>5, <1>9

\* A node is deleted, at once or later.
LEMMA WorldDelete ==
  ASSUME WorldInv, NEW n \in Users, Delete(n)
  PROVE  /\ WorldInv' /\ Connecting(sock') /\ rt' = rt
         /\ \E X \in SUBSET Nodes : Reconnected(sock, sock', X) /\ exists' = exists \ X
<1> DEFINE r == DeleteNode(patch, sock, n)
           c == ClearConnections(r.g, n)
           f == Freed(c, {n})
<1>1. /\ n \in Nodes /\ n \in exists /\ changes < MaxChanges /\ changes' = changes + 1
      /\ patch' = r.p /\ UNCHANGED <<rt, broken>>
      /\ \/ /\ Connecting(c) /\ dying' = dying \cup {n}
            /\ UNCHANGED <<exists, ids, late>>
         \/ /\ ~ HasConnections(c, n) /\ Connecting(f) /\ Gone({n}) /\ UNCHANGED dying
  BY DEF Delete, Change, Users, Held
<1>2. /\ sock \in Wires /\ Refs(sock) /\ patch \in Patchers /\ Ends(patch)
      /\ patch.nodes \subseteq exists \ dying /\ Sound(sock, patch) /\ torn \subseteq Sockets
  BY DEF WorldInv, PatchSound, GhostsTyped
<1>3. /\ Rewired(sock, r.g, {}) /\ r.p \in Patchers /\ r.p.nodes = patch.nodes \ {n}
  BY <1>1, <1>2, DeleteNodeEffect
<1>4. Ends(r.p) /\ Sound(r.g, r.p)
  BY <1>1, <1>2, DeletedSound
<1>5. n \in Users /\ n \in exists /\ n \notin dying
  BY DEF Delete, Change, Held
<1> HIDE DEF r
<1>6. r.g \in Wires /\ Rewired(r.g, c, {})
  BY <1>1, <1>3, ClearConnectionsEffect DEF Rewired
<1> HIDE DEF c
<1>7. Rewired(sock, c, {})
  BY <1>3, <1>6, RewiredTwice
<1>8. c \in Wires /\ Refs(c)
  BY <1>2, <1>7 DEF Rewired
<1>9. Sound(c, r.p)
  <2>1. \A s \in Sockets : c.wanted[s] = r.g.wanted[s] \/ c.wanted[s] = NoNode
    BY <1>6 DEF Rewired
  <2> QED  BY <1>3, <1>4, <1>6, <1>8, <2>1, ShrunkSound
<1>10. RtTyped'
  BY <1>1, RtTypedSame DEF WorldInv
<1>11. changes' \in 0 .. MaxChanges
  BY <1>1, WorldAssumption DEF WorldInv
<1>12. CASE /\ Connecting(c) /\ dying' = dying \cup {n}
            /\ UNCHANGED <<exists, ids, late>>
  <2>1. sock' = c /\ torn' \subseteq Sockets
    BY <1>2, <1>12, TornTyped
  <2>2. NodesSound'
    BY <1>5, <1>12 DEF WorldInv, NodesSound, Users
  <2>3. PatchSound'
    BY <1>1, <1>2, <1>3, <1>4, <1>8, <1>9, <1>12, <2>1 DEF PatchSound
  <2>4. WorldInv'
    BY <1>1, <1>10, <1>11, <1>12, <2>1, <2>2, <2>3 DEF WorldInv, GhostsTyped
  <2>5. Reconnected(sock, sock', {}) /\ exists' = exists \ {}
    BY <1>2, <1>7, <1>12, <2>1, RewiredOnly
  <2> QED  BY <1>1, <1>12, <2>1, <2>4, <2>5
<1>13. CASE ~ HasConnections(c, n) /\ Connecting(f) /\ Gone({n}) /\ UNCHANGED dying
  <2>1. sock' = f /\ torn' \subseteq Sockets
    BY <1>2, <1>13, TornTyped
  <2>2. exists' = exists \ {n} /\ late' = late \ {n}
    BY <1>13 DEF Gone
  <2>3. NodesSound'
    <3>1. {n} \subseteq Users /\ dying' = dying \ {n} /\ Gone({n}) /\ NodesSound
      BY <1>5, <1>13 DEF WorldInv
    <3> QED  BY <3>1, GoneNodes
  <2>4. /\ f \in Wires /\ Refs(f)
        /\ \A s \in Sockets : f.wanted[s] = c.wanted[s] \/ f.wanted[s] = NoNode
    <3>1. {n} \in SUBSET Nodes
      BY <1>1
    <3> QED  BY <1>8, <3>1, FreedEffect
  <2>5. Reconnected(sock, f, {n})
    <3>1. {n} \in SUBSET Nodes /\ \A m \in {n} : ~ HasConnections(c, m)
      BY <1>1, <1>13
    <3> QED  BY <1>2, <1>7, <3>1, RewiredFreed
  <2> HIDE DEF f
  <2>6. Sound(f, r.p)
    BY <1>3, <1>8, <1>9, <2>4, ShrunkSound
  <2>7. PatchSound'
    <3>1. r.p.nodes \subseteq exists' \ dying'
      BY <1>2, <1>3, <1>13, <2>2
    <3> QED  BY <1>1, <1>3, <1>4, <2>1, <2>4, <2>6, <3>1 DEF PatchSound
  <2>8. WorldInv'
    BY <1>1, <1>10, <1>11, <2>1, <2>2, <2>3, <2>7 DEF WorldInv, GhostsTyped
  <2>9. {n} \in SUBSET Nodes /\ Reconnected(sock, sock', {n}) /\ exists' = exists \ {n}
    BY <1>1, <2>1, <2>2, <2>5
  <2> QED  BY <1>1, <1>13, <2>1, <2>8, <2>9
<1> QED  BY <1>1, <1>12, <1>13

\* A step of the audio thread that asks no socket for another source.
LEMMA WorldStill ==
  ASSUME WorldInv, UNCHANGED <<exists, ids, dying, patch, late, torn, changes>>,
         RtTyped', sock' \in Wires, Refs(sock'), sock'.wanted = sock.wanted,
         broken' \in BOOLEAN
  PROVE  WorldInv'
<1>1. /\ sock \in Wires /\ patch \in Patchers /\ Ends(patch)
      /\ patch.nodes \subseteq exists \ dying /\ Sound(sock, patch)
  BY DEF WorldInv, PatchSound
<1>2. Sound(sock', patch)
  <2> DEFINE h == sock'
  <2>1. h \in Wires /\ \A s \in Sockets : h.wanted[s] = sock.wanted[s] \/ h.wanted[s] = NoNode
    OBVIOUS
  <2> HIDE DEF h
  <2>2. Sound(h, patch)
    BY <1>1, <2>1, ShrunkSound
  <2> QED  BY <2>2 DEF h
<1>3. PatchSound'
  BY <1>1, <1>2 DEF PatchSound
<1>4. NodesSound'
  BY DEF WorldInv, NodesSound
<1> QED  BY <1>3, <1>4 DEF WorldInv, GhostsTyped

\* The connection that was due.
ForceMove ==
    LET q == <<Top.node, Top.input>>
    IN  /\ rt.stack # <<>> /\ rt.pc = "force" /\ Top.node \in exists /\ q \in Sockets
        /\ rt'.pc = "sockets" /\ rt'.done = rt.done /\ rt'.stack = rt.stack
        /\ sock' \in Wires /\ sock'.wanted = sock.wanted
        /\ \A s \in Sockets : sock'.env[s].val = sock.env[s].val
        /\ \A s \in Sockets \ {q} : /\ sock'.actual[s] = sock.actual[s]
                                    /\ sock'.pending[s] = sock.pending[s]
        /\ sock'.actual[q] = rt.src

LEMMA ForceMoves ==
  ASSUME RtTyped, RtForce, sock \in Wires, Refs(sock)
  PROVE  ForceMove /\ RtTyped' /\ Refs(sock')
<1> DEFINE q == <<Top.node, Top.input>>
           src == rt.src
           h == ForceConnectIn(sock, q, src)
<1>1. /\ rt.pc = "force" /\ rt \in Threads /\ Top.node \in exists
      /\ rt.stack # <<>> /\ Top.input > 0
      /\ sock' = [h EXCEPT !.pending[q] = FALSE]
      /\ rt' = [rt EXCEPT !.pc = "sockets", !.src = NoNode]
  BY DEF RtForce, RtIn, RtTyped
<1>2. q \in Sockets
  <2>1. Top.node \in Nodes /\ Top.input \in 0 .. InCount[Top.node] /\ InCount[Top.node] \in Nat
    BY <1>1, TopFrame, NodesAssumption
  <2>2. Top.input \in 1 .. InCount[Top.node]
    BY <1>1, <2>1
  <2> QED  BY <2>1, <2>2, SocketOf
<1>3. src \in Source
  BY <1>1 DEF Threads
<1>4. /\ rt' \in Threads /\ rt'.pc = "sockets" /\ rt'.stack = rt.stack /\ rt'.done = rt.done
  BY <1>1 DEF Threads, Source
<1>5. RtTyped'
  BY <1>1, <1>4 DEF RtTyped
<1> HIDE DEF q, src
<1>6. /\ h \in Wires /\ h.wanted = sock.wanted /\ h.pending = sock.pending
      /\ h.actual = [sock.actual EXCEPT ![q] = src]
      /\ \A t \in Sockets : h.env[t].val = sock.env[t].val
      /\ Refs(h)
  BY <1>2, <1>3, ForceConnectInEffect
<1>7. sock' = [h EXCEPT !.pending[q] = FALSE]
  BY <1>1
<1> HIDE DEF h
<1>8. /\ sock' \in Wires /\ sock'.wanted = h.wanted /\ sock'.actual = h.actual
      /\ sock'.env = h.env /\ sock'.refs = h.refs
      /\ sock'.pending = [h.pending EXCEPT ![q] = FALSE]
  <2> DEFINE no == FALSE
             pending == [h.pending EXCEPT ![q] = no]
  <2>1. sock' = [h EXCEPT !.pending = pending] /\ h.pending \in [Sockets -> BOOLEAN]
    BY <1>6, <1>7 DEF Wires
  <2>2. pending \in [Sockets -> BOOLEAN]
    <3>1. h.pending \in [Sockets -> BOOLEAN] /\ no \in BOOLEAN
      BY <2>1
    <3> HIDE DEF no
    <3> QED  BY <3>1
  <2>3. pending = [h.pending EXCEPT ![q] = FALSE]
    OBVIOUS
  <2> HIDE DEF pending, no
  <2> QED  BY <1>6, <2>1, <2>2, <2>3 DEF Wires
<1>9. Refs(sock')
  BY <1>6, <1>8 DEF Refs
<1>10. /\ \A s \in Sockets : sock'.env[s].val = sock.env[s].val
       /\ \A s \in Sockets \ {q} : /\ sock'.actual[s] = sock.actual[s]
                                   /\ sock'.pending[s] = sock.pending[s]
       /\ sock'.actual[q] = src
  <2>1. sock.actual \in [Sockets -> Source] /\ sock.pending \in [Sockets -> BOOLEAN]
    BY DEF Wires
  <2>2. \A s \in Sockets \ {q} : sock'.pending[s] = sock.pending[s]
    <3> DEFINE no == FALSE
    <3>1. sock'.pending = [sock.pending EXCEPT ![q] = no]
      BY <1>6, <1>8
    <3> HIDE DEF no
    <3> QED  BY <2>1, <3>1
  <2>3. sock'.actual[q] = src /\ \A s \in Sockets \ {q} : sock'.actual[s] = sock.actual[s]
    BY <1>2, <1>6, <1>8, <2>1
  <2>4. \A s \in Sockets : sock'.env[s].val = sock.env[s].val
    BY <1>6, <1>8
  <2> QED  BY <2>2, <2>3, <2>4
<1>11. sock'.wanted = sock.wanted
  BY <1>6, <1>8
<1>12. ForceMove
  BY <1>1, <1>2, <1>4, <1>8, <1>10, <1>11 DEF ForceMove, q, src
<1> QED  BY <1>5, <1>9, <1>12

\* The nodes that are let go at the end of a block.
LEMMA WorldEnd ==
  ASSUME WorldInv, RtDelete
  PROVE  /\ WorldInv' /\ rt'.stack = <<>> /\ rt'.done = {} /\ torn' = torn
         /\ rt.stack = <<>> /\ rt.done = {} /\ rt'.pc = "idle"
         /\ \E X \in SUBSET Nodes : Reconnected(sock, sock', X) /\ exists' = exists \ X
<1> DEFINE gone == {n \in dying : ~ HasConnections(sock, n)}
           f == Freed(sock, gone)
<1>1. /\ Gone(gone) /\ dying' = dying \ gone /\ sock' = f /\ rt' = Idle
      /\ UNCHANGED <<patch, torn, changes, broken>> /\ rt.pc = "delete"
  BY DEF RtDelete
<1>2. /\ sock \in Wires /\ Refs(sock) /\ patch \in Patchers /\ Ends(patch)
      /\ patch.nodes \subseteq exists \ dying /\ Sound(sock, patch)
      /\ NodesSound /\ dying \subseteq exists /\ exists \subseteq Nodes
      /\ late \subseteq Users /\ torn \subseteq Sockets
  BY DEF WorldInv, PatchSound, NodesSound, GhostsTyped
<1>3. gone \in SUBSET Nodes /\ gone \subseteq dying /\ \A n \in gone : ~ HasConnections(sock, n)
  BY <1>2
<1> HIDE DEF gone
<1>4. /\ f \in Wires /\ Refs(f)
      /\ \A s \in Sockets : f.wanted[s] = sock.wanted[s] \/ f.wanted[s] = NoNode
  BY <1>2, <1>3, FreedEffect
<1>5. Reconnected(sock, f, gone)
  <2>1. Rewired(sock, sock, {})
    BY <1>2, RewiredMore
  <2> QED  BY <1>2, <1>3, <2>1, RewiredFreed
<1> HIDE DEF f
<1>6. Sound(f, patch)
  BY <1>2, <1>4, ShrunkSound
<1>7. exists' = exists \ gone /\ late' = late \ gone
  BY <1>1 DEF Gone
<1>8. NodesSound'
  BY <1>1, <1>2, <1>3, GoneNodes
<1>9. PatchSound'
  <2>1. patch'.nodes \subseteq exists' \ dying'
    BY <1>1, <1>2, <1>3, <1>7
  <2> QED  BY <1>1, <1>2, <1>4, <1>6, <2>1 DEF PatchSound
<1>10. rt' = [pc |-> "idle", stack |-> <<>>, done |-> {}, src |-> NoNode]
  BY <1>1 DEF Idle
<1>11. RtTyped' /\ rt'.stack = <<>> /\ rt'.done = {} /\ rt'.pc = "idle"
  BY <1>10 DEF RtTyped, Threads, Source
<1>12. rt.stack = <<>> /\ rt.done = {}
  BY <1>1 DEF WorldInv, RtTyped
<1>13. WorldInv'
  BY <1>1, <1>2, <1>7, <1>8, <1>9, <1>11 DEF WorldInv, GhostsTyped
<1> QED  BY <1>1, <1>3, <1>5, <1>7, <1>11, <1>12, <1>13

\* The steps of the audio thread.
LEMMA WorldRt ==
  ASSUME WorldInv, RtNext
  PROVE  WorldInv'
<1>1. RtTyped /\ sock \in Wires /\ Refs(sock) /\ broken \in BOOLEAN
  BY DEF WorldInv, PatchSound
<1>2. CASE RtBegin
  <2>1. UNCHANGED <<exists, ids, dying, patch, late, torn, changes, sock, broken>>
    BY <1>2 DEF RtBegin, ghosts
  <2>2. RtTyped'
    BY <1>1, <1>2, BeginMoves
  <2> QED  BY <1>1, <2>1, <2>2, WorldStill
<1>3. CASE RtInputs
  <2>1. UNCHANGED <<exists, ids, dying, patch, late, torn, changes, sock, broken>>
    BY <1>3 DEF RtInputs, RtIn
  <2>2. RtTyped'
    BY <1>1, <1>3, InputsMoves
  <2> QED  BY <1>1, <2>1, <2>2, WorldStill
<1>4. CASE RtLeave
  <2> DEFINE n == Top.node
             h == Faded(sock, n)
  <2>1. /\ UNCHANGED <<exists, ids, dying, patch, late, torn, changes, broken>>
        /\ sock' = h /\ rt.pc = "inputs"
    BY <1>4 DEF RtLeave, RtIn
  <2>2. n \in Nodes
    <3>1. rt.stack # <<>>
      BY <1>1, <2>1 DEF RtTyped
    <3> QED  BY <1>1, <3>1, TopFrame
  <2> HIDE DEF n
  <2>3. h \in Wires /\ Refs(h) /\ h.wanted = sock.wanted
    BY <1>1, <2>2, FadedEffect
  <2>4. RtTyped'
    BY <1>1, <1>4, LeaveMoves
  <2> HIDE DEF h
  <2>5. sock' \in Wires /\ Refs(sock') /\ sock'.wanted = sock.wanted /\ broken' \in BOOLEAN
    BY <1>1, <2>1, <2>3
  <2> QED  BY <2>1, <2>4, <2>5, WorldStill
<1>5. CASE RtSockets
  <2>1. UNCHANGED <<exists, ids, dying, patch, late, torn, changes, sock, broken>>
    BY <1>5 DEF RtSockets, RtIn
  <2>2. RtTyped'
    BY <1>1, <1>5, SocketsMoves
  <2> QED  BY <1>1, <2>1, <2>2, WorldStill
<1>6. CASE RtForce
  <2>1. UNCHANGED <<exists, ids, dying, patch, late, torn, changes, broken>>
    BY <1>6 DEF RtForce, RtIn
  <2>2. RtTyped' /\ sock' \in Wires /\ Refs(sock') /\ sock'.wanted = sock.wanted
    BY <1>1, <1>6, ForceMoves DEF ForceMove
  <2> QED  BY <1>1, <2>1, <2>2, WorldStill
<1>7. CASE RtDelete
  BY <1>7, WorldEnd
<1>8. CASE RtBreak
  <2>1. UNCHANGED <<exists, ids, dying, patch, late, torn, changes, sock, rt>> /\ broken' = TRUE
    BY <1>8 DEF RtBreak, ghosts
  <2>2. RtTyped'
    BY <1>1, <2>1, RtTypedSame
  <2> QED  BY <1>1, <2>1, <2>2, WorldStill
<1> QED  BY <1>2, <1>3, <1>4, <1>5, <1>6, <1>7, <1>8 DEF RtNext

\* The invariant of the world is inductive.
LEMMA WorldNext ==
  ASSUME WorldInv, ParamInv, [Next]_vars
  PROVE  WorldInv'
<1>1. CASE UNCHANGED vars
  <2>1. UNCHANGED <<exists, ids, dying, patch, late, torn, changes, sock, rt, broken>>
    BY <1>1 DEF vars
  <2> QED  BY <2>1, RtTypedSame DEF WorldInv, NodesSound, PatchSound, GhostsTyped
<1> QED  BY <1>1, WorldAdd, WorldMove, WorldActivate, WorldDeactivate, WorldUpdate,
            WorldDelete, WorldRt DEF Next, UserNext
-----------------------------------------------------------------------------
(* What the sockets read, and where the audio thread goes.                 *)

\* The nodes on the stack are different, and were updated in this block, but for
\* the last when it was gone already as the thread came to it.
Ordered ==
    /\ \A j, k \in 1 .. Len(rt.stack) : rt.stack[j].node = rt.stack[k].node => j = k
    /\ \A k \in 1 .. Len(rt.stack) :
          \/ rt.stack[k].node \in rt.done
          \/ k = Len(rt.stack) /\ rt.stack[k].node \notin exists /\ rt.pc = "inputs"

\* The thread came to a node through a socket that reads it still, or is silent.
Through(k) ==
    LET q == <<rt.stack[k - 1].node, rt.stack[k - 1].input>>
    IN  q \in Sockets /\ (sock.actual[q] = rt.stack[k].node \/ Finished(sock, q))

\* The source the thread is about to connect is the one asked for.
Taken ==
    LET q == <<Top.node, Top.input>>
    IN  rt.pc = "force" =>
            q \in Sockets /\ Finished(sock, q) /\ (q \notin torn => rt.src = sock.wanted[q])

ThreadInv == Ordered /\ (\A k \in 2 .. Len(rt.stack) : Through(k)) /\ Taken

\* The inputs of the node are behind the thread.
Passed(n) ==
    /\ n \in rt.done
    /\ \A k \in 1 .. Len(rt.stack) :
          rt.stack[k].node = n => k = Len(rt.stack) /\ rt.pc \in {"sockets", "force"}

\* The thread comes to the source of the socket in this block, or has just come.
Coming(s) ==
    /\ sock.actual[s] \notin rt.done
    /\ \A k \in 1 .. Len(rt.stack) : rt.stack[k].node = s[1] =>
          \/ s[2] > rt.stack[k].input
          \/ /\ s[2] = rt.stack[k].input /\ k < Len(rt.stack)
             /\ rt.stack[k + 1].node = sock.actual[s]

\* A socket that reads a node that is gone was torn, and has not risen: when the
\* thread comes to it, it goes into the node that is gone before it raises it.
Lost(s) ==
    sock.actual[s] \notin exists \cup {NoNode} =>
        s \in torn /\ Finished(sock, s) /\ (Passed(s[1]) \/ Coming(s))

Settled(s) == s \notin torn => sock.pending[s] \/ sock.actual[s] = sock.wanted[s]

Bare(s) == s[1] \notin exists => sock.actual[s] = NoNode

ReadsInv == \A s \in Sockets : Lost(s) /\ Settled(s) /\ Bare(s)

\* Of the sockets that a step connects, those that the audio thread is about to
\* connect are torn, and the others only if they were.
Torn(h) ==
    \A s \in Sockets :
        /\ h.wanted[s] = sock.wanted[s] /\ h.actual[s] = sock.actual[s] =>
               (s \in torn <=> s \in torn')
        /\ rt.pc = "force" /\ s = <<Top.node, Top.input>> /\ s \notin torn' =>
               s \notin torn /\ h.wanted[s] = sock.wanted[s]

\* The audio thread stays where it is, or outside all nodes.
Stays ==
    /\ rt'.stack = rt.stack /\ rt'.done = rt.done
    /\ rt' = rt \/ (rt.stack = <<>> /\ rt'.pc # "force")

LEMMA TornGrows ==
  ASSUME NEW g, Connecting(g)
  PROVE  Torn(g)
  BY DEF Connecting, Torn

\* Every step that connects, disconnects or destroys, but for the connection of a
\* socket by the audio thread.
LEMMA UserReads ==
  ASSUME WorldInv, WorldInv', ThreadInv, ReadsInv, Torn(sock'), Stays,
         NEW X \in SUBSET Nodes, Reconnected(sock, sock', X), exists' = exists \ X
  PROVE  ThreadInv' /\ ReadsInv'
<1> DEFINE g == sock
           h == sock'
<1>1. ASSUME NEW s \in Sockets, h.wanted[s] # NoNode
      PROVE  h.wanted[s] \in exists' /\ s[1] \in exists'
  <2>1. /\ patch' \in Patchers /\ Ends(patch') /\ Sourced(h, patch'.links)
        /\ patch'.nodes \subseteq exists'
    BY DEF WorldInv, PatchSound, Sound
  <2> HIDE DEF h
  <2>2. h.wanted[s] \in patch'.nodes /\ s[1] \in patch'.nodes
    BY <1>1, <2>1, SourcesThere
  <2> QED  BY <2>1, <2>2
<1>2. /\ \A s \in Sockets : h.actual[s] \notin X
      /\ \A s \in Sockets : s[1] \in X =>
            h.wanted[s] = NoNode /\ h.actual[s] = NoNode /\ h.env[s].val = 0
      /\ \A s \in Sockets : s[1] \notin X =>
            /\ h.env[s].val = g.env[s].val
            /\ \/ /\ h.wanted[s] = g.wanted[s] /\ h.actual[s] = g.actual[s]
                  /\ h.pending[s] = g.pending[s]
               \/ Finished(g, s) /\ h.actual[s] = h.wanted[s]
               \/ ~ Finished(g, s) /\ h.actual[s] = g.actual[s] /\ h.pending[s]
  BY DEF Reconnected
<1>3. \A s \in Sockets :
         /\ h.wanted[s] = g.wanted[s] /\ h.actual[s] = g.actual[s] => (s \in torn <=> s \in torn')
         /\ rt.pc = "force" /\ s = <<Top.node, Top.input>> /\ s \notin torn' =>
               s \notin torn /\ h.wanted[s] = g.wanted[s]
  BY DEF Torn
<1>4. h \in Wires /\ g \in Wires
  BY DEF WorldInv, PatchSound
<1>5. \A s \in Sockets : Finished(g, s) => Finished(h, s)
  BY <1>2 DEF Finished
<1>6. Ordered'
  BY DEF ThreadInv, Ordered, Stays
<1>7. ASSUME NEW k \in 2 .. Len(rt'.stack) PROVE Through(k)'
  <2>0. rt'.stack = rt.stack
    BY DEF Stays
  <2> DEFINE q == <<rt.stack[k - 1].node, rt.stack[k - 1].input>>
             m == rt.stack[k].node
  <2>1. q \in Sockets /\ (g.actual[q] = m \/ Finished(g, q))
    BY <1>7, <2>0 DEF ThreadInv, Through
  <2> HIDE DEF q, m, g, h
  <2>2. h.actual[q] = m \/ Finished(h, q)
    <3>1. CASE Finished(g, q)
      BY <1>5, <2>1, <3>1
    <3>2. CASE q[1] \in X
      BY <1>2, <2>1, <3>2 DEF Finished
    <3>3. CASE q[1] \notin X /\ ~ Finished(g, q)
      BY <1>2, <2>1, <3>3
    <3> QED  BY <3>1, <3>2, <3>3
  <2> QED  BY <2>0, <2>1, <2>2 DEF Through, q, m, h
<1>8. Taken'
  <2> DEFINE q == <<Top.node, Top.input>>
  <2>1. SUFFICES ASSUME rt'.pc = "force", rt' = rt, rt.pc = "force"
                 PROVE  q \in Sockets /\ Finished(h, q) /\ (q \notin torn' => rt.src = h.wanted[q])
    BY DEF Taken, Top, Stays
  <2>2. q \in Sockets /\ Finished(g, q) /\ (q \notin torn => rt.src = g.wanted[q])
    BY <2>1 DEF ThreadInv, Taken
  <2>3. q \notin torn' => q \notin torn /\ h.wanted[q] = g.wanted[q]
    BY <1>3, <2>1, <2>2
  <2> QED  BY <1>5, <2>2, <2>3
<1>9. \A n : Passed(n) => Passed(n)'
  BY DEF Passed, Stays
<1>10. ASSUME NEW s \in Sockets PROVE Lost(s)' /\ Settled(s)' /\ Bare(s)'
  <2> HIDE DEF g, h
  <2>1. Lost(s) /\ Settled(s) /\ Bare(s)
    BY DEF ReadsInv
  <2>2. CASE s[1] \in X
    <3>1. h.wanted[s] = NoNode /\ h.actual[s] = NoNode
      BY <1>2, <2>2
    <3> QED  BY <3>1 DEF Lost, Settled, Bare, h
  <2>3. CASE s[1] \notin X /\ h.wanted[s] = g.wanted[s] /\ h.actual[s] = g.actual[s] /\ h.pending[s] = g.pending[s]
    <3>1. s \in torn <=> s \in torn'
      BY <1>3, <2>3
    <3>2. Coming(s) => Coming(s)'
      BY <2>3 DEF Coming, Stays, g, h
    <3>3. g.actual[s] \notin exists' \cup {NoNode} => g.actual[s] \notin exists \cup {NoNode}
      BY <1>2, <2>3
    <3>4. Lost(s)'
      BY <1>5, <1>9, <2>1, <2>3, <3>1, <3>2, <3>3 DEF Lost, g, h
    <3>5. Settled(s)'
      BY <2>1, <2>3, <3>1 DEF Settled, g, h
    <3>6. Bare(s)'
      BY <2>1, <2>3 DEF Bare, g, h
    <3> QED  BY <3>4, <3>5, <3>6
  <2>4. CASE s[1] \notin X /\ Finished(g, s) /\ h.actual[s] = h.wanted[s]
    <3>1. h.actual[s] = NoNode \/ (h.actual[s] \in exists' /\ s[1] \in exists')
      BY <1>1, <2>4
    <3> QED  BY <2>4, <3>1 DEF Lost, Settled, Bare, h
  <2>5. CASE s[1] \notin X /\ ~ Finished(g, s) /\ h.actual[s] = g.actual[s] /\ h.pending[s]
    <3>1. g.actual[s] \in exists \cup {NoNode} /\ h.actual[s] \notin X
      BY <1>2, <2>1, <2>5 DEF Lost, g
    <3>2. Lost(s)'
      BY <2>5, <3>1 DEF Lost, h
    <3>3. Settled(s)' /\ Bare(s)'
      BY <2>1, <2>5 DEF Settled, Bare, g, h
    <3> QED  BY <3>2, <3>3
  <2> QED  BY <1>2, <2>2, <2>3, <2>4, <2>5
<1> QED  BY <1>6, <1>7, <1>8, <1>10 DEF ThreadInv, ReadsInv

\* A step that changes none of what the two are about.
LEMMA ReadsSame ==
  ASSUME ThreadInv, ReadsInv, UNCHANGED <<exists, sock, rt, torn>>
  PROVE  ThreadInv' /\ ReadsInv'
<1>1. ThreadInv'
  BY DEF ThreadInv, Ordered, Through, Taken, Top
<1>2. \A s \in Sockets : Lost(s)' /\ Settled(s)' /\ Bare(s)'
  <2> TAKE s \in Sockets
  <2>1. (Passed(s[1]) <=> Passed(s[1])') /\ (Coming(s) <=> Coming(s)')
    BY DEF Passed, Coming
  <2> QED  BY <2>1 DEF ReadsInv, Lost, Settled, Bare
<1> QED  BY <1>1, <1>2 DEF ReadsInv

\* A new node is none that anything refers to.
LEMMA AddReads ==
  ASSUME WorldInv, ThreadInv, ReadsInv, NEW n \in Users, NEW pos, Add(n, pos)
  PROVE  ThreadInv' /\ ReadsInv'
<1>1. /\ Forgotten(n) /\ exists' = exists \cup {n} /\ UNCHANGED <<sock, rt, torn>>
  BY DEF Add
<1>2. rt.stack \in Seq(Frames)
  BY DEF WorldInv, RtTyped, Threads
<1>3. \A k \in 1 .. Len(rt.stack) : rt.stack[k].node # n
  BY <1>1, <1>2 DEF Forgotten, Inside
<1>4. \A s \in Sockets : sock.actual[s] # n
  BY <1>1 DEF Forgotten
<1>5. Ordered'
  BY <1>1, <1>3 DEF ThreadInv, Ordered
<1>6. (\A k \in 2 .. Len(rt'.stack) : Through(k)') /\ Taken'
  BY <1>1 DEF ThreadInv, Through, Taken, Top
<1>7. ASSUME NEW s \in Sockets PROVE Lost(s)' /\ Settled(s)' /\ Bare(s)'
  <2>1. (Passed(s[1]) <=> Passed(s[1])') /\ (Coming(s) <=> Coming(s)')
    BY <1>1 DEF Passed, Coming
  <2> QED  BY <1>1, <1>4, <2>1 DEF ReadsInv, Lost, Settled, Bare
<1> QED  BY <1>5, <1>6, <1>7 DEF ThreadInv, ReadsInv

-----------------------------------------------------------------------------
(* The steps of the audio thread.                                          *)

\* A block begins at the output.
LEMMA BeginReads ==
  ASSUME WorldInv, ThreadInv, ReadsInv, RtBegin
  PROVE  ThreadInv' /\ ReadsInv'
<1>1. RtTyped /\ sock \in Wires /\ Output \in exists /\ exists \subseteq Nodes
  BY DEF WorldInv, PatchSound, NodesSound
<1>2. UNCHANGED <<exists, sock, torn>>
  BY DEF RtBegin, ghosts
<1>3. /\ rt'.pc = "inputs" /\ rt'.done = {Output} /\ Len(rt'.stack) = 1
      /\ rt'.stack[1] = [node |-> Output, input |-> 0]
  BY <1>1, BeginMoves DEF BeginMove
<1>4. ThreadInv'
  BY <1>3 DEF ThreadInv, Ordered, Taken
<1>5. ASSUME NEW s \in Sockets PROVE Lost(s)' /\ Settled(s)' /\ Bare(s)'
  <2>1. Settled(s)' /\ Bare(s)'
    BY <1>2 DEF ReadsInv, Settled, Bare
  <2>2. ASSUME sock.actual[s] \notin exists \cup {NoNode} PROVE Coming(s)'
    <3>1. s[2] \in 1 .. InCount[s[1]] /\ InCount[s[1]] \in Nat
      BY SocketParts, NodesAssumption
    <3>2. s[2] > 0
      BY <3>1
    <3> QED  BY <1>1, <1>2, <1>3, <2>2, <3>2 DEF Coming
  <2>3. Lost(s)'
    BY <1>2, <2>2 DEF ReadsInv, Lost
  <2> QED  BY <2>1, <2>3
<1> QED  BY <1>4, <1>5 DEF ReadsInv

\* It goes down to the source of a socket.
LEMMA InputsReads ==
  ASSUME WorldInv, ThreadInv, ReadsInv, RtInputs
  PROVE  ThreadInv' /\ ReadsInv'
<1> DEFINE n == Top.node
           L == Len(rt.stack)
           t == rt'.stack
<1>1. RtTyped /\ sock \in Wires /\ exists \subseteq Nodes
  BY DEF WorldInv, PatchSound, NodesSound
<1>2. UNCHANGED <<exists, sock, torn>>
  BY DEF RtInputs, RtIn
<1>3. PICK i : InputsMove(i)
  BY <1>1, InputsMoves
<1> DEFINE src == sock.actual[<<n, i>>]
<1>4. /\ rt.pc = "inputs" /\ rt.stack # <<>> /\ n \in exists
      /\ i \in 1 .. InCount[n] /\ i > Top.input
      /\ src \in Nodes /\ src \notin rt.done
      /\ \A j \in 1 .. InCount[n] :
            Top.input < j /\ sock.actual[<<n, j>>] \notin rt.done \cup {NoNode} => i <= j
      /\ rt'.pc = "inputs"
      /\ rt'.done = IF src \in exists THEN rt.done \cup {src} ELSE rt.done
      /\ Len(t) = L + 1
      /\ \A k \in 1 .. L - 1 : t[k] = rt.stack[k]
      /\ t[L] = [node |-> n, input |-> i]
      /\ t[L + 1] = [node |-> src, input |-> 0]
  BY <1>3 DEF InputsMove
<1>5. /\ L \in Nat \ {0} /\ n \in Nodes /\ Top.input \in 0 .. InCount[n] /\ InCount[n] \in Nat
      /\ n = rt.stack[L].node /\ Top.input = rt.stack[L].input
  BY <1>1, <1>4, TopFrame, NodesAssumption
<1> HIDE DEF n, L, t, src
<1>6. \A k \in 1 .. L : t[k].node = rt.stack[k].node
  BY <1>4, <1>5
<1>7. \A k \in 1 .. L : rt.stack[k].node \in rt.done
  BY <1>4, <1>5 DEF ThreadInv, Ordered, L
<1>8. \A j, k \in 1 .. L : rt.stack[j].node = rt.stack[k].node => j = k
  BY DEF ThreadInv, Ordered, L
<1>9. Ordered'
  <2>1. ASSUME NEW j \in 1 .. L + 1, NEW k \in 1 .. L + 1, t[j].node = t[k].node PROVE j = k
    <3>1. CASE j \in 1 .. L /\ k \in 1 .. L
      BY <1>6, <1>8, <2>1, <3>1
    <3>2. CASE j = L + 1 /\ k \in 1 .. L
      BY <1>4, <1>6, <1>7, <2>1, <3>2
    <3>3. CASE k = L + 1 /\ j \in 1 .. L
      BY <1>4, <1>6, <1>7, <2>1, <3>3
    <3> QED  BY <1>5, <3>1, <3>2, <3>3
  <2>2. ASSUME NEW k \in 1 .. L + 1
        PROVE  t[k].node \in rt'.done \/ (k = L + 1 /\ t[k].node \notin exists)
    <3>1. CASE k \in 1 .. L
      BY <1>4, <1>6, <1>7, <3>1
    <3>2. CASE k = L + 1
      BY <1>4, <3>2
    <3> QED  BY <1>5, <3>1, <3>2
  <2> QED  BY <1>2, <1>4, <2>1, <2>2 DEF Ordered, t
<1>10. ASSUME NEW k \in 2 .. L + 1 PROVE Through(k)'
  <2>1. CASE k \in 2 .. L
    <3>1. t[k - 1] = rt.stack[k - 1] /\ t[k].node = rt.stack[k].node
      BY <1>4, <1>5, <1>6, <2>1
    <3>2. Through(k)
      BY <2>1 DEF ThreadInv, L
    <3> QED  BY <1>2, <3>1, <3>2 DEF Through, t
  <2>2. CASE k = L + 1
    <3>1. <<n, i>> \in Sockets
      BY <1>4, <1>5, SocketOf
    <3>2. t[k - 1] = [node |-> n, input |-> i] /\ t[k] = [node |-> src, input |-> 0]
      BY <1>4, <1>5, <2>2
    <3> QED  BY <1>2, <3>1, <3>2 DEF Through, t, src
  <2> QED  BY <1>5, <2>1, <2>2
<1>11. Taken'
  BY <1>4 DEF Taken
<1>12. ThreadInv'
  BY <1>4, <1>9, <1>10, <1>11 DEF ThreadInv, t
<1>13. ASSUME NEW s \in Sockets PROVE Lost(s)' /\ Settled(s)' /\ Bare(s)'
  <2>1. Settled(s)' /\ Bare(s)' /\ Bare(s) /\ Lost(s)
    BY <1>2 DEF ReadsInv, Settled, Bare
  <2> DEFINE m == sock.actual[s]
  <2>2. ASSUME m \notin exists \cup {NoNode}
        PROVE  s \in torn /\ Finished(sock, s) /\ (Passed(s[1])' \/ Coming(s)')
    <3>1. s \in torn /\ Finished(sock, s) /\ (Passed(s[1]) \/ Coming(s)) /\ s[1] \in exists
      BY <2>1, <2>2 DEF Lost, Bare
    <3>2. CASE Passed(s[1])
      <4>1. s[1] \in rt.done /\ \A k \in 1 .. L : rt.stack[k].node # s[1]
        BY <1>4, <3>2 DEF Passed, L
      <4>2. \A k \in 1 .. L + 1 : t[k].node # s[1]
        <5> TAKE k \in 1 .. L + 1
        <5>1. CASE k \in 1 .. L
          BY <1>6, <4>1, <5>1
        <5>2. CASE k = L + 1
          BY <1>4, <4>1, <5>2
        <5> QED  BY <1>5, <5>1, <5>2
      <4> QED  BY <1>4, <3>1, <4>1, <4>2 DEF Passed, t
    <3>3. CASE Coming(s)
      <4>1. m \notin rt.done
        BY <3>3 DEF Coming
      <4>2. m \notin rt'.done
        BY <1>4, <2>2, <4>1
      <4>3. s[2] \in 1 .. InCount[s[1]] /\ InCount[s[1]] \in Nat /\ s = <<s[1], s[2]>>
        BY SocketParts, NodesAssumption
      <4>4. ASSUME NEW k \in 1 .. L + 1, t[k].node = s[1]
            PROVE  \/ s[2] > t[k].input
                   \/ s[2] = t[k].input /\ k < L + 1 /\ t[k + 1].node = m
        <5>1. CASE k = L + 1
          BY <1>4, <4>3, <5>1
        <5>2. CASE k = L
          <6>1. s[1] = n
            BY <1>4, <4>4, <5>2
          <6>2. s[2] > Top.input
            BY <1>5, <3>3, <6>1 DEF Coming, L
          <6>3. s[2] \in 1 .. InCount[n] /\ sock.actual[<<n, s[2]>>] = m /\ m # NoNode
            BY <2>2, <4>3, <6>1
          <6>4. i <= s[2]
            BY <1>4, <4>1, <6>2, <6>3
          <6>5. s[2] = i => src = m
            BY <6>3 DEF src
          <6> QED  BY <1>4, <1>5, <4>3, <5>2, <6>4, <6>5
        <5>3. CASE k \in 1 .. L - 1
          <6>1. t[k] = rt.stack[k] /\ t[k + 1].node = rt.stack[k + 1].node /\ k \in 1 .. L
            BY <1>4, <1>5, <1>6, <5>3
          <6>2. \/ s[2] > rt.stack[k].input
                \/ s[2] = rt.stack[k].input /\ k < L /\ rt.stack[k + 1].node = m
            BY <3>3, <4>4, <6>1 DEF Coming, L
          <6> QED  BY <1>5, <6>1, <6>2
        <5> QED  BY <1>5, <5>1, <5>2, <5>3
      <4> QED  BY <1>2, <1>4, <3>1, <4>2, <4>4 DEF Coming, t
    <3> QED  BY <3>1, <3>2, <3>3
  <2>3. Lost(s)'
    BY <1>2, <2>2 DEF Lost
  <2> QED  BY <2>1, <2>3
<1> QED  BY <1>12, <1>13 DEF ReadsInv

\* It leaves the inputs of the node, whose envelopes move.
LEMMA LeaveReads ==
  ASSUME WorldInv, ThreadInv, ReadsInv, RtLeave
  PROVE  ThreadInv' /\ ReadsInv'
<1> DEFINE n == Top.node
           L == Len(rt.stack)
           t == rt'.stack
           h == sock'
<1>1. RtTyped /\ sock \in Wires
  BY DEF WorldInv, PatchSound
<1>2. UNCHANGED <<exists, torn>> /\ h = Faded(sock, n)
  BY DEF RtLeave, RtIn
<1>3. LeaveMove
  BY <1>1, LeaveMoves
<1>4. /\ rt.pc = "inputs" /\ rt.stack # <<>> /\ n \in exists
      /\ rt'.pc = "sockets" /\ rt'.done = rt.done /\ Len(t) = L
      /\ \A k \in 1 .. L - 1 : t[k] = rt.stack[k]
      /\ t[L] = [node |-> n, input |-> 0]
      /\ \A j \in 1 .. InCount[n] :
            Top.input < j => sock.actual[<<n, j>>] \in rt.done \cup {NoNode}
  BY <1>3 DEF LeaveMove, TopMove
<1>5. /\ L \in Nat \ {0} /\ n \in Nodes /\ n = rt.stack[L].node
      /\ Top.input = rt.stack[L].input
  BY <1>1, <1>4, TopFrame
<1> HIDE DEF n, L, t, h
<1>6. /\ h \in Wires /\ h.actual = sock.actual /\ h.wanted = sock.wanted /\ h.pending = sock.pending
      /\ \A s \in Sockets : s[1] # n => h.env[s] = sock.env[s]
  BY <1>1, <1>2, <1>5, FadedEffect
<1>7. \A k \in 1 .. L : t[k].node = rt.stack[k].node
  BY <1>4, <1>5
<1>8. \A j, k \in 1 .. L : rt.stack[j].node = rt.stack[k].node => j = k
  BY DEF ThreadInv, Ordered, L
<1>9. \A k \in 1 .. L : rt.stack[k].node \in rt.done
  BY <1>4, <1>5 DEF ThreadInv, Ordered, L
<1>10. Ordered'
  BY <1>4, <1>7, <1>8, <1>9 DEF Ordered, t
<1>11. ASSUME NEW k \in 2 .. L PROVE Through(k)'
  <2> DEFINE q == <<rt.stack[k - 1].node, rt.stack[k - 1].input>>
  <2>1. q \in Sockets /\ (sock.actual[q] = rt.stack[k].node \/ Finished(sock, q))
    BY <1>11 DEF ThreadInv, Through, L
  <2>2. k - 1 \in 1 .. L /\ k - 1 # L /\ L \in 1 .. L /\ k - 1 \in 1 .. L - 1 /\ k \in 1 .. L
    BY <1>5, <1>11
  <2>3. rt.stack[k - 1].node # n
    BY <1>5, <1>8, <2>2
  <2>4. t[k - 1] = rt.stack[k - 1] /\ t[k].node = rt.stack[k].node
    BY <1>4, <1>7, <2>2
  <2>5. q[1] = rt.stack[k - 1].node
    OBVIOUS
  <2> HIDE DEF q
  <2>6. h.env[q] = sock.env[q]
    BY <1>6, <2>1, <2>3, <2>5
  <2>7. h.actual[q] = rt.stack[k].node \/ Finished(h, q)
    BY <1>6, <2>1, <2>6 DEF Finished
  <2> QED  BY <2>1, <2>4, <2>7 DEF Through, q, t, h
<1>12. Taken'
  BY <1>4 DEF Taken
<1>13. ThreadInv'
  BY <1>4, <1>10, <1>11, <1>12 DEF ThreadInv, t
<1>14. ASSUME NEW s \in Sockets PROVE Lost(s)' /\ Settled(s)' /\ Bare(s)'
  <2>1. Settled(s)' /\ Bare(s)' /\ Lost(s)
    BY <1>2, <1>6 DEF ReadsInv, Settled, Bare, h
  <2> DEFINE m == sock.actual[s]
  <2>2. ASSUME m \notin exists \cup {NoNode}
        PROVE  s \in torn /\ Finished(h, s) /\ (Passed(s[1])' \/ Coming(s)')
    <3>1. s \in torn /\ Finished(sock, s) /\ (Passed(s[1]) \/ Coming(s))
      BY <2>1, <2>2 DEF Lost
    <3>2. s[2] \in 1 .. InCount[s[1]] /\ s = <<s[1], s[2]>>
      BY SocketParts
    <3>3. s[1] # n
      <4>1. SUFFICES ASSUME s[1] = n PROVE FALSE
        OBVIOUS
      <4>2. ~ Passed(s[1])
        BY <1>4, <1>5, <4>1 DEF Passed, L
      <4>3. Coming(s)
        BY <3>1, <4>2
      <4>4. s[2] > Top.input /\ m \notin rt.done
        BY <1>5, <4>1, <4>3 DEF Coming, L
      <4>5. sock.actual[<<n, s[2]>>] = m /\ s[2] \in 1 .. InCount[n]
        BY <3>2, <4>1
      <4> QED  BY <1>4, <2>2, <4>4, <4>5
    <3>4. Finished(h, s)
      BY <1>6, <3>1, <3>3 DEF Finished
    <3>5. CASE Passed(s[1])
      <4>1. s[1] \in rt.done /\ \A k \in 1 .. L : rt.stack[k].node # s[1]
        BY <1>4, <3>5 DEF Passed, L
      <4>2. Passed(s[1])'
        BY <1>4, <1>7, <4>1 DEF Passed, t
      <4> QED  BY <3>1, <3>4, <4>2
    <3>6. CASE Coming(s)
      <4>1. ASSUME NEW k \in 1 .. L, t[k].node = s[1]
            PROVE  \/ s[2] > t[k].input
                   \/ s[2] = t[k].input /\ k < L /\ t[k + 1].node = m
        <5>1. k \in 1 .. L - 1 /\ k + 1 \in 1 .. L
          BY <1>5, <1>7, <3>3, <4>1
        <5>2. t[k] = rt.stack[k] /\ t[k + 1].node = rt.stack[k + 1].node
          BY <1>4, <1>7, <5>1
        <5> QED  BY <3>6, <4>1, <5>2 DEF Coming, L
      <4>2. m \notin rt'.done
        BY <1>4, <3>6 DEF Coming
      <4>3. Coming(s)'
        BY <1>4, <1>6, <4>1, <4>2 DEF Coming, t, h
      <4> QED  BY <3>1, <3>4, <4>3
    <3> QED  BY <3>1, <3>5, <3>6
  <2>3. Lost(s)'
    BY <1>2, <1>6, <2>2 DEF Lost, h
  <2> QED  BY <2>1, <2>3
<1> QED  BY <1>13, <1>14 DEF ReadsInv

\* It finds a connection due, and reads its source.
LEMMA DueReads ==
  ASSUME WorldInv, ThreadInv, ReadsInv, UNCHANGED <<exists, sock, torn>>, NEW i, DueMove(i)
  PROVE  ThreadInv' /\ ReadsInv'
<1> DEFINE n == Top.node
           L == Len(rt.stack)
           t == rt'.stack
           q == <<n, i>>
<1>1. /\ rt.pc = "sockets" /\ rt.stack # <<>>
      /\ rt'.pc = "force" /\ rt'.done = rt.done /\ Len(t) = L
      /\ \A k \in 1 .. L - 1 : t[k] = rt.stack[k]
      /\ t[L] = [node |-> n, input |-> i]
      /\ q \in Sockets /\ Finished(sock, q) /\ rt'.src = sock.wanted[q]
  BY DEF DueMove, TopMove
<1>2. L \in Nat \ {0} /\ n = rt.stack[L].node
  BY <1>1, TopFrame DEF WorldInv
<1> HIDE DEF n, L, t
<1>3. \A k \in 1 .. L : t[k].node = rt.stack[k].node
  BY <1>1, <1>2
<1>4. Ordered'
  BY <1>1, <1>3 DEF ThreadInv, Ordered, L, t
<1>5. ASSUME NEW k \in 2 .. L PROVE Through(k)'
  <2>1. t[k - 1] = rt.stack[k - 1] /\ t[k].node = rt.stack[k].node
    BY <1>1, <1>2, <1>3, <1>5
  <2>2. Through(k)
    BY <1>5 DEF ThreadInv, L
  <2> QED  BY <2>1, <2>2 DEF Through, t
<1>6. Taken'
  <2>1. Top' = [node |-> n, input |-> i]
    BY <1>1 DEF Top, t
  <2> QED  BY <1>1, <2>1 DEF Taken
<1>7. ThreadInv'
  BY <1>1, <1>4, <1>5, <1>6 DEF ThreadInv, t
<1>8. ASSUME NEW s \in Sockets PROVE Lost(s)' /\ Settled(s)' /\ Bare(s)'
  <2>1. Settled(s)' /\ Bare(s)' /\ Lost(s)
    BY DEF ReadsInv, Settled, Bare
  <2>2. Passed(s[1]) => Passed(s[1])'
    BY <1>1, <1>3 DEF Passed, L, t
  <2>3. ASSUME Coming(s), ~ Passed(s[1]) PROVE Coming(s)'
    <3>1. s[1] # n
      <4>1. SUFFICES ASSUME s[1] = n PROVE FALSE
        OBVIOUS
      <4>2. n \in rt.done /\ \A k \in 1 .. L : rt.stack[k].node = n => k = L
        BY <1>1, <1>2 DEF ThreadInv, Ordered, L
      <4> QED  BY <1>1, <2>3, <4>1, <4>2 DEF Passed, L
    <3>2. ASSUME NEW k \in 1 .. L, t[k].node = s[1]
          PROVE  \/ s[2] > t[k].input
                 \/ s[2] = t[k].input /\ k < L /\ t[k + 1].node = sock.actual[s]
      <4>1. k \in 1 .. L - 1 /\ k + 1 \in 1 .. L
        BY <1>2, <1>3, <3>1, <3>2
      <4>2. t[k] = rt.stack[k] /\ t[k + 1].node = rt.stack[k + 1].node
        BY <1>1, <1>3, <4>1
      <4> QED  BY <2>3, <3>2, <4>2 DEF Coming, L
    <3> QED  BY <1>1, <2>3, <3>2 DEF Coming, t
  <2> QED  BY <2>1, <2>2, <2>3 DEF Lost
<1> QED  BY <1>7, <1>8 DEF ReadsInv

\* It goes back to the node that reads this one, or ends the block.
LEMMA BackReads ==
  ASSUME WorldInv, ThreadInv, ReadsInv, UNCHANGED <<exists, sock, torn>>, BackMove
  PROVE  ThreadInv' /\ ReadsInv'
<1> DEFINE n == Top.node
           L == Len(rt.stack)
           t == rt'.stack
<1>1. /\ rt.pc = "sockets" /\ rt.stack # <<>>
      /\ rt'.pc = "inputs" /\ rt'.done = rt.done /\ Len(t) = L - 1
      /\ \A k \in 1 .. L - 1 : t[k] = rt.stack[k]
  BY DEF BackMove
<1>2. L \in Nat \ {0} /\ n = rt.stack[L].node
  BY <1>1, TopFrame DEF WorldInv
<1> HIDE DEF n, L, t
<1>3. \A j, k \in 1 .. L : rt.stack[j].node = rt.stack[k].node => j = k
  BY DEF ThreadInv, Ordered, L
<1>4. \A k \in 1 .. L : rt.stack[k].node \in rt.done
  BY <1>1 DEF ThreadInv, Ordered, L
<1>5. Ordered'
  BY <1>1, <1>2, <1>3, <1>4 DEF Ordered, t
<1>6. ASSUME NEW k \in 2 .. L - 1 PROVE Through(k)'
  <2>1. t[k - 1] = rt.stack[k - 1] /\ t[k] = rt.stack[k] /\ k \in 2 .. L
    BY <1>1, <1>2, <1>6
  <2>2. Through(k)
    BY <2>1 DEF ThreadInv, L
  <2> QED  BY <2>1, <2>2 DEF Through, t
<1>7. Taken'
  BY <1>1 DEF Taken
<1>8. ThreadInv'
  BY <1>1, <1>5, <1>6, <1>7 DEF ThreadInv, t
<1>9. ASSUME NEW s \in Sockets PROVE Lost(s)' /\ Settled(s)' /\ Bare(s)'
  <2>1. Settled(s)' /\ Bare(s)' /\ Lost(s)
    BY DEF ReadsInv, Settled, Bare
  <2> DEFINE m == sock.actual[s]
  <2>2. CASE s[1] = n \/ Passed(s[1])
    <3>1. s[1] \in rt.done /\ \A k \in 1 .. L : rt.stack[k].node = s[1] => k = L
      BY <1>2, <1>3, <1>4, <2>2 DEF Passed, L
    <3>2. \A k \in 1 .. L - 1 : t[k].node # s[1]
      BY <1>1, <1>2, <3>1
    <3>3. Passed(s[1])'
      BY <1>1, <3>1, <3>2 DEF Passed, t
    <3> QED  BY <2>1, <3>3 DEF Lost
  <2>3. CASE s[1] # n /\ Coming(s)
    <3>1. ASSUME NEW k \in 1 .. L - 1, t[k].node = s[1]
          PROVE  \/ s[2] > t[k].input
                 \/ s[2] = t[k].input /\ k < L - 1 /\ t[k + 1].node = m
      <4>1. k \in 1 .. L /\ t[k] = rt.stack[k]
        BY <1>1, <1>2, <3>1
      <4>2. \/ s[2] > rt.stack[k].input
            \/ s[2] = rt.stack[k].input /\ k < L /\ rt.stack[k + 1].node = m
        BY <2>3, <3>1, <4>1 DEF Coming, L
      <4>3. rt.stack[k + 1].node = m => k < L - 1
        <5>1. m \notin rt.done
          BY <2>3 DEF Coming
        <5>2. k + 1 \in 1 .. L
          BY <1>2, <3>1
        <5> QED  BY <1>4, <5>1, <5>2
      <4>4. k < L - 1 => t[k + 1] = rt.stack[k + 1]
        BY <1>1, <1>2, <3>1
      <4> QED  BY <4>1, <4>2, <4>3, <4>4
    <3>2. Coming(s)'
      BY <1>1, <2>3, <3>1 DEF Coming, t
    <3> QED  BY <2>1, <3>2 DEF Lost
  <2> QED  BY <2>1, <2>2, <2>3 DEF Lost
<1> QED  BY <1>8, <1>9 DEF ReadsInv

LEMMA OutReads ==
  ASSUME ThreadInv, ReadsInv, UNCHANGED <<exists, sock, torn>>,
         rt'.stack = <<>>, rt'.done = {}, rt'.pc # "force"
  PROVE  ThreadInv' /\ ReadsInv'
<1>1. ThreadInv'
  BY DEF ThreadInv, Ordered, Taken
<1>2. \A s \in Sockets : Coming(s)'
  BY DEF Coming
<1>3. \A s \in Sockets : Lost(s)' /\ Settled(s)' /\ Bare(s)'
  BY <1>2 DEF ReadsInv, Lost, Settled, Bare
<1> QED  BY <1>1, <1>3 DEF ReadsInv

\* It makes the connection.
LEMMA ForceReads ==
  ASSUME WorldInv, ThreadInv, ReadsInv, RtForce
  PROVE  ThreadInv' /\ ReadsInv'
<1> DEFINE n == Top.node
           L == Len(rt.stack)
           q == <<Top.node, Top.input>>
           h == sock'
<1>1. RtTyped /\ sock \in Wires /\ Refs(sock)
  BY DEF WorldInv, PatchSound
<1>2. UNCHANGED <<exists, torn>>
  BY DEF RtForce, RtIn
<1>3. ForceMove
  BY <1>1, ForceMoves
<1>4. /\ rt.stack # <<>> /\ rt.pc = "force" /\ n \in exists /\ q \in Sockets
      /\ rt'.pc = "sockets" /\ rt'.done = rt.done /\ rt'.stack = rt.stack
      /\ h.wanted = sock.wanted
      /\ \A s \in Sockets : h.env[s].val = sock.env[s].val
      /\ \A s \in Sockets \ {q} : h.actual[s] = sock.actual[s] /\ h.pending[s] = sock.pending[s]
      /\ h.actual[q] = rt.src
  BY <1>3 DEF ForceMove
<1>5. L \in Nat \ {0} /\ n = rt.stack[L].node /\ q[1] = n
  BY <1>1, <1>4, TopFrame
<1>6. Finished(sock, q) /\ (q \notin torn => rt.src = sock.wanted[q])
  BY <1>4 DEF ThreadInv, Taken
<1> HIDE DEF n, L, q, h
<1>7. \A j, k \in 1 .. L : rt.stack[j].node = rt.stack[k].node => j = k
  BY DEF ThreadInv, Ordered, L
<1>8. \A k \in 1 .. L : rt.stack[k].node \in rt.done
  BY <1>4 DEF ThreadInv, Ordered, L
<1>9. \A s \in Sockets : Finished(sock, s) => Finished(h, s)
  BY <1>4 DEF Finished
<1>10. Ordered'
  BY <1>4, <1>7, <1>8 DEF Ordered, L
<1>11. ASSUME NEW k \in 2 .. L PROVE Through(k)'
  <2> DEFINE r == <<rt.stack[k - 1].node, rt.stack[k - 1].input>>
             m == rt.stack[k].node
  <2>1. r \in Sockets /\ (sock.actual[r] = m \/ Finished(sock, r))
    BY <1>11 DEF ThreadInv, Through, L
  <2>2. r[1] # n
    <3>1. k - 1 \in 1 .. L /\ k - 1 # L /\ L \in 1 .. L
      BY <1>5, <1>11
    <3> QED  BY <1>5, <1>7, <3>1
  <2> HIDE DEF r, m
  <2>3. h.actual[r] = m \/ Finished(h, r)
    BY <1>4, <1>5, <1>9, <2>1, <2>2
  <2> QED  BY <1>4, <2>1, <2>3 DEF Through, r, m, h
<1>12. Taken'
  BY <1>4 DEF Taken
<1>13. ThreadInv'
  BY <1>4, <1>10, <1>11, <1>12 DEF ThreadInv, L
<1>14. \A m : Passed(m) => Passed(m)'
  BY <1>4 DEF Passed
<1>15. ASSUME NEW s \in Sockets PROVE Lost(s)' /\ Settled(s)' /\ Bare(s)'
  <2>1. Lost(s) /\ Settled(s) /\ Bare(s)
    BY DEF ReadsInv
  <2>2. CASE s # q
    <3>1. h.actual[s] = sock.actual[s] /\ h.pending[s] = sock.pending[s]
      BY <1>4, <2>2
    <3>2. Coming(s) => Coming(s)'
      BY <1>4, <3>1 DEF Coming, h
    <3>3. Lost(s)'
      BY <1>2, <1>9, <1>14, <2>1, <3>1, <3>2 DEF Lost, h
    <3>4. Settled(s)' /\ Bare(s)'
      BY <1>2, <1>4, <2>1, <3>1 DEF Settled, Bare, h
    <3> QED  BY <3>3, <3>4
  <2>3. CASE s = q
    <3>1. h.actual[s] = rt.src /\ h.wanted[s] = sock.wanted[s] /\ s[1] = n
      BY <1>4, <1>5, <2>3
    <3>2. s \notin torn => rt.src = sock.wanted[s]
      BY <1>6, <2>3
    <3>3. sock.wanted[s] \in exists \cup {NoNode}
      <4>1. /\ patch \in Patchers /\ Ends(patch) /\ Sourced(sock, patch.links)
            /\ patch.nodes \subseteq exists
        BY DEF WorldInv, PatchSound, Sound
      <4> QED  BY <4>1, SourcesThere
    <3>4. Passed(s[1])'
      <4>1. n \in rt.done /\ \A k \in 1 .. L : rt.stack[k].node = n => k = L
        BY <1>5, <1>7, <1>8
      <4> QED  BY <1>4, <3>1, <4>1 DEF Passed, L
    <3>5. Lost(s)'
      BY <1>2, <1>6, <1>9, <2>3, <3>1, <3>2, <3>3, <3>4 DEF Lost, h
    <3>6. Settled(s)'
      BY <1>2, <3>1, <3>2 DEF Settled, h
    <3>7. Bare(s)'
      BY <1>2, <1>4, <3>1 DEF Bare
    <3> QED  BY <3>5, <3>6, <3>7
  <2> QED  BY <2>2, <2>3
<1> QED  BY <1>13, <1>15 DEF ReadsInv

\* The nodes that are let go are none that a socket reads.
LEMMA EndReads ==
  ASSUME WorldInv, ThreadInv, ReadsInv, RtDelete
  PROVE  ThreadInv' /\ ReadsInv'
<1>1. /\ WorldInv' /\ rt'.stack = <<>> /\ rt'.done = {} /\ torn' = torn
      /\ rt.stack = <<>> /\ rt.done = {} /\ rt'.pc = "idle"
  BY WorldEnd
<1>2. PICK X \in SUBSET Nodes : Reconnected(sock, sock', X) /\ exists' = exists \ X
  BY WorldEnd
<1>3. rt.pc # "force"
  BY DEF RtDelete
<1>4. Torn(sock') /\ Stays
  BY <1>1, <1>3 DEF Torn, Stays
<1> QED  BY <1>1, <1>2, <1>4, UserReads

-----------------------------------------------------------------------------
(* The invariant.                                                          *)

AudioInv == WorldInv /\ ThreadInv /\ ReadsInv

\* Nothing is connected but as asked before the first block.
LEMMA AudioInit == Init => AudioInv
<1> SUFFICES ASSUME Init PROVE AudioInv
  OBVIOUS
<1>1. WorldInv /\ \A s \in Sockets : sock.actual[s] = sock.wanted[s]
  BY WorldInit
<1>2. rt = [pc |-> "idle", stack |-> <<>>, done |-> {}, src |-> NoNode]
  BY DEF Init, Idle
<1>3. rt.pc = "idle" /\ rt.stack = <<>> /\ Len(rt.stack) = 0
  BY <1>2
<1>4. ThreadInv
  BY <1>3 DEF ThreadInv, Ordered, Taken
<1>5. ASSUME NEW s \in Sockets PROVE Lost(s) /\ Settled(s) /\ Bare(s)
  <2>1. /\ patch \in Patchers /\ Ends(patch) /\ Sourced(sock, patch.links)
        /\ patch.nodes \subseteq exists
    BY <1>1 DEF WorldInv, PatchSound, Sound
  <2>2. sock.wanted[s] # NoNode => sock.wanted[s] \in exists /\ s[1] \in exists
    BY <2>1, SourcesThere
  <2> QED  BY <1>1, <2>2 DEF Lost, Settled, Bare
<1> QED  BY <1>1, <1>4, <1>5 DEF AudioInv, ReadsInv

LEMMA AudioUser ==
  ASSUME AudioInv, ParamInv, WorldInv', UserNext
  PROVE  ThreadInv' /\ ReadsInv'
<1>1. WorldInv /\ ThreadInv /\ ReadsInv /\ Refs(sock)
  BY DEF AudioInv, WorldInv, PatchSound
<1>2. ASSUME NEW S, Rewired(sock, sock', S), Connecting(sock'), UNCHANGED <<exists, rt>>
      PROVE  ThreadInv' /\ ReadsInv'
  <2> DEFINE h == sock'
  <2>1. Reconnected(sock, h, {})
    BY <1>1, <1>2, RewiredOnly
  <2>2. Torn(h)
    BY <1>2, TornGrows
  <2>3. Stays /\ {} \in SUBSET Nodes /\ exists' = exists \ {}
    BY <1>2 DEF Stays
  <2> QED  BY <1>1, <2>1, <2>2, <2>3, UserReads
<1>3. ASSUME NEW n \in Users, Delete(n) PROVE ThreadInv' /\ ReadsInv'
  <2>1. Connecting(sock') /\ rt' = rt
    BY <1>1, <1>3, WorldDelete
  <2>2. PICK X \in SUBSET Nodes : Reconnected(sock, sock', X) /\ exists' = exists \ X
    BY <1>1, <1>3, WorldDelete
  <2>3. Torn(sock') /\ Stays
    BY <2>1, TornGrows DEF Stays
  <2> QED  BY <1>1, <2>2, <2>3, UserReads
<1>4. ASSUME NEW n \in Users, NEW pos \in Places[n], Move(n, pos) PROVE ThreadInv' /\ ReadsInv'
  <2>1. UNCHANGED <<exists, sock, rt, torn>>
    BY <1>4 DEF Move
  <2> QED  BY <1>1, <2>1, ReadsSame
<1>5. ASSUME NEW n \in Users, Activate(n) PROVE ThreadInv' /\ ReadsInv'
  <2>1. UNCHANGED <<exists, sock, rt, torn>>
    BY <1>5 DEF Activate, ghosts
  <2> QED  BY <1>1, <2>1, ReadsSame
<1>6. ASSUME NEW n \in Users, Deactivate(n) PROVE ThreadInv' /\ ReadsInv'
  BY <1>1, <1>2, <1>6, WorldDeactivate
<1>7. ASSUME UpdatePatch PROVE ThreadInv' /\ ReadsInv'
  BY <1>1, <1>2, <1>7, WorldUpdate
<1> QED  BY <1>1, <1>3, <1>4, <1>5, <1>6, <1>7, AddReads DEF UserNext

LEMMA AudioRt ==
  ASSUME AudioInv, RtNext
  PROVE  ThreadInv' /\ ReadsInv'
<1>1. WorldInv /\ ThreadInv /\ ReadsInv /\ RtTyped /\ sock \in Wires
  BY DEF AudioInv, WorldInv, PatchSound
<1>2. CASE RtSockets
  <2>1. UNCHANGED <<exists, sock, torn>>
    BY <1>2 DEF RtSockets, RtIn
  <2>2. (\E i : DueMove(i)) \/ BackMove \/ OutMove
    BY <1>1, <1>2, SocketsMoves
  <2>3. CASE OutMove
    <3>1. rt'.stack = <<>> /\ rt'.done = {} /\ rt'.pc # "force"
      BY <2>3 DEF OutMove
    <3> QED  BY <1>1, <2>1, <3>1, OutReads
  <2> QED  BY <1>1, <2>1, <2>2, <2>3, DueReads, BackReads
<1>3. CASE RtBreak
  <2>1. UNCHANGED <<exists, sock, rt, torn>>
    BY <1>3 DEF RtBreak, ghosts
  <2> QED  BY <1>1, <2>1, ReadsSame
<1> QED  BY <1>1, <1>2, <1>3, BeginReads, InputsReads, LeaveReads, ForceReads, EndReads DEF RtNext

LEMMA AudioNext == AudioInv /\ ParamInv /\ [Next]_vars => AudioInv'
<1> SUFFICES ASSUME AudioInv, ParamInv, [Next]_vars PROVE AudioInv'
  OBVIOUS
<1>1. WorldInv /\ ThreadInv /\ ReadsInv
  BY DEF AudioInv
<1>2. WorldInv'
  BY <1>1, WorldNext
<1>3. CASE UNCHANGED vars
  <2>1. UNCHANGED <<exists, sock, rt, torn>>
    BY <1>3 DEF vars
  <2> QED  BY <1>1, <1>2, <2>1, ReadsSame DEF AudioInv
<1> QED  BY <1>2, <1>3, AudioUser, AudioRt DEF AudioInv, Next

LEMMA AudioSafe == Spec => [](AudioInv /\ ParamInv)
  BY AudioInit, AudioNext, ParamInit, ParamNext, PTL DEF Spec

-----------------------------------------------------------------------------
(* What follows.                                                           *)

\* The thread is inside no more nodes than there are.
LEMMA StackBounded ==
  ASSUME WorldInv, ThreadInv
  PROVE  Len(rt.stack) <= Cardinality(Nodes)
<1> DEFINE L == Len(rt.stack)
           f == [k \in 1 .. L |-> rt.stack[k].node]
<1>1. rt.stack \in Seq(Frames) /\ L \in Nat
  BY DEF WorldInv, RtTyped, Threads
<1>2. \A k \in 1 .. L : rt.stack[k].node \in Nodes
  BY <1>1 DEF Frames
<1>3. \A j, k \in 1 .. L : rt.stack[j].node = rt.stack[k].node => j = k
  BY DEF ThreadInv, Ordered
<1> HIDE DEF L
<1>4. f \in Injection(1 .. L, Nodes)
  BY <1>2, <1>3 DEF Injection, IsInjective
<1>5. Cardinality(1 .. L) <= Cardinality(Nodes)
  BY <1>4, NodesAssumption, FS_Injection
<1>6. Cardinality(1 .. L) = L
  BY <1>1, FS_Interval
<1> QED  BY <1>5, <1>6 DEF L

\* The links are of the right type.
LEMMA PatcherTyped ==
  ASSUME NEW p \in Patchers
  PROVE  PatcherTypeOK(p)
<1>1. p.nodes \subseteq Nodes /\ p.dest \in [Nodes -> Nodes \cup {NoNode}] /\ p.changed \in BOOLEAN
  BY DEF Patchers, Source
<1>2. ASSUME NEW k \in DOMAIN p.links PROVE p.links[k] \in Links
  BY <1>2 DEF Patchers
<1>3. ASSUME NEW l \in Links
      PROVE  /\ l.src \in Nodes /\ l.dest \in Nodes /\ Linkable(l.src, l.dest)
             /\ l.dist \in Nat /\ l.center \in Nat /\ l.socket \in 0 .. InCount[l.dest]
  BY <1>3 DEF Links
<1>4. \A a, b : Linkable(a, b) => Table[a, b] # NoLink
  BY Zenon DEF Linkable
<1> QED  BY <1>1, <1>2, <1>3, <1>4, Zenon DEF PatcherTypeOK

\* The types of the state.
LEMMA TypesFollow ==
  ASSUME AudioInv, ParamInv
  PROVE  TypeOK
<1>1. /\ WorldInv /\ ThreadInv /\ NodesSound /\ PatchSound /\ RtTyped /\ GhostsTyped
      /\ changes \in 0 .. MaxChanges /\ broken \in BOOLEAN
  BY DEF AudioInv, WorldInv
<1>2. /\ dying \subseteq exists /\ exists \subseteq Nodes
      /\ exists = ToSet(ids) /\ IsInjective(ids)
  BY <1>1 DEF NodesSound
<1>3. /\ param \in [Nodes -> [src : Int, dest : Int, changed : BOOLEAN]]
      /\ asked \in [Nodes -> Int]
  BY DEF ParamInv, Params
<1>4. SocketsTypeOK(sock)
  BY <1>1 DEF PatchSound, Wires, SocketsTypeOK, Source, Envelope
<1>5. PatcherTypeOK(patch)
  BY <1>1, PatcherTyped DEF PatchSound
<1>6. /\ rt.pc \in {"idle", "inputs", "sockets", "force", "delete"}
      /\ rt.done \subseteq Nodes /\ rt.src \in Nodes \cup {NoNode}
      /\ rt.stack \in Seq(Frames)
  BY <1>1 DEF RtTyped, Threads, Source
<1>7. \A k \in DOMAIN rt.stack :
          /\ rt.stack[k].node \in Nodes
          /\ rt.stack[k].input \in 0 .. InCount[rt.stack[k].node]
  BY <1>6 DEF Frames
<1>8. Len(rt.stack) <= Cardinality(Nodes)
  BY <1>1, StackBounded
<1>9. late \subseteq Users /\ torn \subseteq Sockets
  BY <1>1 DEF GhostsTyped
<1> HIDE DEF NodesSound, PatchSound, RtTyped, GhostsTyped
<1> QED  BY <1>1, <1>2, <1>3, <1>4, <1>5, <1>6, <1>7, <1>8, <1>9 DEF TypeOK

\* The patch that the patcher goes by.
LEMMA PatchFollows ==
  ASSUME WorldInv
  PROVE  PatchIsSound
<1>1. patch \in Patchers /\ SingleOut(sock) /\ Noted(sock, patch)
  BY DEF WorldInv, PatchSound, Sound
<1>2. ASSUME NEW n \in Nodes
      PROVE  Cardinality({s \in Sockets : sock.wanted[s] = n}) <= 1
  <2> DEFINE S == {s \in Sockets : sock.wanted[s] = n}
  <2>1. \A s, t \in S : s = t
    BY <1>1, NodesAssumption DEF SingleOut
  <2>2. S = {} \/ \E s : S = {s}
    BY <2>1
  <2> HIDE DEF S
  <2>3. Cardinality(S) = 0 \/ Cardinality(S) = 1
    BY <2>2, FS_EmptySet, FS_Singleton
  <2> QED  BY <2>3 DEF S
<1>3. ASSUME NEW k \in DOMAIN patch.links, IsLinked(sock, patch.links[k])
      PROVE  patch.dest[patch.links[k].src] = patch.links[k].dest
  <2>1. patch.links[k] \in ToSet(patch.links)
    BY <1>3 DEF ToSet
  <2> QED  BY <1>1, <1>3, <2>1 DEF Noted
<1> QED  BY <1>2, <1>3 DEF PatchIsSound, OneOutput, LinkedHasDest

\* What the sockets read.
LEMMA SocketsFollow ==
  ASSUME WorldInv, ReadsInv
  PROVE  SocketsAgree
<1>1. /\ patch \in Patchers /\ Ends(patch) /\ Sourced(sock, patch.links)
      /\ patch.nodes \subseteq exists
  BY DEF WorldInv, PatchSound, Sound
<1>2. ASSUME NEW s \in Sockets \ torn
      PROVE  /\ sock.pending[s] \/ sock.actual[s] = sock.wanted[s]
             /\ {sock.wanted[s], sock.actual[s]} \subseteq exists \cup {NoNode}
  <2>1. Lost(s) /\ Settled(s)
    BY DEF ReadsInv
  <2>2. sock.wanted[s] \in exists \cup {NoNode}
    BY <1>1, SourcesThere
  <2>3. sock.actual[s] \in exists \cup {NoNode}
    BY <2>1 DEF Lost
  <2>4. sock.pending[s] \/ sock.actual[s] = sock.wanted[s]
    BY <2>1 DEF Settled
  <2> QED  BY <2>2, <2>3, <2>4
<1> QED  BY <1>2 DEF SocketsAgree

\* Where the thread is.
LEMMA InUseFollows ==
  ASSUME WorldInv, ThreadInv, ReadsInv
  PROVE  NodesInUseExist
<1>1. rt.stack \in Seq(Frames)
  BY DEF WorldInv, RtTyped, Threads
<1>2. ASSUME NEW k \in 2 .. Len(rt.stack), rt.stack[k].node \notin exists
      PROVE  LET q == <<rt.stack[k - 1].node, rt.stack[k - 1].input>>
             IN  Finished(sock, q) \/ q \in torn
  <2> DEFINE q == <<rt.stack[k - 1].node, rt.stack[k - 1].input>>
  <2>1. q \in Sockets /\ (sock.actual[q] = rt.stack[k].node \/ Finished(sock, q))
    BY DEF ThreadInv, Through
  <2>2. rt.stack[k].node # NoNode
    <3>1. k \in DOMAIN rt.stack /\ rt.stack[k] \in Frames
      BY <1>1
    <3> QED  BY <3>1, NodesAssumption DEF Frames
  <2> HIDE DEF q
  <2>3. sock.actual[q] = rt.stack[k].node => Finished(sock, q)
    BY <1>2, <2>1, <2>2 DEF ReadsInv, Lost
  <2> QED  BY <2>1, <2>3 DEF q
<1> QED  BY <1>2 DEF NodesInUseExist

\* The links stay tidy, and it is update () that settles the changes.
LEMMA TidyNext ==
  ASSUME WorldInv, ParamInv, Tidy(patch.links), [Next]_vars
  PROVE  /\ Tidy(patch.links)'
         /\ patch.changed /\ ~ patch'.changed => UpdatePatch
<1>1. /\ patch \in Patchers /\ Ends(patch) /\ sock \in Wires
      /\ Sourced(sock, patch.links) /\ Noted(sock, patch)
      /\ ids \in Seq(Nodes) /\ IsInjective(ids) /\ patch.changed \in BOOLEAN
  BY DEF WorldInv, PatchSound, NodesSound, Sound, Patchers
<1>2. At \in [Nodes -> Int]
  BY PositionsKnown
<1>3. CASE patch' = patch
  BY <1>3
<1>4. ASSUME NEW n \in Users, NEW pos, Move(n, pos)
      PROVE  Tidy(patch'.links) /\ (patch.changed => patch'.changed)
  <2>1. n \in Nodes /\ patch' = SetParamNode(patch, At, n)
    BY <1>4 DEF Move, Users
  <2>2. patch.changed => patch'.changed
    BY <1>1, <2>1 DEF SetParamNode, Patchers
  <2> QED  BY <1>1, <1>2, <2>1, <2>2, SetParamNodeTidy
<1>5. ASSUME NEW n \in Users, Activate(n)
      PROVE  Tidy(patch'.links) /\ (patch.changed => patch'.changed)
  <2> DEFINE at == [At EXCEPT ![n] = ParamIn(n)[n].dest]
  <2>1. n \in Nodes /\ patch' = AddNode(patch, at, ids, n)
    BY <1>5 DEF Activate, Users
  <2>2. at \in [Nodes -> Int]
    BY <2>1, PositionsKnown
  <2> HIDE DEF at
  <2>3. Joined(patch, patch', n)
    BY <1>1, <2>1, <2>2, AddNodeEffect
  <2>4. n \in patch.nodes => patch' = patch
    BY <2>1 DEF AddNode
  <2>5. Tidy(patch'.links)
    BY <1>1, <2>1, <2>2, AddNodeTidy
  <2> QED  BY <2>3, <2>4, <2>5 DEF Joined
<1>6. ASSUME NEW n \in Users, Deactivate(n) \/ Delete(n)
      PROVE  Tidy(patch'.links) /\ (patch.changed => patch'.changed)
  <2>1. patch' = DeleteNode(patch, sock, n).p
    BY <1>6 DEF Deactivate, Delete
  <2> QED  BY <1>1, <2>1, DeleteNodeTidy
<1>7. CASE UpdatePatch
  <2>1. patch.changed /\ patch' = Update(patch, sock, At).p
    BY <1>7 DEF UpdatePatch
  <2>2. Tidy(patch'.links)
    BY <1>1, <1>2, <2>1, UpdateNearest
  <2> QED  BY <1>7, <2>2
<1>8. \A n, pos : Add(n, pos) => patch' = patch
  BY DEF Add
<1>9. RtNext => patch' = patch
  BY DEF RtNext, RtBegin, RtInputs, RtLeave, RtSockets, RtForce, RtDelete, RtBreak, RtIn
<1>10. UNCHANGED vars => patch' = patch
  BY DEF vars
<1> QED  BY <1>3, <1>4, <1>5, <1>6, <1>7, <1>8, <1>9, <1>10 DEF Next, UserNext

LEMMA NearestStep ==
  ASSUME WorldInv, ParamInv, Tidy(patch.links), [Next]_vars,
         patch.changed, ~ patch'.changed, Fresh
  PROVE  Nearest(patch'.links, {k \in DOMAIN patch'.links : IsLinked(sock', patch'.links[k])})
<1> DEFINE r == Update(patch, sock, At)
<1>1. patch' = r.p /\ sock' = r.g
  BY TidyNext DEF UpdatePatch, Connecting
<1>2. /\ patch \in Patchers /\ sock \in Wires
      /\ Sourced(sock, patch.links) /\ Noted(sock, patch)
  BY DEF WorldInv, PatchSound, Sound
<1>3. At \in [Nodes -> Int]
  BY PositionsKnown
<1>4. Telling(patch.links, At)
  BY DEF Fresh, Telling
<1>5. Nearest(r.p.links, {k \in DOMAIN r.p.links : IsLinked(r.g, r.p.links[k])})
  BY <1>2, <1>3, <1>4, UpdateNearest
<1> HIDE DEF r
<1> QED  BY <1>1, <1>5

-----------------------------------------------------------------------------
\* A position given to a node arrives, for any nodes, places and connections: the
\* only one that is lost is one given while the audio thread is between update_in
\* and update_out of the node (node_param.cpp:36-79).
THEOREM PositionsAlwaysArrive == Spec => []PositionsArrive
<1>1. ParamInv => PositionsArrive
  BY DEF ParamInv, Agrees, PositionsArrive
<1> QED  BY <1>1, ParamInit, ParamNext, PTL DEF Spec

\* The state is of its type for any nodes, places and table of the patcher; in
\* particular the audio thread is never inside a node twice, so that update goes
\* down no deeper than there are nodes, whatever the user connects meanwhile
\* (node.cpp, update_inputs).
THEOREM PatchTypes == Spec => []TypeOK
<1>1. AudioInv /\ ParamInv => TypeOK
  BY TypesFollow
<1> QED  BY <1>1, AudioSafe, PTL

\* For any nodes and table a node is the source of one socket at most, and the
\* destination noted for it is that of the link that is made: the loop of
\* update () may try the links in any order of lengths, make a link and undo
\* another one's, and begin with a patch that nodes were taken from
\* (patcher_dynamic.cpp:451-510).
THEOREM PatchAlwaysSound == Spec => []PatchIsSound
<1>1. AudioInv => PatchIsSound
  BY PatchFollows DEF AudioInv
<1> QED  BY <1>1, AudioSafe, PTL

\* For any nodes the references of an output are the sockets that read it:
\* connections of both threads and the deletion of nodes keep them, and the
\* order in which clear_connections goes through them does not matter.
THEOREM RefsAlwaysAgree == Spec => []RefsAgree
<1>1. AudioInv => RefsAgree
  BY DEF AudioInv, WorldInv, PatchSound, Refs, RefsAgree
<1> QED  BY <1>1, AudioSafe, PTL

\* For any nodes a socket reads what it was asked to read, or is about to, and no
\* node that was destroyed, unless it was asked again while the audio thread was
\* connecting it (node.cpp:286-290).
THEOREM SocketsAlwaysAgree == Spec => []SocketsAgree
<1>1. AudioInv => SocketsAgree
  BY SocketsFollow DEF AudioInv
<1> QED  BY <1>1, AudioSafe, PTL

\* For any nodes the audio thread is inside no node that is destroyed, but in the
\* first block of a connection (node_manager.cpp:90-99).
THEOREM NodesInUseAlwaysExist == Spec => []NodesInUseExist
<1>1. AudioInv => NodesInUseExist
  BY InUseFollows DEF AudioInv
<1> QED  BY <1>1, AudioSafe, PTL

\* For any nodes and places, an update of links that are measured now, no two of
\* which are as long that compete for a socket, makes the patch that was wanted,
\* whatever was connected before it: the turns of update () make and undo links
\* as they go (patcher_dynamic.cpp:451-510), find_in_sock lets a link displace
\* another from a socket, and what was decided in an earlier turn stays.  It
\* needs EntriesAssumption: a link for any input of a node could take the one that
\* another link is for, and the definition does not count the two as rivals.
THEOREM PatchAlwaysNearest == Spec => PatchIsNearest
<1> DEFINE A == patch.changed /\ ~ patch'.changed /\ Fresh
                   => Nearest(patch'.links,
                              {k \in DOMAIN patch'.links : IsLinked(sock', patch'.links[k])})
<1>1. Init => Tidy(patch.links)
  BY WorldInit
<1>2. AudioInv /\ ParamInv /\ Tidy(patch.links) /\ [Next]_vars => Tidy(patch.links)'
  BY TidyNext DEF AudioInv
<1>3. AudioInv /\ ParamInv /\ Tidy(patch.links) /\ [Next]_vars => [A]_vars
  BY NearestStep DEF AudioInv
<1>4. Spec => [](AudioInv /\ ParamInv /\ Tidy(patch.links))
  BY <1>1, <1>2, AudioSafe, PTL DEF Spec
<1>5. Spec => [][A]_vars
  BY <1>3, <1>4, PTL DEF Spec
<1> QED  BY <1>5, PTL DEF PatchIsNearest
=============================================================================
