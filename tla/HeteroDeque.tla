---------------------------- MODULE HeteroDeque ----------------------------
(***************************************************************************)
(* base/hetero_deque.{hpp,tpp}: a doubly linked list of objects of         *)
(* different sizes inside one memory block.  Memory is counted in cells of *)
(* the size of a header.  An element is a header followed by the cells of  *)
(* the object; after the last element there is a terminating header.       *)
(*                                                                         *)
(* The list in memory is real state: what the deque contains is what an    *)
(* iteration from _front finds (Content).  The operations are those of the *)
(* event deques, which are pushed at the back, read by iteration, and      *)
(* cleared; nothing pushes at the front or pops.                           *)
(***************************************************************************)
EXTENDS Integers, SequencesExt

CONSTANTS
  Element,   \* the objects that are pushed
  Width,     \* how many cells the object of an element takes
  Size,      \* the size of the memory block, one header included
  Nil,       \* the null pointer
  Body       \* a cell with bytes of an object, or that nothing has written

(* Deques are large (1 MiB) and events small: when a push wraps around,    *)
(* the last element is out of the way of the new one.                      *)
ASSUME DequeAssumption ==
  /\ Width \in [Element -> Nat \ {0}]
  /\ \A e \in Element : 3 * (1 + Width[e]) < Size
  /\ Size \in Nat \ {0}
  /\ Nil \notin 0..Size
  /\ Nil \notin Element
  /\ Body # Nil

VARIABLES
  memory,    \* _memory: a header, or part of an object, in every cell
  front,     \* _front
  back,      \* _back
  pushed,    \* history: what the last operation was asked to push
  accepted   \* history: whether it returned true

vars == <<memory, front, back, pushed, accepted>>

Cell    == 0..(Size - 1)
Pointer == Cell \cup {Nil}
Header  == [access : Element \cup {Nil}, next : Pointer, prev : Pointer]

(* A cell has a header or it has not. *)
ASSUME CellAssumption == Body \notin Header

(* header { 0, 0, prev } *)
End(prev) == [access |-> Nil, next |-> Nil, prev |-> prev]

TypeOK ==
  /\ memory \in [Cell -> Header \cup {Body}]
  /\ front \in Cell
  /\ back \in Cell
  /\ pushed \in Element \cup {Nil}
  /\ accepted \in BOOLEAN

Init ==
  /\ memory = [c \in Cell |-> IF c = 0 THEN End(Nil) ELSE Body]
  /\ front = 0
  /\ back = 0
  /\ pushed = Nil
  /\ accepted = TRUE

NonEmpty(p) == memory[p].next # Nil

(* Mutant: the size of the header is forgotten. *)
ConstructShort(m, p, e) ==
  [c \in Cell |->
     IF c = p THEN [access |-> e, next |-> p + Width[e], prev |-> Nil]
     ELSE IF c \in (p + 1)..(p + Width[e]) THEN Body
     ELSE m[c]]

(* construct (): the header and the object at p, linked to what follows. *)
Construct(m, p, e) ==
  [c \in Cell |->
     IF c = p THEN [access |-> e, next |-> p + 1 + Width[e], prev |-> Nil]
     ELSE IF c \in (p + 1)..(p + Width[e]) THEN Body
     ELSE m[c]]

Return(e, ok) == pushed' = e /\ accepted' = ok

-----------------------------------------------------------------------------
(***************************************************************************)
(* push_back ()                                                            *)
(***************************************************************************)
(* Mutant: the end of the memory block is not looked at. *)
BackPlaceNoWrap(e) == IF NonEmpty(back) THEN memory[back].next ELSE back

(* Mutant: wraps although the element fits exactly. *)
BackPlaceEarly(e) ==
  LET next == memory[back].next IN
  IF ~NonEmpty(back) THEN back
  ELSE IF front < next /\ 2 + Width[e] >= Size - next THEN 0
  ELSE next

(* Where the new element goes: behind the last one, or, if it does not fit *)
(* there together with a terminating header, at the start of the block.    *)
BackPlace(e) ==
  LET next == memory[back].next IN
  IF ~NonEmpty(back) THEN back
  ELSE IF front < next /\ 2 + Width[e] > Size - next THEN 0
  ELSE next

BackFits(e) ==
  IF NonEmpty(back)
    THEN ~(BackPlace(e) < front /\ front - BackPlace(e) < 2 + Width[e])
    ELSE 2 + Width[e] <= Size

PushBack(e) ==
  LET p == BackPlace(e)
      q == p + 1 + Width[e]
      m == [Construct(memory, p, e) EXCEPT ![q] = End(p)]
  IN
  /\ IF BackFits(e)
       THEN /\ memory' = IF p = back THEN m
                         ELSE [m EXCEPT ![p].prev = back, ![back].next = p]
            /\ back' = p
       ELSE UNCHANGED <<memory, back>>
  /\ UNCHANGED front
  /\ Return(e, BackFits(e))

-----------------------------------------------------------------------------
(* Mutant: _back is not reset. *)
ClearKeepsBack ==
  /\ front' = 0
  /\ UNCHANGED back
  /\ memory' = [memory EXCEPT ![0] = End(Nil)]
  /\ Return(Nil, TRUE)

(* The destructors of the elements, and the initial pointers and header.   *)
Clear ==
  /\ front' = 0
  /\ back' = 0
  /\ memory' = [memory EXCEPT ![0] = End(Nil)]
  /\ Return(Nil, TRUE)

-----------------------------------------------------------------------------
Next == (\E e \in Element : PushBack(e)) \/ Clear

Spec == Init /\ [][Next]_vars

-----------------------------------------------------------------------------
(* begin () to end (): the elements from p on.  No list is longer than the *)
(* block, which bounds the iteration if the links are ever a cycle.        *)
Walk(m, p) ==
  LET walk[n \in 0..Size] ==
        [c \in Pointer |->
           IF n = 0 \/ c = Nil \/ m[c] = Body \/ m[c].access = Nil THEN <<>>
           ELSE <<m[c].access>> \o walk[n - 1][m[c].next]]
  IN walk[Size][p]

Content == Walk(memory, front)

(* The cells of a list without its terminating header. *)
Taken(d) ==
  LET cells[i \in 0..Len(d)] == IF i = 0 THEN 0 ELSE cells[i - 1] + 1 + Width[d[i]]
  IN cells[Len(d)]

(* How many elements of width w fit in the block. *)
Capacity(w) == (Size - 1) \div (1 + w)

EventDeque(w) == INSTANCE TripleBuffer WITH Event <- Element, QueueSize <- Capacity(w)

SameWidth(d, e) == \A i \in 1..Len(d) : Width[d[i]] = Width[e]

(* The pointer arithmetic of push_back (), for an event deque, amounts to   *)
(* TripleBuffer's DequePush as long as the events have one size: the list  *)
(* in memory gets the event at its end, or, when the block is full, the    *)
(* event is all that is left of it.                                        *)
PushesLikeDequePush ==
  [][pushed' # Nil /\ accepted' /\ SameWidth(Content, pushed') =>
       Content' = EventDeque(Width[pushed'])!DequePush(Content, pushed')]_vars

(* For events of different sizes too, a push adds the event to the list if *)
(* there is space behind the last one, and else is all that is left.       *)
PushesBySpace ==
  [][pushed' # Nil =>
       /\ accepted'
       /\ Content' = IF Taken(Content) + 2 + Width[pushed'] <= Size
                       THEN Append(Content, pushed') ELSE <<pushed'>>]_vars

(* The two pointers and the links agree: back is what an iteration from    *)
(* front finds last, also after the list has wrapped around.               *)
LinksAreSound ==
  /\ front = 0
  /\ NonEmpty(front) <=> NonEmpty(back)
  /\ NonEmpty(back) => Content # <<>> /\ memory[back].access = Content[Len(Content)]

(* A push that returns true adds the element at the end and leaves the     *)
(* others alone.                                                           *)
PushKeepsTheOthers ==
  [][pushed' # Nil /\ accepted' => Content' = Append(Content, pushed')]_vars
=============================================================================
