---------------------------- MODULE TripleBuffer ----------------------------
(***************************************************************************)
(* The multiple buffer of new_graph/triple_buffer.{hpp,tpp}: three event   *)
(* deques, and a front, a back and a local pointer into them that the flip *)
(* operations exchange.  The operators below are the pure part; who may    *)
(* call them, and under which lock, is decided in module Processor.        *)
(*                                                                         *)
(* A deque is a sequence of events.  QueueSize is how many events fit in   *)
(* the deque's memory block.                                               *)
(***************************************************************************)
EXTENDS Naturals, Sequences

CONSTANTS
  Event,      \* identities of the event objects that are ever pushed
  QueueSize   \* how many events fit in one hetero_deque

ASSUME QueueSizeAssumption == QueueSize \in Nat \ {0}

Slot == 1..3

TripleBuffers ==
  [store : [Slot -> Seq(Event)], front : Slot, back : Slot, local : Slot]

(* The deques have constant size. *)
Bounded(b) == \A s \in Slot : Len(b.store[s]) <= QueueSize

InitBuffers ==
  [store |-> [s \in Slot |-> <<>>], front |-> 1, back |-> 2, local |-> 3]

Front(b) == b.store[b.front]
Back(b)  == b.store[b.back]
Local(b) == b.store[b.local]

(* The three pointers designate three different deques. *)
Distinct(b) ==
  /\ b.front # b.back
  /\ b.front # b.local
  /\ b.back  # b.local

(* flip_back(), once the guard owns its lock. *)
FlipBack(b)  == [b EXCEPT !.back = b.front, !.front = b.back]

(* flip_local(), once the guard owns its lock. *)
FlipLocal(b) == [b EXCEPT !.local = b.front, !.front = b.local]

-----------------------------------------------------------------------------
(***************************************************************************)
(* hetero_deque::push_back, for a deque that is only ever pushed at the    *)
(* back and cleared, which is how every event deque is used.  Its first    *)
(* element is at the start of the memory block, so an element that does    *)
(* not fit at the end is constructed at the start: the test for a full     *)
(* deque, _back < _front, is false because _back = _front, and the new     *)
(* element overwrites the first one and terminates the list.  Module       *)
(* HeteroDeque derives this from the pointer arithmetic.                   *)
(***************************************************************************)
HasRoom(d)      == Len(d) < QueueSize
(* Mutant: no test for the end of the memory block. *)
DequePushUnchecked(d, e) == Append(d, e)

DequePush(d, e) == IF HasRoom(d) THEN Append(d, e) ELSE <<e>>

PushAt(b, s, e) == [b EXCEPT !.store[s] = DequePush(@, e)]

(* The events that a push into slot s of b destroys. *)
Overwritten(b, s) ==
  IF HasRoom(b.store[s]) THEN {} ELSE {b.store[s][i] : i \in 1..Len(b.store[s])}

(* The reader's loop reaches the next event of the front deque. *)
PopFront(b)   == [b EXCEPT !.store[b.front] = Tail(@)]

(* front().clear() after the loop. *)
ClearFront(b) == [b EXCEPT !.store[b.front] = <<>>]
=============================================================================
