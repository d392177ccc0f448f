----------------------------- MODULE EventLanes -----------------------------
(***************************************************************************)
(* What the event passing system of the processor promises, with no        *)
(* buffers, locks or threads: a set of lanes, one per (sender, executor)   *)
(* pair that the process contexts distinguish, each of them a first in     *)
(* first out queue whose events are executed exactly once.                 *)
(*                                                                         *)
(* The only way an event is lost is an overflow: the reader keeps a prefix *)
(* of the lane (what it has already taken), and at least one whole deque   *)
(* of events behind that prefix is replaced by the event being pushed.     *)
(***************************************************************************)
EXTENDS Naturals, Sequences

CONSTANTS Lane, Event, QueueSize

VARIABLES
  pending,   \* for every lane, the events accepted and not yet executed
  done       \* the events that were executed

vars == <<pending, done>>

Pending(l) == {pending[l][i] : i \in 1..Len(pending[l])}

Fresh(e) == e \notin done /\ \A l \in Lane : e \notin Pending(l)

Init ==
  /\ pending = [l \in Lane |-> <<>>]
  /\ done = {}

Accept(l, e) ==
  /\ Fresh(e)
  /\ pending' = [pending EXCEPT ![l] = Append(@, e)]
  /\ UNCHANGED done

Overflow(l, e) ==
  /\ Fresh(e)
  /\ Len(pending[l]) >= QueueSize
  /\ \E k \in 0..(Len(pending[l]) - QueueSize) :
       pending' = [pending EXCEPT ![l] = SubSeq(@, 1, k) \o <<e>>]
  /\ UNCHANGED done

Execute(l) ==
  /\ pending[l] # <<>>
  /\ done' = done \cup {Head(pending[l])}
  /\ pending' = [pending EXCEPT ![l] = Tail(@)]

Next ==
  \E l \in Lane :
    \/ \E e \in Event : Accept(l, e) \/ Overflow(l, e)
    \/ Execute(l)

Spec == Init /\ [][Next]_vars
=============================================================================
