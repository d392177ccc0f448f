---------------------------- MODULE MCProcessor ----------------------------
(* Processor with model values for threads and events. *)
EXTENDS Processor, TLC

CONSTANTS d1, t1, e1, e2, e3

(* The events are interchangeable: every action treats them alike. *)
EventSymmetry == Permutations(Event)
=============================================================================
