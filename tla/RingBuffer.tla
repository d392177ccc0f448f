----------------------------- MODULE RingBuffer -----------------------------
(***************************************************************************)
(* The arithmetic of psynth::sound::ring_buffer_range_base: a ring of      *)
(* Size frames with one writer, any number of read positions, and a        *)
(* direction that may be turned.                                           *)
(*                                                                         *)
(* The source counts the frames ever written and ever read and only uses   *)
(* the difference of two counts, or compares the first one with the size   *)
(* of the buffer.  A position is therefore [pos, lag]: lag is the count of *)
(* the writer less the count of the reader, what available() returns, and  *)
(* the count of the writer stops at Size.                                  *)
(***************************************************************************)
EXTENDS Integers, Sequences

CONSTANTS Size,       \* _range.size (): frames in the ring
          NoFrame     \* what a cell holds before anything is written to it

ASSUME SizeAssumption == Size \in Nat \ {0}

Cells == 0 .. Size - 1

Least(a, b) == IF a <= b THEN a ELSE b

\* The new ring is empty, and forwards.
NewRing == [ back |-> FALSE, start |-> 0, pos |-> 0, count |-> 0,
             cell |-> [i \in Cells |-> NoFrame] ]

\* end_pos (): a reader there has nothing to read.
EndPos(ring) == [ pos |-> ring.pos, lag |-> 0 ]

\* The cell n frames from p, either way.
Moved(p, n) == (p + n) % Size

\* Where a run of n frames that begins or ends at p starts in memory.
RunStart(ring, p, n) == IF ring.back THEN Moved(p, -n) ELSE p

\* Where the position is after n frames, in the direction of the ring.
Advanced(ring, p, n) == IF ring.back THEN Moved(p, -n) ELSE Moved(p, n)

\* write_and_convert: the frames are laid out in memory order even when the
\* ring goes backwards, from the cell n before the write position.
Written(ring, frames) ==
    LET n    == Len(frames)
        from == RunStart(ring, ring.pos, n)
    IN  [ ring EXCEPT
            !.pos   = Advanced(ring, ring.pos, n),
            !.count = Least(ring.count + n, Size),
            !.cell  = [i \in Cells |-> IF (i - from) % Size < n
                                       THEN frames[((i - from) % Size) + 1]
                                       ELSE ring.cell[i]] ]

\* read_and_convert: the n frames next to the reader, in memory order, and the
\* reader after them.
FramesAt(ring, reader, n) ==
    [k \in 1 .. n |-> ring.cell[Moved(RunStart(ring, reader.pos, n), k - 1)]]

ReadOn(ring, reader, n) ==
    [ pos |-> Advanced(ring, reader.pos, n), lag |-> reader.lag - n ]

\* set_backwards: until the ring has been filled once the frames end where the
\* first one was written, and that is where the writer goes on.
TurnedRing(ring) ==
    [ ring EXCEPT !.back  = ~ring.back,
                  !.start = IF ring.count < Size THEN ring.pos ELSE ring.start,
                  !.pos   = IF ring.count < Size THEN ring.start ELSE ring.pos ]

\* sync: what a reader has before it after the ring has turned.
Synced(ring, reader) ==
    [ reader EXCEPT !.lag =   IF ring.back THEN (reader.pos - ring.pos) % Size
                                         ELSE (ring.pos - reader.pos) % Size ]

Rings(Frames) ==
    [ back: BOOLEAN, start: Cells, pos: Cells, count: 0 .. Size,
      cell: [Cells -> Frames \cup {NoFrame}] ]

Positions == [ pos: Cells, lag: 0 .. Size ]
=============================================================================
