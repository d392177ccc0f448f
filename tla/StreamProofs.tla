----------------------------- MODULE StreamProofs -----------------------------
(***************************************************************************)
(* Proofs about CachingInput, for any size of the ring and of the blocks,  *)
(* any files, and any number of changes of file and direction: StreamInv   *)
(* is about types and the room in the ring, OrderInv about what frames are *)
(* in it.                                                                  *)
(***************************************************************************)
EXTENDS CachingInput, TLAPS

\* What the assumptions say of each constant.
LEMMA Constants ==
    /\ Size \in Nat /\ Size > 0 /\ Threshold \in Nat /\ Threshold > 0
    /\ Threshold < Size /\ Threshold + Threshold <= Size /\ ChunkSize \in Nat
    /\ \A l \in Lengths : l \in Nat /\ l > Threshold
    /\ TakeSizes \subseteq Nat \ {0} /\ MaxFiles \in Nat /\ MaxTurns \in Nat
  BY CachingAssumption, SizeAssumption

-----------------------------------------------------------------------------
(* The ring.                                                               *)

\* A remainder is a cell, and a count of frames.
LEMMA InRing == \A a \in Int : a % Size \in Cells /\ a % Size \in 0 .. Size
<1>1. Size \in Nat /\ Size > 0
  BY SizeAssumption
<1>2. \A a \in Int : a % Size \in 0 .. Size - 1
  BY <1>1
<1> QED  BY <1>1, <1>2 DEF Cells

\* Cells are numbers, and there is one.
LEMMA CellsInt == Cells \subseteq Nat /\ 0 \in Cells
  BY SizeAssumption DEF Cells

\* A position stays in the ring, whichever way it goes.
LEMMA Steps ==
  ASSUME NEW p \in Cells, NEW n \in Nat
  PROVE  /\ Moved(p, n) \in Cells /\ Moved(p, -n) \in Cells
         /\ \A r : Advanced(r, p, n) \in Cells /\ RunStart(r, p, n) \in Cells
<1>1. p + n \in Int /\ p + (-n) \in Int
  BY CellsInt
<1>2. Moved(p, n) \in Cells /\ Moved(p, -n) \in Cells
  BY <1>1, InRing DEF Moved
<1> QED  BY <1>2 DEF Advanced, RunStart

\* Writing keeps the ring a ring.
LEMMA WrittenRing ==
  ASSUME NEW r \in Rings(Frames), NEW f \in Seq(Frames)
  PROVE  Written(r, f) \in Rings(Frames)
<1> DEFINE n == Len(f)
           from == RunStart(r, r.pos, n)
           cell == [i \in Cells |-> IF (i - from) % Size < n THEN f[((i - from) % Size) + 1]
                                    ELSE r.cell[i]]
<1>1. n \in Nat /\ r.pos \in Cells /\ r.count \in 0 .. Size
  BY DEF Rings
<1>2. from \in Cells /\ Advanced(r, r.pos, n) \in Cells
  BY <1>1, Steps
<1>3. Least(r.count + n, Size) \in 0 .. Size
  BY <1>1, SizeAssumption DEF Least
<1> HIDE DEF from
<1>4. ASSUME NEW i \in Cells PROVE cell[i] \in Frames \cup {NoFrame}
  <2> DEFINE k == (i - from) % Size
  <2>1. i - from \in Int
    BY <1>2, CellsInt
  <2>2. k \in 0 .. Size - 1
    BY <2>1, InRing DEF Cells
  <2> HIDE DEF k
  <2>3. CASE k < n
    <3>1. k + 1 \in 1 .. Len(f)
      BY <2>2, <2>3, <1>1
    <3>2. f[k + 1] \in Frames
      BY <3>1
    <3> QED  BY <2>3, <3>2 DEF k
  <2>4. CASE ~ (k < n)
    BY <2>4 DEF k, Rings
  <2> QED  BY <2>3, <2>4
<1>5. cell \in [Cells -> Frames \cup {NoFrame}]
  BY <1>4
<1> HIDE DEF cell, n
<1>6. Written(r, f) = [r EXCEPT !.pos = Advanced(r, r.pos, n),
                                !.count = Least(r.count + n, Size), !.cell = cell]
  BY DEF Written, cell, n, from
<1> QED  BY <1>2, <1>3, <1>5, <1>6 DEF Rings

\* Turning keeps the ring a ring, and a position in it.
LEMMA TurnedIsRing ==
  ASSUME NEW r \in Rings(Frames), NEW p, p.pos \in Cells,
         p \in [pos : Cells, lag : 0 .. Size + Threshold]
  PROVE  /\ TurnedRing(r) \in Rings(Frames)
         /\ Synced(TurnedRing(r), p) \in [pos : Cells, lag : 0 .. Size + Threshold]
         /\ Synced(TurnedRing(r), p).lag \in 0 .. Size - 1
         /\ Synced(TurnedRing(r), p).pos = p.pos
<1>1. TurnedRing(r) \in Rings(Frames)
  BY DEF TurnedRing, Rings
<1> DEFINE t == TurnedRing(r)
<1>2. t.pos \in Cells
  BY <1>1 DEF Rings
<1> HIDE DEF t
<1>3. (p.pos - t.pos) % Size \in 0 .. Size - 1 /\ (t.pos - p.pos) % Size \in 0 .. Size - 1
  <2>1. p.pos \in Nat /\ t.pos \in Nat
    BY <1>2, CellsInt
  <2>2. p.pos - t.pos \in Int /\ t.pos - p.pos \in Int
    BY <2>1
  <2> QED  BY <2>2, InRing DEF Cells
<1>4. 0 .. Size - 1 \subseteq 0 .. Size + Threshold
  BY Constants
<1>5. \A l \in 0 .. Size - 1 :
         /\ [p EXCEPT !.lag = l] \in [pos : Cells, lag : 0 .. Size + Threshold]
         /\ [p EXCEPT !.lag = l].lag = l /\ [p EXCEPT !.lag = l].pos = p.pos
  BY <1>4
<1>6. \E l \in 0 .. Size - 1 : Synced(t, p) = [p EXCEPT !.lag = l]
  BY <1>3 DEF Synced
<1> QED  BY <1>1, <1>5, <1>6 DEF t

-----------------------------------------------------------------------------
(* The invariant.                                                          *)

FileType ==
    /\ input \in Lengths \cup {NoInput}
    /\ filePos \in Nat /\ readPos \in Int /\ newReadPos \in Int

RingType == ring \in Rings(Frames) /\ reader \in [pos : Cells, lag : 0 .. Size + Threshold]

TmpType == tmp \in Seq(Frames) /\ Len(tmp) <= Threshold

PcType ==
    /\ finished \in BOOLEAN
    /\ rpc \in {"none", "read", "write", "test", "towait", "waiting", "outer",
                "ended", "broken"}
    /\ tpc \in {"idle", "take", "waiting"} /\ want \in TakeSizes \cup {0}
    /\ tpc = "take" => want \in TakeSizes
    /\ tpc = "waiting" => want \in TakeSizes
    /\ owner \in {"new", "alive", "notify", "join", "gone"}
    /\ files \in 0 .. MaxFiles /\ turns \in 0 .. MaxTurns

HeardType == heard \in Seq(Frames \cup {NoFrame})

HistoryType ==
    gap \in BOOLEAN /\ steady \in BOOLEAN /\ starved \in BOOLEAN /\ raced \in BOOLEAN
    /\ missed \in BOOLEAN

\* The reader is past its test, and will write what it reads.
Committed == rpc \in {"read", "write"} \/ (rpc = "outer" /\ ~ finished)

\* There is room for a block when the reader is past its test, and the ring is
\* never overrun, unless the direction has changed in between.  Then there is
\* room for the count of the reader, since a second block is tested for.
Room ==
    /\ Committed => reader.lag <= Size
    /\ ~ raced => reader.lag <= Size
    /\ ~ raced /\ Committed => reader.lag + Threshold <= Size
    /\ owner = "new" => rpc = "none" /\ reader.lag = 0

StreamInv == FileType /\ RingType /\ TmpType /\ PcType /\ HeardType /\ HistoryType /\ Room

\* The invariant implies the properties.
LEMMA StreamProperties == StreamInv => TypeOK /\ NothingOverwritten
<1> SUFFICES ASSUME StreamInv PROVE TypeOK /\ NothingOverwritten
  OBVIOUS
<1>1. {gap, steady, starved, raced, missed} \subseteq BOOLEAN
  BY DEF StreamInv, HistoryType
<1>2. TypeOK
  BY <1>1 DEF StreamInv, FileType, RingType, TmpType, PcType, HeardType, TypeOK
<1>3. NothingOverwritten
  <2>1. reader.lag \in 0 .. Size + Threshold
    BY DEF StreamInv, RingType
  <2>2. ~ raced => reader.lag <= Size
    BY DEF StreamInv, Room
  <2> QED  BY <2>1, <2>2, Constants DEF NothingOverwritten
<1> QED  BY <1>2, <1>3

\* The input is created without a file.
LEMMA StreamInit == Init => StreamInv
<1> SUFFICES ASSUME Init PROVE StreamInv
  OBVIOUS
<1>1. FileType
  BY DEF Init, FileType
<1>2. RingType
  <2>1. NewRing \in Rings(Frames)
    BY CellsInt, Constants DEF NewRing, Rings
  <2>2. EndPos(NewRing) = [pos |-> 0, lag |-> 0]
    BY DEF EndPos, NewRing
  <2>3. 0 \in 0 .. Size + Threshold
    BY Constants
  <2> QED  BY <2>1, <2>2, <2>3, CellsInt DEF Init, RingType
<1>3. TmpType /\ HeardType
  BY Constants DEF Init, TmpType, HeardType
<1>4. PcType
  BY Constants DEF Init, PcType
<1>5. HistoryType
  BY DEF Init, HistoryType
<1>6. Room
  BY Constants DEF Init, Room, Committed, EndPos, NewRing
<1> QED  BY <1>1, <1>2, <1>3, <1>4, <1>5, <1>6 DEF StreamInv

\* Waking the other thread.
LEMMA Woken ==
  ASSUME PcType, HistoryType, WakeReader, reader'.lag \in Int, reader'.lag <= reader.lag,
         RingType, Room, UNCHANGED <<finished, owner, raced>>,
         owner = "new" => reader'.lag = 0
  PROVE  Room' /\ starved' \in BOOLEAN /\ rpc' \in {rpc, "test"}
<1>1. /\ rpc' = IF rpc = "waiting" THEN "test" ELSE rpc
      /\ starved' = (starved /\ rpc # "waiting")
  BY DEF WakeReader
<1>2. reader.lag \in Int
  BY DEF RingType
<1>3. Committed' => Committed
  BY <1>1 DEF Committed
<1>4. Room'
  BY <1>1, <1>2, <1>3, Constants DEF Room
<1> QED  BY <1>1, <1>4 DEF HistoryType

-----------------------------------------------------------------------------
(* The reader thread.                                                      *)

\* Positions and blocks stay within the file, or the thread is lost.
LEMMA StreamRead ==
  ASSUME StreamInv, ReadBlock
  PROVE  StreamInv'
<1>1. /\ rpc = "read" /\ rpc' \in {"read", "write", "test", "broken"}
      /\ UNCHANGED <<input, ring, reader, finished, tpc, want, heard, gap, owner, files, turns,
                     steady, starved, raced, missed>>
  BY DEF ReadBlock, sampler, bounds
<1>2. FileType' /\ TmpType'
  <2>1. CASE input = NoInput
    <3>1. tmp' = <<>> /\ UNCHANGED <<filePos, readPos, newReadPos>>
      BY <2>1 DEF ReadBlock, position
    <3> QED  BY <1>1, <3>1, Constants DEF StreamInv, FileType, TmpType
  <2>2. CASE input # NoInput /\ (BlockPos < 0 \/ BlockSize < 0)
    <3>1. UNCHANGED <<tmp, filePos, readPos, newReadPos>>
      BY <2>2 DEF ReadBlock, position
    <3> QED  BY <1>1, <3>1 DEF StreamInv, FileType, TmpType
  <2>3. CASE input # NoInput /\ ~ (BlockPos < 0 \/ BlockSize < 0)
    <3> DEFINE from == IF BlockPos # readPos THEN BlockPos ELSE filePos
               nread == IF from < input THEN Least(BlockSize, input - from) ELSE 0
    <3>1. input \in Nat /\ input > 0 /\ input \in Lengths
      BY <2>3, Constants DEF StreamInv, FileType, NoInput
    <3>2. BlockStart \in Int /\ readPos \in Int /\ filePos \in Nat /\ newReadPos \in Int
      BY <3>1, Constants DEF StreamInv, FileType, BlockStart
    <3>3. BlockPos \in Nat
      BY <2>3, <3>1, <3>2 DEF BlockPos
    <3>4. BlockSize \in 0 .. Threshold
      BY <2>3, <3>2, Constants DEF BlockSize
    <3> HIDE DEF from
    <3>5. from \in Nat
      BY <3>2, <3>3 DEF from
    <3>6. nread \in 0 .. Threshold /\ (nread > 0 => from + nread <= input)
      BY <3>1, <3>4, <3>5, Constants DEF Least
    <3>7. /\ tmp' = [k \in 1 .. nread |-> <<input, from + k - 1>>]
          /\ filePos' = from + nread
          /\ readPos' = IF backwards THEN BlockPos ELSE BlockPos + nread
          /\ newReadPos' = IF ~ backwards /\ nread = 0 THEN 0 ELSE readPos'
      BY <2>3 DEF ReadBlock, from
    <3> HIDE DEF nread
    <3>8. \A k \in 1 .. nread : <<input, from + k - 1>> \in Frames
      <4> SUFFICES ASSUME NEW k \in 1 .. nread PROVE <<input, from + k - 1>> \in Frames
        OBVIOUS
      <4>1. from + k - 1 \in 0 .. input - 1
        BY <3>1, <3>5, <3>6
      <4>2. <<input, from + k - 1>> \in {<<input, i>> : i \in 0 .. input - 1}
        BY <4>1
      <4> QED  BY <3>1, <4>2 DEF Frames
    <3>9. tmp' \in Seq(Frames) /\ Len(tmp') = nread
      BY <3>6, <3>7, <3>8
    <3>10. FileType'
      BY <1>1, <3>1, <3>3, <3>5, <3>6, <3>7 DEF FileType
    <3> QED  BY <3>6, <3>9, <3>10, Constants DEF TmpType
  <2> QED  BY <2>1, <2>2, <2>3
<1>3. RingType' /\ HeardType' /\ HistoryType' /\ PcType'
  BY <1>1 DEF StreamInv, RingType, HeardType, HistoryType, PcType
<1>4. Room'
  BY <1>1 DEF StreamInv, Room, Committed
<1> QED  BY <1>2, <1>3, <1>4 DEF StreamInv

\* The block fits, since the test has left room for it.
LEMMA StreamWrite ==
  ASSUME StreamInv, WriteBlock
  PROVE  StreamInv'
<1>1. /\ rpc = "write" /\ rpc' = "test" /\ tmp' = <<>>
      /\ ring' = Written(ring, tmp) /\ reader' = [reader EXCEPT !.lag = @ + Len(tmp)]
      /\ tpc' \in {tpc, "take"} /\ (tpc' # tpc => tpc = "waiting")
      /\ UNCHANGED <<input, filePos, readPos, newReadPos, finished, want, heard, gap, owner,
                     files, turns, steady, starved, raced, missed>>
  BY DEF WriteBlock, Writing, WakeTaker, position, bounds
<1>2. Len(tmp) \in Nat /\ Len(tmp) <= Threshold /\ reader.lag \in Nat
  BY DEF StreamInv, TmpType, RingType
<1>3. reader.lag <= Size /\ (~ raced => reader.lag + Threshold <= Size)
  BY <1>1 DEF StreamInv, Room, Committed
<1>4. reader'.lag = reader.lag + Len(tmp) /\ reader' \in [pos : Cells, lag : 0 .. Size + Threshold]
  <2>1. reader.lag + Len(tmp) \in 0 .. Size + Threshold
    BY <1>2, <1>3, Constants
  <2> QED  BY <1>1, <2>1 DEF StreamInv, RingType
<1>5. RingType'
  BY <1>1, <1>4, WrittenRing DEF StreamInv, RingType, TmpType
<1>6. FileType' /\ TmpType' /\ HeardType' /\ HistoryType' /\ PcType'
  BY <1>1, Constants DEF StreamInv, FileType, TmpType, HeardType, HistoryType, PcType
<1>7. Room'
  BY <1>1, <1>2, <1>3, <1>4, Constants DEF StreamInv, Room, Committed
<1> QED  BY <1>5, <1>6, <1>7 DEF StreamInv

\* The test, the sleep and the end of the loop.
LEMMA StreamTests ==
  ASSUME StreamInv, TestRoom \/ Sleep \/ TestFinished
  PROVE  StreamInv'
<1>1. UNCHANGED <<input, filePos, readPos, newReadPos, ring, reader, tmp, finished, tpc, want,
                  heard, gap, owner, files, turns, steady, starved, raced, missed>>
  BY DEF TestRoom, Sleep, TestFinished, position, sampler, bounds
<1>2. rpc # "none" /\ rpc' \in {"towait", "outer", "waiting", "ended", "read"}
  BY DEF TestRoom, Sleep, TestFinished
<1>3. reader.lag \in Int
  BY DEF StreamInv, RingType
<1>4. Committed' => Committed \/ reader.lag <= Threshold
  BY <1>1, <1>3, Constants DEF TestRoom, Sleep, TestFinished, MustWait, Committed, StreamInv, PcType
<1>5. Room'
  BY <1>1, <1>2, <1>3, <1>4, Constants DEF StreamInv, Room
<1>6. FileType' /\ RingType' /\ TmpType' /\ HeardType' /\ HistoryType' /\ PcType'
  BY <1>1, <1>2 DEF StreamInv, FileType, RingType, TmpType, HeardType, HistoryType, PcType
<1> QED  BY <1>5, <1>6 DEF StreamInv

-----------------------------------------------------------------------------
(* The audio thread.                                                       *)

\* A restart empties the ring.
LEMMA StreamSeek ==
  ASSUME StreamInv, Seek
  PROVE  StreamInv'
<1>1. /\ owner = "alive" /\ WakeReader /\ filePos' = 0 /\ readPos' = 0 /\ gap' = TRUE
      /\ reader' = EndPos(ring)
      /\ UNCHANGED <<input, newReadPos, ring, tmp, finished, tpc, want, heard, owner, files,
                     turns, steady, raced, missed>>
  BY DEF Seek, Playing, bounds
<1>2. /\ reader' = [pos |-> ring.pos, lag |-> 0] /\ ring.pos \in Cells
  BY <1>1 DEF EndPos, StreamInv, RingType, Rings
<1>3. RingType'
  BY <1>1, <1>2, Constants DEF StreamInv, RingType
<1>4. Room' /\ starved' \in BOOLEAN /\ rpc' \in {rpc, "test"}
  BY <1>1, <1>2, Woken DEF StreamInv, RingType
<1>5. FileType' /\ TmpType' /\ HeardType' /\ HistoryType' /\ PcType'
  BY <1>1, <1>4 DEF StreamInv, FileType, TmpType, HeardType, HistoryType, PcType
<1> QED  BY <1>3, <1>4, <1>5 DEF StreamInv

\* Turning under a reader that is past its test is what raced remembers.
LEMMA StreamTurn ==
  ASSUME StreamInv, Turn
  PROVE  StreamInv'
<1>1. /\ owner = "alive" /\ turns < MaxTurns /\ turns' = turns + 1
      /\ ring' = TurnedRing(ring) /\ reader' = Synced(ring', reader)
      /\ UNCHANGED <<input, filePos, readPos, tmp, finished, rpc, tpc, want, heard, gap, owner,
                     files, missed>>
  BY DEF Turn, Playing, sampler
<1>2. RingType' /\ reader'.lag \in 0 .. Size - 1
  BY <1>1, TurnedIsRing DEF StreamInv, RingType
<1>3. reader.lag \in Int /\ reader'.lag \in Int /\ ring'.back \in BOOLEAN
  BY <1>2 DEF StreamInv, RingType, Rings
<1>4. FileType'
  <2>1. readPos + reader'.lag - reader.lag \in Int
    BY <1>3 DEF StreamInv, FileType
  <2>2. newReadPos' \in Int
    BY <1>3, <2>1, Constants DEF Turn, StreamInv, FileType
  <2> QED  BY <1>1, <2>2 DEF StreamInv, FileType
<1>5. /\ raced' = (raced \/ (rpc \in {"outer", "read", "write"} /\ reader'.lag + Threshold > Size))
      /\ steady' \in BOOLEAN /\ starved' \in BOOLEAN
  BY DEF Turn, StreamInv, HistoryType
<1>6. HistoryType'
  BY <1>1, <1>5 DEF StreamInv, HistoryType
<1>7. TmpType' /\ HeardType' /\ PcType'
  BY <1>1, Constants DEF StreamInv, TmpType, HeardType, PcType
<1>8. Room'
  <2>1. reader'.lag <= Size
    BY <1>2, Constants
  <2>2. ~ raced' => ~ (rpc \in {"outer", "read", "write"} /\ reader'.lag + Threshold > Size)
    BY <1>5
  <2>3. ~ raced' /\ Committed' => reader'.lag + Threshold <= Size
    <3>1. Committed' => rpc \in {"outer", "read", "write"}
      BY <1>1 DEF Committed
    <3> QED  BY <1>3, <2>2, <3>1, Constants
  <2> QED  BY <1>1, <2>1, <2>3 DEF Room
<1> QED  BY <1>2, <1>4, <1>6, <1>7, <1>8 DEF StreamInv

\* Frames of the ring are played.
LEMMA StreamTake ==
  ASSUME StreamInv, TakeFrames
  PROVE  StreamInv'
<1> DEFINE n == Least(want, reader.lag)
<1>1. /\ tpc = "take" /\ reader.lag > 0 /\ reader' = ReadOn(ring, reader, n)
      /\ (WakeReader \/ UNCHANGED <<rpc, starved>>)
      /\ heard' = IF ~ steady THEN <<>>
                  ELSE IF backwards THEN [k \in 1 .. n |-> FramesAt(ring, reader, n)[n + 1 - k]]
                  ELSE FramesAt(ring, reader, n)
      /\ gap' = FALSE /\ tpc' = "idle" /\ want' = 0
      /\ UNCHANGED <<input, filePos, readPos, newReadPos, ring, tmp, finished, owner, files,
                     turns, steady, raced, missed>>
  BY DEF TakeFrames, Taking, position, bounds
<1>2. reader.lag \in Nat /\ reader.pos \in Cells /\ want \in Nat
  BY <1>1, Constants DEF StreamInv, RingType, PcType
<1>3. n \in Nat /\ n <= reader.lag
  BY <1>2 DEF Least
<1> HIDE DEF n
<1>4. Advanced(ring, reader.pos, n) \in Cells /\ RunStart(ring, reader.pos, n) \in Cells
  BY <1>2, <1>3, Steps
<1>5. RingType' /\ reader'.lag = reader.lag - n
  BY <1>1, <1>2, <1>3, <1>4, Constants DEF StreamInv, RingType, ReadOn
<1>6. HeardType'
  <2> DEFINE from == RunStart(ring, reader.pos, n)
             got == FramesAt(ring, reader, n)
  <2>1. ASSUME NEW k \in 1 .. n PROVE got[k] \in Frames \cup {NoFrame}
    <3>1. k - 1 \in Nat
      BY <1>3
    <3>2. Moved(from, k - 1) \in Cells
      BY <1>4, <3>1, Steps
    <3> QED  BY <3>2 DEF FramesAt, StreamInv, RingType, Rings
  <2>2. got = [k \in 1 .. n |-> got[k]]
    BY DEF FramesAt
  <2> HIDE DEF got
  <2>3. got \in Seq(Frames \cup {NoFrame})
    BY <1>3, <2>1, <2>2
  <2>4. [k \in 1 .. n |-> got[n + 1 - k]] \in Seq(Frames \cup {NoFrame})
    <3>1. \A k \in 1 .. n : n + 1 - k \in 1 .. n
      BY <1>3
    <3> QED  BY <1>3, <2>1, <3>1
  <2> QED  BY <1>1, <2>3, <2>4 DEF HeardType, got
<1>7. Room' /\ starved' \in BOOLEAN /\ rpc' \in {rpc, "test"}
  <2>1. CASE WakeReader
    <3>1. owner # "new"
      BY <1>1, <1>2 DEF StreamInv, Room
    <3> QED  BY <1>1, <1>2, <1>3, <1>5, <2>1, <3>1, Woken DEF StreamInv
  <2>2. CASE UNCHANGED <<rpc, starved>>
    BY <1>1, <1>2, <1>3, <1>5, <2>2, Constants DEF StreamInv, Room, Committed, HistoryType
  <2> QED  BY <1>1, <2>1, <2>2
<1>8. FileType' /\ TmpType' /\ HistoryType' /\ PcType'
  BY <1>1, <1>7 DEF StreamInv, FileType, TmpType, HistoryType, PcType
<1> QED  BY <1>5, <1>6, <1>7, <1>8 DEF StreamInv

\* The audio thread asks and waits.
LEMMA StreamWaits ==
  ASSUME StreamInv, TakeWait \/ \E n \in TakeSizes : StartTake(n)
  PROVE  StreamInv'
<1>1. /\ tpc' \in {"take", "waiting"} /\ want' \in TakeSizes
      /\ UNCHANGED <<input, filePos, readPos, newReadPos, ring, reader, tmp, finished, rpc, heard,
                     gap, owner, files, turns, steady, starved, raced, missed>>
  BY DEF TakeWait, StartTake, position, bounds, StreamInv, PcType
<1>2. FileType' /\ RingType' /\ TmpType' /\ HeardType' /\ HistoryType' /\ PcType'
  BY <1>1 DEF StreamInv, FileType, RingType, TmpType, HeardType, HistoryType, PcType
<1>3. Room'
  BY <1>1 DEF StreamInv, Room, Committed
<1> QED  BY <1>2, <1>3 DEF StreamInv

-----------------------------------------------------------------------------
(* The owner.                                                              *)

\* A file is opened.
LEMMA StreamSetInput ==
  ASSUME StreamInv, NEW l \in Lengths, SetInput(l)
  PROVE  StreamInv'
<1>1. /\ owner = "alive" /\ WakeReader /\ input' = l /\ filePos' = 0
      /\ files < MaxFiles /\ files' = files + 1 /\ steady' = (steady /\ input = NoInput)
      /\ UNCHANGED <<readPos, newReadPos, ring, reader, tmp, finished, tpc, want, heard, gap,
                     owner, turns, raced, missed>>
  BY DEF SetInput, sampler
<1>2. reader.lag \in Int /\ reader' = reader
  BY <1>1 DEF StreamInv, RingType
<1>3. Room' /\ starved' \in BOOLEAN /\ rpc' \in {rpc, "test"}
  BY <1>1, <1>2, Woken DEF StreamInv
<1>4. FileType' /\ RingType' /\ TmpType' /\ HeardType' /\ HistoryType' /\ PcType'
  BY <1>1, <1>3, Constants DEF StreamInv, FileType, RingType, TmpType, HeardType, HistoryType,
     PcType
<1> QED  BY <1>3, <1>4 DEF StreamInv

\* The reader starts.
LEMMA StreamStart ==
  ASSUME StreamInv, Start
  PROVE  StreamInv'
<1>1. /\ owner = "new" /\ owner' = "alive" /\ finished' = FALSE /\ rpc' = "read"
      /\ UNCHANGED <<input, filePos, readPos, newReadPos, ring, reader, tmp, tpc, want, heard,
                     gap, files, turns, steady, starved, raced, missed>>
  BY DEF Start, position, sampler, bounds
<1>2. FileType' /\ RingType' /\ TmpType' /\ HeardType' /\ HistoryType' /\ PcType'
  BY <1>1 DEF StreamInv, FileType, RingType, TmpType, HeardType, HistoryType, PcType
<1>3. Room'
  BY <1>1, Constants DEF StreamInv, Room, Committed
<1> QED  BY <1>2, <1>3 DEF StreamInv

\* stop () and the end of the thread.
LEMMA StreamStop ==
  ASSUME StreamInv, StopFlag \/ StopNotify \/ Join
  PROVE  StreamInv'
<1>1. /\ owner # "new" /\ owner' \in {"notify", "join", "gone"}
      /\ UNCHANGED <<input, filePos, readPos, newReadPos, ring, reader, tmp, tpc, want, heard,
                     gap, files, turns, steady, raced>>
  BY DEF StopFlag, StopNotify, Notifying, Join, position, sampler, bounds
<1>2. /\ finished' \in BOOLEAN /\ starved' \in BOOLEAN /\ missed' \in BOOLEAN
      /\ rpc' \in {rpc, "test", "none"} /\ (Committed' => Committed)
  BY DEF StopFlag, StopNotify, Notifying, WakeReader, Join, StreamInv, PcType, HistoryType, Committed
<1>3. FileType' /\ RingType' /\ TmpType' /\ HeardType' /\ HistoryType' /\ PcType'
  BY <1>1, <1>2 DEF StreamInv, FileType, RingType, TmpType, HeardType, HistoryType, PcType
<1>4. Room'
  BY <1>1, <1>2 DEF StreamInv, Room
<1> QED  BY <1>3, <1>4 DEF StreamInv

\* The invariant is inductive.
LEMMA StreamNext == StreamInv /\ [Next]_vars => StreamInv'
<1>1. ASSUME StreamInv, UNCHANGED vars PROVE StreamInv'
  BY <1>1 DEF vars, position, sampler, bounds, StreamInv, FileType, RingType, TmpType, PcType,
     HeardType, HistoryType, Room, Committed
<1> QED  BY <1>1, StreamRead, StreamWrite, StreamTests, StreamSeek, StreamTurn, StreamTake,
            StreamWaits, StreamSetInput, StreamStart, StreamStop DEF Next

-----------------------------------------------------------------------------
(* Remainders.                                                             *)

\* A remainder, and the multiple that is left out.
LEMMA ModDef ==
  ASSUME NEW m \in Nat \ {0}, NEW a \in Int
  PROVE  a % m \in 0 .. m - 1 /\ a = m * (a \div m) + (a % m) /\ a \div m \in Int
  OBVIOUS

\* The only multiple of m that is nearer to 0 than m.
LEMMA Multiple ==
  ASSUME NEW m \in Nat \ {0}, NEW q \in Int, m * q < m, m * q > -m
  PROVE  q = 0
<1>1. q >= 1 => m * q >= m
  OBVIOUS
<1>2. q <= -1 => m * q <= -m
  OBVIOUS
<1> QED  BY <1>1, <1>2

\* There is one remainder.
LEMMA ModUnique ==
  ASSUME NEW m \in Nat \ {0}, NEW a \in Int, NEW q \in Int, NEW r \in 0 .. m - 1, a = m * q + r
  PROVE  a % m = r
<1> DEFINE p == a \div m
<1>1. p \in Int /\ a % m \in 0 .. m - 1 /\ a = m * p + (a % m)
  BY ModDef
<1> HIDE DEF p
<1>2. m * (p - q) = m * p - m * q
  BY <1>1
<1>3. m * (p - q) = r - (a % m)
  <2>1. m * p \in Int /\ m * q \in Int
    BY <1>1
  <2> QED  BY <1>1, <1>2, <2>1
<1>4. m * (p - q) < m /\ m * (p - q) > -m
  BY <1>1, <1>3
<1>5. p - q = 0
  BY <1>1, <1>4, Multiple
<1> QED  BY <1>1, <1>5

\* A remainder may be taken before or after the sum.
LEMMA ModShift ==
  ASSUME NEW m \in Nat \ {0}, NEW a \in Int, NEW b \in Int
  PROVE  ((a % m) + b) % m = (a + b) % m
<1> DEFINE p == a \div m
           s == (a % m) + b
           q == s \div m
<1>1. p \in Int /\ a % m \in 0 .. m - 1 /\ a = m * p + (a % m)
  BY ModDef
<1>2. s \in Int
  BY <1>1
<1>3. q \in Int /\ s % m \in 0 .. m - 1 /\ s = m * q + (s % m)
  BY <1>2, ModDef
<1>4. a + b = m * p + s
  BY <1>1
<1> HIDE DEF p, q, s
<1>5. a + b = m * (p + q) + (s % m)
  <2>1. m * (p + q) = m * p + m * q
    BY <1>1, <1>3
  <2>2. m * p \in Int /\ m * q \in Int
    BY <1>1, <1>3
  <2> QED  BY <1>2, <1>3, <1>4, <2>1, <2>2
<1>6. p + q \in Int /\ a + b \in Int
  BY <1>1, <1>3
<1>7. (a + b) % m = s % m
  BY <1>3, <1>5, <1>6, ModUnique
<1> QED  BY <1>7 DEF s

\* A number below m is its own remainder.
LEMMA ModSmall ==
  ASSUME NEW m \in Nat \ {0}, NEW a \in 0 .. m - 1
  PROVE  a % m = a
  BY ModUnique, a = m * 0 + a

\* A round more, or a round less.
LEMMA ModTurn ==
  ASSUME NEW m \in Nat \ {0}, NEW a \in Int
  PROVE  (a + m) % m = a % m
<1> DEFINE p == a \div m
<1>1. p \in Int /\ a % m \in 0 .. m - 1 /\ a = m * p + (a % m)
  BY ModDef
<1> HIDE DEF p
<1>2. a + m = m * (p + 1) + (a % m)
  BY <1>1
<1>3. p + 1 \in Int /\ a + m \in Int
  BY <1>1
<1> QED  BY <1>1, <1>2, <1>3, ModUnique

LEMMA ModBack ==
  ASSUME NEW m \in Nat \ {0}, NEW a \in Int
  PROVE  (a - m) % m = a % m
<1>1. a - m \in Int /\ (a - m) + m = a
  OBVIOUS
<1> QED  BY <1>1, ModTurn

-----------------------------------------------------------------------------
(* The frames in the ring.                                                 *)

\* The cell of the n-th frame before a reader at p.
Ahead(r, p, n) == IF r.back THEN Moved(p, -n) ELSE Moved(p, n - 1)

\* Where the reader of the ring is in the file, between two frames, as if the
\* file had been unrolled: the reader thread has fetched it up to newReadPos, of
\* which tmp is not in the ring yet.
Fetching == IF rpc = "write" THEN Len(tmp) ELSE 0

Mark == IF backwards THEN newReadPos + Fetching + reader.lag
        ELSE newReadPos - Fetching - reader.lag

\* The n-th frame to be played, or, for n = 0, the one played last.
FrameAhead(n) ==
    << input, (IF backwards THEN Mark - n ELSE Mark + n - 1) % input >>

\* Cells are numbers.
LEMMA CellNumber == \A c \in Cells : c \in Int /\ 0 <= c /\ c < Size
  BY SizeAssumption DEF Cells

\* One position after another.
LEMMA MovedTwice ==
  ASSUME NEW p \in Int, NEW a \in Int, NEW b \in Int
  PROVE  Moved(Moved(p, a), b) = Moved(p, a + b)
<1>1. Size \in Nat \ {0}
  BY SizeAssumption
<1>2. p + a \in Int
  OBVIOUS
<1>3. (((p + a) % Size) + b) % Size = ((p + a) + b) % Size
  BY <1>1, <1>2, ModShift
<1>4. (p + a) + b = p + (a + b)
  OBVIOUS
<1> QED  BY <1>3, <1>4 DEF Moved

\* Once around the ring.
LEMMA MovedAround ==
  ASSUME NEW p \in Int, NEW a \in Int
  PROVE  Moved(p, a + Size) = Moved(p, a) /\ Moved(p, a - Size) = Moved(p, a)
<1>1. Size \in Nat \ {0} /\ p + a \in Int
  BY SizeAssumption
<1>2. p + (a + Size) = (p + a) + Size /\ p + (a - Size) = (p + a) - Size
  BY <1>1
<1> QED  BY <1>1, <1>2, ModTurn, ModBack DEF Moved

\* The frames written are those from the start of the run on, and the others stay.
LEMMA WrittenAt ==
  ASSUME NEW r, NEW f, NEW from \in Int, from = RunStart(r, r.pos, Len(f)),
         NEW j \in 0 .. Size - 1
  PROVE  Written(r, f).cell[Moved(from, j)] =
            IF j < Len(f) THEN f[j + 1] ELSE r.cell[Moved(from, j)]
<1>1. Size \in Nat \ {0} /\ j \in Int
  BY SizeAssumption
<1>2. Moved(from, j) \in Cells
  BY <1>1, InRing DEF Moved
<1>3. (Moved(from, j) - from) % Size = j
  <2>1. -from \in Int /\ from + j \in Int /\ Moved(from, j) \in Int
    BY <1>1, <1>2, CellNumber
  <2>2. (((from + j) % Size) + (-from)) % Size = ((from + j) + (-from)) % Size
    BY <1>1, <2>1, ModShift
  <2>3. (from + j) + (-from) = j /\ Moved(from, j) + (-from) = Moved(from, j) - from
    BY <1>1, <2>1
  <2> QED  BY <1>1, <2>2, <2>3, ModSmall DEF Moved
<1>4. Written(r, f).cell = [i \in Cells |-> IF (i - from) % Size < Len(f)
                                            THEN f[((i - from) % Size) + 1] ELSE r.cell[i]]
  BY DEF Written
<1> QED  BY <1>2, <1>3, <1>4

\* What is written lies behind the frames that a reader has before it.
LEMMA WrittenAhead ==
  ASSUME NEW r \in Rings(Frames), NEW f \in Seq(Frames), NEW p \in Cells, NEW lag \in Nat,
         lag + Len(f) <= Size, r.pos = (IF r.back THEN Moved(p, -lag) ELSE Moved(p, lag)),
         NEW n \in 1 .. lag + Len(f)
  PROVE  /\ Written(r, f).back = r.back
         /\ Written(r, f).cell[Ahead(r, p, n)] =
              IF n <= lag THEN r.cell[Ahead(r, p, n)]
              ELSE IF r.back THEN f[lag + Len(f) + 1 - n] ELSE f[n - lag]
<1> DEFINE from == RunStart(r, r.pos, Len(f))
<1>1. Size \in Nat \ {0} /\ p \in Int /\ Len(f) \in Nat /\ r.back \in BOOLEAN /\ r.pos \in Cells
  BY SizeAssumption, CellNumber DEF Rings
<1>2. r.pos \in Int /\ from \in Int
  <2>1. r.pos \in Int
    BY <1>1, CellNumber
  <2>2. from \in Cells
    BY <1>1, Steps
  <2> QED  BY <2>1, <2>2, CellNumber
<1>3. Written(r, f).back = r.back
  BY DEF Written, Rings
<1>4. CASE r.back
  <2>1. from = Moved(p, -lag - Len(f))
    <3>1. -lag \in Int /\ -Len(f) \in Int /\ (-lag) + (-Len(f)) = -lag - Len(f)
      BY <1>1
    <3> QED  BY <1>1, <1>4, <3>1, MovedTwice DEF RunStart
  <2> DEFINE j == lag + Len(f) - n
  <2>2. j \in 0 .. Size - 1 /\ -lag - Len(f) \in Int
    BY <1>1
  <2>3. Moved(from, j) = Ahead(r, p, n)
    <3>1. (-lag - Len(f)) + j = -n
      BY <1>1
    <3> QED  BY <1>1, <1>4, <2>1, <2>2, <3>1, MovedTwice DEF Ahead
  <2>5. Written(r, f).cell[Moved(from, j)] =
          IF j < Len(f) THEN f[j + 1] ELSE r.cell[Moved(from, j)]
    BY <1>2, <2>2, WrittenAt
  <2>6. j < Len(f) <=> n > lag
    BY <1>1
  <2>7. j + 1 = lag + Len(f) + 1 - n
    BY <1>1
  <2> QED  BY <1>1, <1>3, <1>4, <2>3, <2>5, <2>6, <2>7
<1>5. CASE ~ r.back
  <2>1. from = Moved(p, lag)
    BY <1>5 DEF RunStart
  <2>3. CASE n <= lag
    <3> DEFINE j == n - 1 - lag + Size
    <3>1. j \in 0 .. Size - 1 /\ ~ (j < Len(f)) /\ lag \in Int /\ n - 1 \in Int
      BY <1>1, <2>3
    <3>2. Moved(from, j) = Ahead(r, p, n)
      <4>1. lag + j = (n - 1) + Size
        BY <1>1
      <4>2. Moved(from, j) = Moved(p, (n - 1) + Size)
        BY <1>1, <2>1, <3>1, <4>1, MovedTwice
      <4> QED  BY <1>1, <1>5, <3>1, <4>2, MovedAround DEF Ahead
    <3>3. Written(r, f).cell[Moved(from, j)] = r.cell[Moved(from, j)]
      BY <1>2, <3>1, WrittenAt
    <3> QED  BY <1>3, <2>3, <3>2, <3>3
  <2>4. CASE ~ (n <= lag)
    <3> DEFINE j == n - 1 - lag
    <3>1. j \in 0 .. Size - 1 /\ j < Len(f) /\ lag \in Int /\ j + 1 = n - lag
      BY <1>1, <2>4
    <3>2. Moved(from, j) = Ahead(r, p, n)
      <4>1. lag + j = n - 1
        BY <1>1
      <4> QED  BY <1>1, <1>5, <2>1, <3>1, <4>1, MovedTwice DEF Ahead
    <3>3. Written(r, f).cell[Moved(from, j)] = f[j + 1]
      BY <1>2, <3>1, WrittenAt
    <3> QED  BY <1>3, <1>5, <2>4, <3>1, <3>2, <3>3
  <2> QED  BY <2>3, <2>4
<1> QED  BY <1>1, <1>4, <1>5

\* What a take finds, in the order in which it is played, and what is before the
\* reader afterwards.
LEMMA TakenAhead ==
  ASSUME NEW r \in Rings(Frames), NEW p \in [pos : Cells, lag : Nat], NEW n \in Nat
  PROVE  /\ \A k \in 1 .. n :
               (IF r.back THEN FramesAt(r, p, n)[n + 1 - k] ELSE FramesAt(r, p, n)[k])
                  = r.cell[Ahead(r, p.pos, k)]
         /\ \A k \in Nat : Ahead(r, ReadOn(r, p, n).pos, k) = Ahead(r, p.pos, n + k)
<1>1. Size \in Nat \ {0} /\ p.pos \in Int /\ r.back \in BOOLEAN
  BY SizeAssumption, CellNumber DEF Rings
<1>2. ASSUME NEW k \in 1 .. n
      PROVE  (IF r.back THEN FramesAt(r, p, n)[n + 1 - k] ELSE FramesAt(r, p, n)[k])
                = r.cell[Ahead(r, p.pos, k)]
  <2>1. CASE r.back
    <3>1. n + 1 - k \in 1 .. n /\ -n \in Int /\ (n + 1 - k) - 1 \in Int
      OBVIOUS
    <3>2. FramesAt(r, p, n)[n + 1 - k] = r.cell[Moved(Moved(p.pos, -n), (n + 1 - k) - 1)]
      BY <2>1, <3>1 DEF FramesAt, RunStart
    <3>3. (-n) + ((n + 1 - k) - 1) = -k
      OBVIOUS
    <3>4. Moved(Moved(p.pos, -n), (n + 1 - k) - 1) = Moved(p.pos, (-n) + ((n + 1 - k) - 1))
      BY <1>1, <3>1, MovedTwice
    <3> QED  BY <2>1, <3>2, <3>3, <3>4 DEF Ahead
  <2>2. CASE ~ r.back
    BY <2>2 DEF FramesAt, RunStart, Ahead
  <2> QED  BY <2>1, <2>2
<1>3. ASSUME NEW k \in Nat PROVE Ahead(r, ReadOn(r, p, n).pos, k) = Ahead(r, p.pos, n + k)
  <2>1. CASE r.back
    <3>1. -n \in Int /\ -k \in Int /\ (-n) + (-k) = -(n + k)
      OBVIOUS
    <3> QED  BY <1>1, <2>1, <3>1, MovedTwice DEF Ahead, ReadOn, Advanced
  <2>2. CASE ~ r.back
    <3>1. n \in Int /\ k - 1 \in Int /\ n + (k - 1) = (n + k) - 1
      OBVIOUS
    <3> QED  BY <1>1, <2>2, <3>1, MovedTwice DEF Ahead, ReadOn, Advanced
  <2> QED  BY <2>1, <2>2
<1> QED  BY <1>2, <1>3

-----------------------------------------------------------------------------
(* The order of the frames.                                                *)

\* The reader's positions: what it reads next is what comes after the last block,
\* also when a restart has moved the file back to its start.
Placed ==
    IF backwards
    THEN newReadPos \in 0 .. input - 1 /\ (readPos = newReadPos \/ (readPos = 0 /\ filePos = 0))
    ELSE newReadPos \in 0 .. input /\ filePos = readPos

\* The block that was fetched is a stretch of the file with an end at newReadPos.
Fetched ==
    rpc = "write" =>
        LET from == IF backwards THEN newReadPos ELSE newReadPos - Len(tmp)
        IN  /\ tmp # <<>> /\ from \in Nat /\ from + Len(tmp) <= input
            /\ \A k \in 1 .. Len(tmp) : tmp[k] = <<input, from + k - 1>>

Unread == \A n \in 1 .. reader.lag : ring.cell[Ahead(ring, reader.pos, n)] = FrameAhead(n)

LastHeard == gap \/ heard = <<>> \/ heard[Len(heard)] = FrameAhead(0)

\* As long as nothing was written the positions are those of the start, unless the
\* first block has been fetched.
Unwritten ==
    ring.count = 0 =>
        /\ ring.start = ring.pos /\ reader = EndPos(ring) /\ heard = <<>>
        /\ IF rpc = "write" THEN newReadPos # 0
           ELSE filePos = 0 /\ readPos = 0 /\ newReadPos = 0

\* The reader of the ring follows the writer by its lag.
Follows ==
    ring.pos = (IF backwards THEN Moved(reader.pos, -reader.lag)
                ELSE Moved(reader.pos, reader.lag))

OrderInv ==
    steady =>
        /\ ~ raced /\ rpc # "broken"
        /\ input = NoInput => ring.count = 0 /\ rpc # "write" /\ tpc = "idle"
        /\ input # NoInput => Placed /\ Fetched /\ Unread /\ LastHeard
        /\ Unwritten /\ Follows

\* Whole rounds of the file make no difference.
LEMMA RoundSame ==
  ASSUME NEW m \in Nat \ {0}, NEW a \in Int, NEW b \in {a, a + m, a - m}, NEW c \in Int
  PROVE  (b + c) % m = (a + c) % m
<1>1. a + c \in Int /\ (a + m) + c = (a + c) + m /\ (a - m) + c = (a + c) - m
  OBVIOUS
<1>2. ((a + c) + m) % m = (a + c) % m /\ ((a + c) - m) % m = (a + c) % m
  BY <1>1, ModTurn, ModBack
<1>3. CASE b = a
  BY <1>3
<1>4. CASE b = a + m
  BY <1>1, <1>2, <1>4
<1>5. CASE b = a - m
  BY <1>1, <1>2, <1>5
<1> QED  BY <1>3, <1>4, <1>5

LEMMA FrameSame ==
  ASSUME input \in Nat \ {0}, Mark \in Int, Mark' \in {Mark, Mark + input, Mark - input},
         UNCHANGED <<input, backwards>>, NEW n \in Int
  PROVE  FrameAhead(n)' = FrameAhead(n)
<1> DEFINE a == Mark
           b == Mark'
<1>1. -n \in Int /\ n - 1 \in Int /\ a \in Int /\ b \in {a, a + input, a - input} /\ b \in Int
  OBVIOUS
<1>2. (b + (-n)) % input = (a + (-n)) % input /\ (b + (n - 1)) % input = (a + (n - 1)) % input
  <2> HIDE DEF a, b
  <2> QED  BY <1>1, RoundSame
<1>3. /\ b + (-n) = b - n /\ a + (-n) = a - n
      /\ b + (n - 1) = b + n - 1 /\ a + (n - 1) = a + n - 1
  <2> HIDE DEF a, b
  <2> QED  BY <1>1
<1>4. /\ FrameAhead(n)' = <<input, (IF backwards THEN b - n ELSE b + n - 1) % input>>
      /\ FrameAhead(n) = <<input, (IF backwards THEN a - n ELSE a + n - 1) % input>>
  BY DEF FrameAhead
<1> HIDE DEF a, b
<1> QED  BY <1>2, <1>3, <1>4

\* One frame after another.
LEMMA FrameAfter ==
  ASSUME input \in Nat \ {0}, Mark \in Int, NEW n \in Int
  PROVE  FrameAhead(n + 1) = After(FrameAhead(n))
<1> HIDE DEF Mark
<1>1. CASE backwards
  <2>1. Mark - n \in Int /\ -1 \in Int /\ (Mark - n) + (-1) = Mark - (n + 1)
    OBVIOUS
  <2>2. (((Mark - n) % input) + (-1)) % input = ((Mark - n) + (-1)) % input
    BY <2>1, ModShift
  <2> QED  BY <1>1, <2>1, <2>2 DEF FrameAhead, After
<1>2. CASE ~ backwards
  <2>1. Mark + n - 1 \in Int /\ 1 \in Int /\ (Mark + n - 1) + 1 = Mark + (n + 1) - 1
    OBVIOUS
  <2> DEFINE a == Mark + n - 1
  <2>2. ((a % input) + 1) % input = (a + 1) % input
    <3> HIDE DEF a
    <3> QED  BY <2>1, ModShift DEF a
  <2> QED  BY <1>2, <2>1, <2>2 DEF FrameAhead, After
<1> QED  BY <1>1, <1>2

\* Nothing to move.
LEMMA NotMoved ==
  ASSUME NEW p \in Cells
  PROVE  Moved(p, 0) = p /\ Moved(p, -0) = p
<1>1. p + 0 = p /\ p + (-0) = p /\ p \in 0 .. Size - 1 /\ Size \in Nat \ {0}
  BY CellNumber, SizeAssumption
<1> QED  BY <1>1, ModSmall DEF Moved

\* What the types say.
LEMMA OrderTypes ==
  ASSUME StreamInv
  PROVE  /\ reader.lag \in Nat /\ reader.pos \in Cells /\ ring \in Rings(Frames)
         /\ ring.back \in BOOLEAN /\ ring.pos \in Cells /\ ring.count \in Nat
         /\ tmp \in Seq(Frames) /\ Len(tmp) \in Nat /\ Mark \in Int /\ Fetching \in Nat
         /\ input # NoInput => input \in Nat \ {0} /\ input > Threshold
<1>1. /\ reader.lag \in Nat /\ reader.pos \in Cells /\ ring \in Rings(Frames)
      /\ ring.back \in BOOLEAN /\ ring.pos \in Cells /\ ring.count \in Nat
      /\ tmp \in Seq(Frames) /\ Len(tmp) \in Nat /\ newReadPos \in Int
  BY DEF StreamInv, RingType, Rings, TmpType, FileType
<1>2. Fetching \in Nat
  BY <1>1 DEF Fetching
<1>3. Mark \in Int
  BY <1>1, <1>2 DEF Mark
<1>4. input # NoInput => input \in Nat \ {0} /\ input > Threshold
  BY Constants DEF StreamInv, FileType
<1> QED  BY <1>1, <1>2, <1>3, <1>4

\* The input is created without a file.
LEMMA OrderInit == Init => OrderInv
<1> SUFFICES ASSUME Init PROVE OrderInv
  OBVIOUS
<1>1. /\ input = NoInput /\ ring = NewRing /\ reader = EndPos(NewRing) /\ rpc = "none"
      /\ tpc = "idle" /\ heard = <<>> /\ ~ raced /\ filePos = 0 /\ readPos = 0 /\ newReadPos = 0
  BY DEF Init
<1>2. ring.back = FALSE /\ ring.pos = 0 /\ ring.start = 0 /\ ring.count = 0
      /\ reader.pos = 0 /\ reader.lag = 0
  BY <1>1 DEF NewRing, EndPos
<1>3. Moved(0, 0) = 0
  BY SizeAssumption, ModSmall DEF Moved
<1> QED  BY <1>1, <1>2, <1>3 DEF OrderInv, Unwritten, Follows

\* What leaves the file, the ring and the frames alone.
LEMMA OrderSame ==
  ASSUME OrderInv,
         UNCHANGED <<input, filePos, readPos, newReadPos, ring, reader, tmp, heard, gap,
                     steady, raced>>,
         rpc' = rpc \/ (rpc # "write" /\ rpc' \notin {"write", "broken"}),
         input = NoInput => tpc' = tpc
  PROVE  OrderInv'
<1>1. Fetching' = Fetching
  BY DEF Fetching
<1>2. Mark' = Mark /\ backwards' = backwards
  BY <1>1 DEF Mark, backwards
<1>3. \A n : FrameAhead(n)' = FrameAhead(n)
  BY <1>2 DEF FrameAhead
<1>4. Placed => Placed'
  BY <1>2 DEF Placed
<1>5. Fetched => Fetched'
  BY <1>2 DEF Fetched
<1>6. Unread => Unread'
  BY <1>3 DEF Unread, Ahead
<1>7. LastHeard => LastHeard'
  BY <1>3 DEF LastHeard
<1>8. (Unwritten => Unwritten') /\ (Follows => Follows')
  BY <1>2 DEF Unwritten, Follows
<1> QED  BY <1>4, <1>5, <1>6, <1>7, <1>8 DEF OrderInv

-----------------------------------------------------------------------------
(* The frames are fetched and stored in order.                             *)

\* The next block of the file is fetched, whatever the direction; the thread is
\* not lost.
LEMMA OrderRead ==
  ASSUME StreamInv, OrderInv, ReadBlock
  PROVE  OrderInv'
<1>1. /\ rpc = "read"
      /\ UNCHANGED <<input, ring, reader, finished, tpc, want, heard, gap, steady, raced>>
  BY DEF ReadBlock, sampler
<1>2. CASE ~ steady
  BY <1>1, <1>2 DEF OrderInv
<1>3. CASE steady /\ input = NoInput
  <2>1. rpc' = "test" /\ tmp' = <<>> /\ UNCHANGED <<filePos, readPos, newReadPos>>
    BY <1>3 DEF ReadBlock, position
  <2> QED  BY <1>1, <1>3, <2>1 DEF OrderInv, Unwritten, Follows, backwards
<1>4. CASE steady /\ input # NoInput
  <2> DEFINE from == IF BlockPos # readPos THEN BlockPos ELSE filePos
             nread == IF from < input THEN Least(BlockSize, input - from) ELSE 0
  <2>1. /\ input \in Nat \ {0} /\ input > Threshold /\ Threshold \in Nat /\ Threshold > 0
        /\ Placed /\ Mark \in Int /\ reader.lag \in Nat /\ ring.back \in BOOLEAN
    BY <1>4, OrderTypes, Constants DEF OrderInv
  <2> DEFINE b == BlockPos
             z == BlockSize
             w == newReadPos
  <2>2. /\ b \in 0 .. input - 1 /\ z \in 1 .. Threshold /\ from = b /\ w \in 0 .. input
        /\ ring.back => b + z <= input /\ (b + z = w \/ (w = 0 /\ b + z = input /\ b # 0))
        /\ ~ ring.back => b = w \/ (w = input /\ b = 0)
    <3>1. CASE ring.back
      <4>1. w \in 0 .. input - 1 /\ (readPos = w \/ (readPos = 0 /\ filePos = 0))
        BY <2>1, <3>1 DEF Placed, backwards
      <4>2. /\ b \in 0 .. input - 1 /\ z \in 1 .. Threshold /\ b # w
            /\ b + z <= input /\ (b + z = w \/ (w = 0 /\ b + z = input /\ b # 0))
        <5>1. CASE w = 0
          <6>1. BlockStart = input - Threshold
            BY <2>1, <3>1, <5>1 DEF BlockStart, backwards
          <6>2. b = input - Threshold /\ z = Threshold
            BY <2>1, <3>1, <6>1 DEF BlockPos, BlockSize, backwards
          <6> HIDE DEF b, z, w
          <6> QED  BY <2>1, <4>1, <5>1, <6>2
        <5>2. CASE w # 0 /\ w < Threshold
          <6>1. BlockStart = w - Threshold
            BY <2>1, <3>1, <4>1, <5>2 DEF BlockStart, backwards
          <6>2. b = 0 /\ z = w
            BY <2>1, <3>1, <4>1, <5>2, <6>1 DEF BlockPos, BlockSize, backwards
          <6> HIDE DEF b, z, w
          <6> QED  BY <2>1, <4>1, <5>2, <6>2
        <5>3. CASE w >= Threshold
          <6>1. BlockStart = w - Threshold
            BY <2>1, <3>1, <4>1, <5>3 DEF BlockStart, backwards
          <6>2. b = w - Threshold /\ z = Threshold
            BY <2>1, <3>1, <4>1, <5>3, <6>1 DEF BlockPos, BlockSize, backwards
          <6> HIDE DEF b, z, w
          <6> QED  BY <2>1, <4>1, <5>3, <6>2
        <5> HIDE DEF w
        <5> QED  BY <2>1, <4>1, <5>1, <5>2, <5>3
      <4>3. from = b
        BY <4>1, <4>2
      <4> HIDE DEF b, z, w, from
      <4> QED  BY <2>1, <3>1, <4>1, <4>2, <4>3
    <3>2. CASE ~ ring.back
      <4>1. w \in 0 .. input /\ filePos = readPos
        BY <2>1, <3>2 DEF Placed, backwards
      <4>2. BlockStart = w /\ z = Threshold
        BY <3>2 DEF BlockStart, BlockSize, backwards
      <4>3. b = IF w = input THEN 0 ELSE w
        BY <2>1, <3>2, <4>1, <4>2 DEF BlockPos, backwards
      <4>4. from = b
        BY <4>1
      <4> HIDE DEF b, z, w, from
      <4> QED  BY <2>1, <3>2, <4>1, <4>2, <4>3, <4>4
    <3> QED  BY <2>1, <3>1, <3>2
  <2>3. /\ nread \in 1 .. Threshold /\ b + nread <= input
        /\ ring.back => nread = z
    <3>1. nread = Least(z, input - b)
      BY <2>1, <2>2
    <3> HIDE DEF b, z, from, nread, w
    <3> QED  BY <2>1, <2>2, <3>1 DEF Least
  <2>4. /\ tmp' = [k \in 1 .. nread |-> <<input, BlockPos + k - 1>>]
        /\ filePos' = BlockPos + nread
        /\ readPos' = IF ring.back THEN BlockPos ELSE BlockPos + nread
        /\ newReadPos' = readPos' /\ rpc' = "write"
    <3>1. ~ (BlockPos < 0 \/ BlockSize < 0) /\ nread > 0
      <4>1. ~ (b < 0 \/ z < 0) /\ nread > 0
        <5> HIDE DEF b, z, from, nread
        <5> QED  BY <2>1, <2>2, <2>3
      <4> QED  BY <4>1
    <3>2. /\ tmp' = [k \in 1 .. nread |-> <<input, from + k - 1>>]
          /\ filePos' = from + nread
          /\ readPos' = IF ring.back THEN BlockPos ELSE BlockPos + nread
          /\ newReadPos' = IF ~ ring.back /\ nread = 0 THEN 0 ELSE readPos'
          /\ rpc' = IF nread > 0 THEN "write" ELSE "test"
      BY <1>1, <1>4, <3>1 DEF ReadBlock, backwards
    <3> QED  BY <2>2, <3>1, <3>2
  <2> HIDE DEF from, nread, b, z, w
  <2>5. b \in Nat /\ nread \in Nat \ {0} /\ b + nread <= input /\ b < input
    BY <2>1, <2>2, <2>3
  <2>6. Len(tmp') = nread /\ tmp' # <<>> /\ \A k \in 1 .. nread : tmp'[k] = <<input, b + k - 1>>
    <3>1. tmp' = [k \in 1 .. nread |-> <<input, b + k - 1>>]
      BY <2>4 DEF b
    <3>2. Len(tmp') = nread /\ 1 \in 1 .. Len(tmp')
      BY <2>5, <3>1
    <3> QED  BY <2>5, <3>1, <3>2
  <2>7. Fetched'
    BY <1>1, <2>1, <2>4, <2>5, <2>6 DEF Fetched, backwards, b
  <2>8. Placed'
    BY <1>1, <2>1, <2>4, <2>5 DEF Placed, backwards, b
  <2>9. Mark' \in {Mark, Mark + input, Mark - input}
    <3>1. Fetching = 0 /\ Fetching' = nread
      BY <1>1, <2>4, <2>6 DEF Fetching
    <3>2. UNCHANGED <<ring, reader>>
      BY <1>1
    <3>3. CASE ring.back
      <4>1. Mark = w + reader.lag /\ Mark' = (b + nread) + reader.lag
        BY <2>1, <2>2, <2>4, <2>5, <3>1, <3>2, <3>3 DEF Mark, backwards, b, w
      <4>2. b + nread = w \/ b + nread = w + input
        BY <2>1, <2>2, <2>3, <3>3
      <4> QED  BY <2>1, <2>2, <2>5, <4>1, <4>2
    <3>4. CASE ~ ring.back
      <4>1. Mark = w - reader.lag /\ Mark' = b - reader.lag
        BY <2>1, <2>2, <2>4, <2>5, <3>1, <3>2, <3>4 DEF Mark, backwards, b, w
      <4>2. b = w \/ b = w - input
        BY <2>1, <2>2, <3>4
      <4> QED  BY <2>1, <2>2, <2>5, <4>1, <4>2
    <3> QED  BY <3>3, <3>4
  <2>10. UNCHANGED <<input, backwards>>
    BY <1>1 DEF backwards
  <2>11. \A n \in Int : FrameAhead(n)' = FrameAhead(n)
    BY <2>1, <2>9, <2>10, FrameSame
  <2>12. Unread /\ LastHeard /\ Unwritten /\ Follows /\ ~ raced
    BY <1>4 DEF OrderInv
  <2>13. Unread'
    BY <1>1, <2>11, <2>12 DEF Unread, Ahead
  <2>14. LastHeard'
    BY <1>1, <2>11, <2>12 DEF LastHeard
  <2>15. newReadPos' # 0 \/ ring.count # 0
    <3>1. ring.count = 0 => w = 0
      BY <1>1, <2>12 DEF Unwritten, w
    <3>2. newReadPos' = IF ring.back THEN b ELSE b + nread
      BY <2>4 DEF b
    <3> QED  BY <2>1, <2>2, <2>3, <2>5, <3>1, <3>2
  <2>16. Unwritten' /\ Follows'
    BY <1>1, <2>4, <2>12, <2>15 DEF Unwritten, Follows, backwards
  <2> QED  BY <1>1, <1>4, <2>4, <2>7, <2>8, <2>12, <2>13, <2>14, <2>16 DEF OrderInv
<1> QED  BY <1>2, <1>3, <1>4

\* The block is stored behind what has not been played.
LEMMA OrderWrite ==
  ASSUME StreamInv, OrderInv, WriteBlock
  PROVE  OrderInv'
<1>1. /\ rpc = "write" /\ rpc' = "test" /\ tmp' = <<>>
      /\ ring' = Written(ring, tmp) /\ reader' = [reader EXCEPT !.lag = @ + Len(tmp)]
      /\ UNCHANGED <<input, filePos, readPos, newReadPos, heard, gap, steady, raced>>
  BY DEF WriteBlock, Writing, position
<1>2. CASE ~ steady
  BY <1>1, <1>2 DEF OrderInv
<1>3. CASE steady
  <2>1. input # NoInput /\ Placed /\ Fetched /\ Unread /\ LastHeard /\ Follows /\ ~ raced
    BY <1>1, <1>3 DEF OrderInv
  <2>2. /\ reader.lag \in Nat /\ reader.pos \in Cells /\ ring \in Rings(Frames)
        /\ ring.back \in BOOLEAN /\ ring.pos \in Cells /\ ring.count \in Nat
        /\ tmp \in Seq(Frames) /\ Len(tmp) \in Nat /\ Mark \in Int
        /\ input \in Nat \ {0} /\ newReadPos \in Int
    BY <2>1, OrderTypes DEF StreamInv, FileType
  <2>3. reader.lag + Len(tmp) <= Size /\ Len(tmp) <= Threshold
    <3>1. reader.lag + Threshold <= Size /\ Len(tmp) <= Threshold
      BY <1>1, <2>1 DEF StreamInv, Room, Committed, TmpType
    <3> QED  BY <2>2, <3>1, Constants
  <2>4. /\ reader'.lag = reader.lag + Len(tmp) /\ reader'.pos = reader.pos
        /\ ring'.back = ring.back /\ ring'.pos = Advanced(ring, ring.pos, Len(tmp))
        /\ ring'.count = Least(ring.count + Len(tmp), Size)
    <3>1. reader' = [reader EXCEPT !.lag = reader.lag + Len(tmp)]
      BY <1>1
    <3>2. reader \in [pos : Cells, lag : 0 .. Size + Threshold]
      BY DEF StreamInv, RingType
    <3> QED  BY <1>1, <2>2, <3>1, <3>2 DEF Written, Rings
  <2>5. UNCHANGED <<input, backwards>>
    BY <1>1, <2>4 DEF backwards
  <2>6. Mark' = Mark
    <3>1. Fetching = Len(tmp) /\ Fetching' = 0
      BY <1>1 DEF Fetching
    <3> QED  BY <1>1, <2>2, <2>4, <3>1 DEF Mark, backwards
  <2>7. \A n : FrameAhead(n)' = FrameAhead(n)
    BY <2>5, <2>6 DEF FrameAhead
  <2>8. LastHeard'
    BY <1>1, <2>1, <2>7 DEF LastHeard
  <2>9. Unread'
    <3> SUFFICES ASSUME NEW n \in 1 .. reader.lag + Len(tmp)
                 PROVE  ring'.cell[Ahead(ring, reader.pos, n)] = FrameAhead(n)
      BY <2>4, <2>7 DEF Unread, Ahead
    <3>1. ring'.cell[Ahead(ring, reader.pos, n)] =
            IF n <= reader.lag THEN ring.cell[Ahead(ring, reader.pos, n)]
            ELSE IF ring.back THEN tmp[reader.lag + Len(tmp) + 1 - n] ELSE tmp[n - reader.lag]
      BY <1>1, <2>1, <2>2, <2>3, WrittenAhead DEF Follows, backwards
    <3>2. CASE n <= reader.lag
      BY <2>1, <2>2, <3>1, <3>2 DEF Unread
    <3>3. CASE n > reader.lag /\ ring.back
      <4> DEFINE k == reader.lag + Len(tmp) + 1 - n
      <4>1. k \in 1 .. Len(tmp)
        BY <2>2, <3>3
      <4>2. tmp[k] = <<input, newReadPos + k - 1>> /\ newReadPos + k - 1 \in 0 .. input - 1
        <5>1. /\ newReadPos \in Nat /\ newReadPos + Len(tmp) <= input
              /\ \A i \in 1 .. Len(tmp) : tmp[i] = <<input, newReadPos + i - 1>>
          BY <1>1, <2>1, <3>3 DEF Fetched, backwards
        <5> HIDE DEF k
        <5> QED  BY <2>2, <4>1, <5>1
      <4>3. Mark - n = newReadPos + k - 1
        BY <1>1, <2>2, <3>3 DEF Mark, Fetching, backwards
      <4>4. (newReadPos + k - 1) % input = newReadPos + k - 1
        BY <2>2, <4>2, ModSmall
      <4>5. FrameAhead(n) = tmp[k]
        BY <3>3, <4>2, <4>3, <4>4 DEF FrameAhead, backwards
      <4> QED  BY <2>2, <3>1, <3>3, <4>5
    <3>4. CASE n > reader.lag /\ ~ ring.back
      <4> DEFINE k == n - reader.lag
                 p == newReadPos - Len(tmp)
      <4>1. k \in 1 .. Len(tmp)
        BY <2>2, <3>4
      <4>2. tmp[k] = <<input, p + k - 1>> /\ p + k - 1 \in 0 .. input - 1
        <5>1. /\ p \in Nat /\ p + Len(tmp) <= input
              /\ \A i \in 1 .. Len(tmp) : tmp[i] = <<input, p + i - 1>>
          BY <1>1, <2>1, <3>4 DEF Fetched, backwards
        <5> HIDE DEF k, p
        <5> QED  BY <2>2, <4>1, <5>1
      <4>3. Mark + n - 1 = p + k - 1
        BY <1>1, <2>2, <3>4 DEF Mark, Fetching, backwards
      <4> HIDE DEF p, k
      <4>4. (p + k - 1) % input = p + k - 1
        BY <2>2, <4>2, ModSmall
      <4>5. FrameAhead(n) = <<input, p + k - 1>>
        BY <3>4, <4>3, <4>4 DEF FrameAhead, backwards
      <4> QED  BY <2>2, <3>1, <3>4, <4>2, <4>5 DEF k
    <3> QED  BY <2>2, <3>2, <3>3, <3>4
  <2>10. Follows'
    <3>1. reader.pos \in Int /\ Len(tmp) \in Int /\ -Len(tmp) \in Int /\ -reader.lag \in Int
          /\ reader.lag \in Int
          /\ (-reader.lag) + (-Len(tmp)) = -(reader.lag + Len(tmp))
      BY <2>2, CellNumber
    <3>2. CASE ring.back
      <4>1. Moved(Moved(reader.pos, -reader.lag), -Len(tmp)) =
               Moved(reader.pos, (-reader.lag) + (-Len(tmp)))
        BY <3>1, MovedTwice
      <4> QED  BY <2>1, <2>4, <3>1, <3>2, <4>1 DEF Follows, Advanced, backwards
    <3>3. CASE ~ ring.back
      <4>1. Moved(Moved(reader.pos, reader.lag), Len(tmp)) = Moved(reader.pos, reader.lag + Len(tmp))
        BY <3>1, MovedTwice
      <4> QED  BY <2>1, <2>4, <3>3, <4>1 DEF Follows, Advanced, backwards
    <3> QED  BY <3>2, <3>3
  <2>11. ring'.count # 0
    <3>1. Len(tmp) # 0
      BY <1>1, <2>1, <2>2 DEF Fetched
    <3> QED  BY <2>2, <2>4, <3>1, Constants DEF Least
  <2>12. Placed' /\ Fetched' /\ Unwritten'
    BY <1>1, <2>1, <2>4, <2>11 DEF Placed, Fetched, Unwritten, backwards
  <2> QED  BY <1>1, <1>3, <2>1, <2>8, <2>9, <2>10, <2>12 DEF OrderInv
<1> QED  BY <1>2, <1>3

-----------------------------------------------------------------------------
(* The frames are played in order.                                         *)

\* A restart drops what is in the ring; the file goes on where it was.
LEMMA OrderSeek ==
  ASSUME StreamInv, OrderInv, Seek
  PROVE  OrderInv'
<1>1. /\ input # NoInput /\ filePos' = 0 /\ readPos' = 0 /\ gap' = TRUE
      /\ reader' = EndPos(ring) /\ rpc' = (IF rpc = "waiting" THEN "test" ELSE rpc)
      /\ UNCHANGED <<input, newReadPos, ring, tmp, heard, steady, raced>>
  BY DEF Seek, Playing, WakeReader
<1>2. CASE ~ steady
  BY <1>1, <1>2 DEF OrderInv
<1>3. CASE steady
  <2>1. Placed /\ Fetched /\ Unwritten /\ ~ raced /\ rpc # "broken"
    BY <1>1, <1>3 DEF OrderInv
  <2>2. reader'.lag = 0 /\ reader'.pos = ring.pos
    BY <1>1 DEF EndPos
  <2>3. Fetched' /\ LastHeard'
    BY <1>1, <2>1 DEF Fetched, LastHeard, backwards
  <2>4. Unread'
    BY <2>2 DEF Unread
  <2>5. Placed'
    BY <1>1, <2>1, OrderTypes DEF Placed, backwards
  <2>6. Unwritten'
    BY <1>1, <2>1 DEF Unwritten, EndPos
  <2>7. Follows'
    BY <1>1, <2>2, OrderTypes, NotMoved DEF Follows
  <2> QED  BY <1>1, <1>3, <2>1, <2>3, <2>4, <2>5, <2>6, <2>7 DEF OrderInv
<1> QED  BY <1>2, <1>3

\* The file is turned round before anything of it was read, or it is not steady.
LEMMA OrderTurn ==
  ASSUME StreamInv, OrderInv, Turn
  PROVE  OrderInv'
<1>1. /\ input # NoInput /\ ring' = TurnedRing(ring) /\ reader' = Synced(ring', reader)
      /\ steady' = (steady /\ filePos = 0 /\ readPos = 0 /\ newReadPos = 0 /\ ring.count = 0)
      /\ raced' = \/ raced
                  \/ rpc \in {"outer", "read", "write"} /\ reader'.lag + Threshold > Size
      /\ UNCHANGED <<input, filePos, readPos, tmp, rpc, heard, gap>>
  BY DEF Turn, Playing, sampler
<1>2. CASE ~ steady'
  BY <1>2 DEF OrderInv
<1>3. CASE steady'
  <2>1. /\ steady /\ filePos = 0 /\ readPos = 0 /\ newReadPos = 0 /\ ring.count = 0
        /\ ~ raced /\ rpc # "broken" /\ Unwritten
    BY <1>1, <1>3 DEF OrderInv, StreamInv, HistoryType
  <2>2. ring.start = ring.pos /\ reader = EndPos(ring) /\ heard = <<>> /\ rpc # "write"
    BY <2>1 DEF Unwritten
  <2>3. ring \in Rings(Frames) /\ ring.pos \in Cells /\ ring.pos \in Int /\ 0 % Size = 0
    BY OrderTypes, CellNumber, SizeAssumption, ModSmall
  <2>4. ring'.pos = ring.pos /\ ring'.start = ring.pos /\ ring'.count = 0
    BY <1>1, <2>1, <2>2, <2>3, Constants DEF TurnedRing, Rings
  <2>5. reader'.lag = 0 /\ reader'.pos = ring.pos /\ reader' = EndPos(ring')
    <3>1. reader.pos - ring.pos = 0 /\ ring.pos - reader.pos = 0 /\ reader.lag = 0
      BY <2>2, <2>3 DEF EndPos
    <3> QED  BY <1>1, <2>2, <2>3, <2>4, <3>1 DEF Synced, EndPos
  <2>6. newReadPos' = 0
    <3>1. readPos + reader'.lag - reader.lag = 0
      BY <2>1, <2>2, <2>5 DEF EndPos
    <3> QED  BY <2>1, <3>1, Constants DEF Turn
  <2>7. ~ raced'
    BY <1>1, <2>1, <2>5, Constants
  <2>8. input \in Nat \ {0}
    BY <1>1, OrderTypes
  <2>9. Placed'
    BY <1>1, <2>1, <2>6, <2>8 DEF Placed
  <2>10. Fetched' /\ LastHeard' /\ Unwritten'
    BY <1>1, <2>1, <2>2, <2>4, <2>5, <2>6 DEF Fetched, LastHeard, Unwritten
  <2>11. Unread'
    BY <2>5 DEF Unread
  <2>12. Follows'
    BY <2>3, <2>4, <2>5, NotMoved DEF Follows
  <2> QED  BY <1>1, <2>1, <2>7, <2>9, <2>10, <2>11, <2>12 DEF OrderInv
<1> QED  BY <1>2, <1>3

\* What a take returns is what lies before the reader.
LEMMA TakenFrames ==
  ASSUME StreamInv, OrderInv, TakeFrames, steady
  PROVE  LET n == Least(want, reader.lag) IN
         /\ n \in 1 .. reader.lag /\ reader' = ReadOn(ring, reader, n) /\ input \in Nat \ {0}
         /\ heard' \in Seq(Frames \cup {NoFrame}) /\ Len(heard') = n
         /\ \A k \in 1 .. n : heard'[k] = FrameAhead(k)
<1> DEFINE n == Least(want, reader.lag)
           got == FramesAt(ring, reader, n)
<1>1. /\ tpc = "take" /\ reader.lag > 0 /\ reader' = ReadOn(ring, reader, n)
      /\ heard' = IF backwards THEN [k \in 1 .. n |-> got[n + 1 - k]] ELSE got
  BY DEF TakeFrames, Taking
<1>2. /\ reader.lag \in Nat /\ reader.pos \in Cells /\ ring \in Rings(Frames)
      /\ ring.back \in BOOLEAN /\ input \in Nat \ {0} /\ Unread
  BY <1>1, OrderTypes DEF OrderInv
<1>3. want \in Nat \ {0}
  BY <1>1, Constants DEF StreamInv, PcType
<1>4. n \in 1 .. reader.lag
  BY <1>1, <1>2, <1>3 DEF Least
<1>5. HeardType'
  BY StreamTake DEF StreamInv
<1> HIDE DEF n
<1>6. \A k \in 1 .. n :
         (IF ring.back THEN got[n + 1 - k] ELSE got[k]) = ring.cell[Ahead(ring, reader.pos, k)]
  <2>1. reader \in [pos : Cells, lag : Nat]
    BY <1>2 DEF StreamInv, RingType
  <2>2. n \in Nat
    BY <1>2, <1>4
  <2> QED  BY <1>2, <2>1, <2>2, TakenAhead
<1>7. got = [k \in 1 .. n |-> got[k]]
  BY DEF FramesAt
<1> HIDE DEF got
<1>8. \A k \in 1 .. n : heard'[k] = ring.cell[Ahead(ring, reader.pos, k)]
  BY <1>1, <1>2, <1>6, <1>7 DEF backwards
<1>9. Len(heard') = n
  <2>1. \E g : heard' = [k \in 1 .. n |-> g[k]]
    <3>1. CASE backwards
      <4> DEFINE g == [k \in 1 .. n |-> got[n + 1 - k]]
      <4>1. heard' = g /\ g = [k \in 1 .. n |-> g[k]]
        BY <1>1, <3>1
      <4> QED  BY <4>1
    <3>2. CASE ~ backwards
      BY <1>1, <1>7, <3>2
    <3> QED  BY <3>1, <3>2
  <2>2. n \in Nat
    BY <1>2, <1>4
  <2> QED  BY <2>1, <2>2
<1>10. \A k \in 1 .. n : heard'[k] = FrameAhead(k)
  BY <1>2, <1>4, <1>8 DEF Unread
<1> QED  BY <1>1, <1>2, <1>4, <1>5, <1>9, <1>10 DEF n, HeardType

\* Frames of the ring are played.
LEMMA OrderTake ==
  ASSUME StreamInv, OrderInv, TakeFrames
  PROVE  OrderInv'
<1> DEFINE n == Least(want, reader.lag)
<1>1. /\ tpc' = "idle" /\ gap' = FALSE /\ (rpc' = rpc \/ (rpc = "waiting" /\ rpc' = "test"))
      /\ UNCHANGED <<input, filePos, readPos, newReadPos, ring, tmp, steady, raced>>
      /\ reader.lag > 0
  BY DEF TakeFrames, Taking, WakeReader, position
<1>2. CASE ~ steady
  BY <1>1, <1>2 DEF OrderInv
<1>3. CASE steady
  <2>1. /\ n \in 1 .. reader.lag /\ reader' = ReadOn(ring, reader, n) /\ input \in Nat \ {0}
        /\ heard' \in Seq(Frames \cup {NoFrame}) /\ Len(heard') = n
        /\ \A k \in 1 .. n : heard'[k] = FrameAhead(k)
    BY <1>3, TakenFrames
  <2> HIDE DEF n
  <2>2. /\ reader.lag \in Nat /\ reader.pos \in Cells /\ ring \in Rings(Frames)
        /\ ring.back \in BOOLEAN /\ Mark \in Int /\ n \in Nat
    BY <2>1, OrderTypes
  <2>3. input # NoInput /\ Placed /\ Fetched /\ Unread /\ Unwritten /\ Follows /\ ~ raced
        /\ rpc # "broken"
    BY <1>3, <2>1 DEF OrderInv, NoInput
  <2>4. reader'.lag = reader.lag - n
    BY <2>1 DEF ReadOn
  <2>5. \A k \in Int : FrameAhead(k)' = FrameAhead(n + k)
    <3>1. Fetching' = Fetching /\ Fetching \in Nat /\ newReadPos \in Int
      BY <1>1, OrderTypes DEF Fetching, StreamInv, FileType
    <3>2. Mark' = IF ring.back THEN Mark - n ELSE Mark + n
      BY <1>1, <2>2, <2>4, <3>1 DEF Mark, backwards
    <3>3. ASSUME NEW k \in Int PROVE FrameAhead(k)' = FrameAhead(n + k)
      <4> DEFINE a == Mark
                 b == Mark'
      <4> HIDE DEF a, b
      <4>1. IF ring.back THEN b - k = a - (n + k) ELSE b + k - 1 = a + (n + k) - 1
        BY <2>2, <3>2 DEF a, b
      <4> QED  BY <1>1, <2>2, <4>1 DEF FrameAhead, backwards, a, b
    <3> QED  BY <3>3
  <2>6. \A k \in Nat : Ahead(ring, reader'.pos, k) = Ahead(ring, reader.pos, n + k)
    <3>1. reader \in [pos : Cells, lag : Nat]
      BY <2>2 DEF StreamInv, RingType
    <3> QED  BY <2>1, <2>2, <3>1, TakenAhead
  <2>7. Unread'
    <3> SUFFICES ASSUME NEW k \in 1 .. reader.lag - n
                 PROVE  ring.cell[Ahead(ring, reader'.pos, k)] = FrameAhead(k)'
      BY <1>1, <2>4 DEF Unread
    <3>1. n + k \in 1 .. reader.lag /\ k \in Nat /\ k \in Int
      BY <2>1, <2>2
    <3> QED  BY <2>3, <2>5, <2>6, <3>1 DEF Unread
  <2>8. LastHeard'
    <3>1. heard'[n] = FrameAhead(n) /\ n + 0 = n
      BY <2>1, <2>2
    <3> QED  BY <2>1, <2>5, <3>1 DEF LastHeard
  <2>9. ring.count # 0
    BY <1>1, <2>3 DEF Unwritten, EndPos
  <2>10. Follows'
    <3> DEFINE m == reader.lag - n
    <3>1. reader.pos \in Int /\ n \in Int /\ -n \in Int /\ -m \in Int /\ m \in Int
          /\ (-n) + (-m) = -reader.lag /\ n + m = reader.lag
      BY <2>1, <2>2, CellNumber
    <3>2. CASE ring.back
      <4>1. Moved(Moved(reader.pos, -n), -m) = Moved(reader.pos, -reader.lag)
        <5> HIDE DEF m
        <5>1. Moved(Moved(reader.pos, -n), -m) = Moved(reader.pos, (-n) + (-m))
          BY <3>1, MovedTwice
        <5> QED  BY <3>1, <5>1
      <4> QED  BY <1>1, <2>1, <2>3, <2>4, <3>2, <4>1 DEF Follows, ReadOn, Advanced, backwards
    <3>3. CASE ~ ring.back
      <4>1. Moved(Moved(reader.pos, n), m) = Moved(reader.pos, reader.lag)
        <5> HIDE DEF m
        <5>1. Moved(Moved(reader.pos, n), m) = Moved(reader.pos, n + m)
          BY <3>1, MovedTwice
        <5> QED  BY <3>1, <5>1
      <4> QED  BY <1>1, <2>1, <2>3, <2>4, <3>3, <4>1 DEF Follows, ReadOn, Advanced, backwards
    <3> QED  BY <3>2, <3>3
  <2>11. Placed' /\ Fetched' /\ Unwritten'
    BY <1>1, <2>3, <2>9 DEF Placed, Fetched, Unwritten, backwards
  <2> QED  BY <1>1, <2>3, <2>7, <2>8, <2>10, <2>11 DEF OrderInv
<1> QED  BY <1>2, <1>3

\* A file is opened: the first one from its start, or it is not steady.
LEMMA OrderSetInput ==
  ASSUME StreamInv, OrderInv, NEW l \in Lengths, SetInput(l)
  PROVE  OrderInv'
<1>1. /\ input' = l /\ filePos' = 0 /\ (rpc' = rpc \/ (rpc = "waiting" /\ rpc' = "test"))
      /\ steady' = (steady /\ input = NoInput)
      /\ UNCHANGED <<readPos, newReadPos, ring, reader, tmp, heard, gap, raced>>
  BY DEF SetInput, sampler, WakeReader
<1>2. CASE ~ steady'
  BY <1>2 DEF OrderInv
<1>3. CASE steady'
  <2>1. steady /\ ring.count = 0 /\ rpc # "write" /\ rpc # "broken" /\ Unwritten /\ Follows /\ ~ raced
    BY <1>1, <1>3 DEF OrderInv, StreamInv, HistoryType
  <2>2. reader = EndPos(ring) /\ heard = <<>> /\ filePos = 0 /\ readPos = 0 /\ newReadPos = 0
    BY <2>1 DEF Unwritten
  <2>3. l \in Nat \ {0} /\ reader.lag = 0
    BY <2>2, Constants DEF EndPos
  <2>4. Placed' /\ Fetched' /\ LastHeard'
    BY <1>1, <2>1, <2>2, <2>3 DEF Placed, Fetched, LastHeard
  <2>5. Unread'
    BY <1>1, <2>3 DEF Unread
  <2>6. Unwritten' /\ Follows'
    BY <1>1, <2>1 DEF Unwritten, Follows, backwards
  <2> QED  BY <1>1, <2>1, <2>3, <2>4, <2>5, <2>6 DEF OrderInv, NoInput
<1> QED  BY <1>2, <1>3

\* The invariant is inductive.
LEMMA OrderNext == StreamInv /\ OrderInv /\ [Next]_vars => OrderInv'
<1> SUFFICES ASSUME StreamInv, OrderInv, [Next]_vars PROVE OrderInv'
  OBVIOUS
<1>1. ASSUME UNCHANGED vars PROVE OrderInv'
  BY <1>1, OrderSame DEF vars, position, sampler
<1>2. ASSUME TestRoom \/ Sleep \/ TestFinished PROVE OrderInv'
  BY <1>2, OrderSame DEF TestRoom, Sleep, TestFinished, position, sampler
<1>3. ASSUME TakeWait \/ \E n \in TakeSizes : StartTake(n) PROVE OrderInv'
  <2>1. steady => input # NoInput \/ tpc = "idle"
    BY DEF OrderInv
  <2>2. CASE ~ steady
    BY <1>3, <2>2 DEF TakeWait, StartTake, OrderInv
  <2>3. CASE steady
    BY <1>3, <2>1, <2>3, OrderSame DEF TakeWait, StartTake, Playing, position
  <2> QED  BY <2>2, <2>3
<1>4. ASSUME Start \/ StopFlag \/ StopNotify \/ Join PROVE OrderInv'
  <2>1. Start => rpc = "none"
    BY DEF Start, StreamInv, Room
  <2> QED  BY <1>4, <2>1, OrderSame DEF Start, StopFlag, StopNotify, Notifying, WakeReader, Join,
              position, sampler
<1> QED  BY <1>1, <1>2, <1>3, <1>4, OrderRead, OrderWrite, OrderSeek, OrderTurn, OrderTake,
            OrderSetInput DEF Next

\* A step plays the file on, or plays nothing.
LEMMA OrderStep ==
  ASSUME StreamInv, OrderInv, [Next]_vars, steady'
  PROVE  /\ rpc' # "broken"
         /\ heard' # heard =>
               /\ \A k \in 1 .. Len(heard') - 1 : heard'[k + 1] = After(heard'[k])
               /\ heard # <<>> /\ ~ gap => heard'[1] = After(heard[Len(heard)])
<1>1. rpc' # "broken"
  BY OrderNext DEF OrderInv
<1>2. SUFFICES ASSUME heard' # heard
               PROVE  /\ \A k \in 1 .. Len(heard') - 1 : heard'[k + 1] = After(heard'[k])
                      /\ heard # <<>> /\ ~ gap => heard'[1] = After(heard[Len(heard)])
  BY <1>1
<1>3. TakeFrames
  BY <1>2 DEF Next, vars, sampler, ReadBlock, WriteBlock, Writing, TestRoom, Sleep, TestFinished,
     Seek, Turn, TakeWait, StartTake, Start, StopFlag, StopNotify, Notifying, Join, SetInput
<1>4. steady
  BY <1>3 DEF TakeFrames, Taking
<1> DEFINE n == Least(want, reader.lag)
<1>5. /\ n \in 1 .. reader.lag /\ Len(heard') = n /\ \A k \in 1 .. n : heard'[k] = FrameAhead(k)
      /\ input \in Nat \ {0}
  BY <1>3, <1>4, TakenFrames
<1> HIDE DEF n
<1>6. reader.lag \in Nat /\ Mark \in Int /\ LastHeard
  BY <1>4, <1>5, OrderTypes DEF OrderInv, NoInput
<1>7. ASSUME NEW k \in 1 .. Len(heard') - 1 PROVE heard'[k + 1] = After(heard'[k])
  <2>1. k \in 1 .. n /\ k + 1 \in 1 .. n /\ k \in Int
    BY <1>5, <1>6
  <2> QED  BY <1>5, <1>6, <2>1, FrameAfter
<1>8. ASSUME heard # <<>>, ~ gap PROVE heard'[1] = After(heard[Len(heard)])
  <2>1. heard[Len(heard)] = FrameAhead(0)
    BY <1>6, <1>8 DEF LastHeard
  <2>2. heard'[1] = FrameAhead(1) /\ 0 + 1 = 1
    BY <1>5, <1>6
  <2> QED  BY <1>5, <1>6, <2>1, <2>2, FrameAfter
<1> QED  BY <1>7, <1>8

-----------------------------------------------------------------------------
\* Types, and the count of the reader less than a ring and a block behind, for any
\* sizes, files and number of turns.
THEOREM StreamTypes == Spec => []TypeOK
  BY StreamInit, StreamNext, StreamProperties, PTL DEF Spec

\* The reader never writes over what has not been played, unless the direction was
\* changed between its test for room and its write (caching_file_input.tpp:236-252).
THEOREM FramesAreKept == Spec => []NothingOverwritten
  BY StreamInit, StreamNext, StreamProperties, PTL DEF Spec

\* What is played is the file, frame after frame and round and round, in the
\* direction it is played in, and every take goes on where the last one ended, for any
\* sizes of the ring and of blocks that the assertion of the constructor and the
\* defaults allow, any files and any takes, however the threads run, as long as no
\* file is turned round half way or replaced.
THEOREM FramesAlwaysInOrder == Spec => FramesInOrder
<1> DEFINE A == steady' =>
          /\ rpc' # "broken"
          /\ heard' # heard =>
                /\ \A k \in 1 .. Len(heard') - 1 : heard'[k + 1] = After(heard'[k])
                /\ heard # <<>> /\ ~ gap => heard'[1] = After(heard[Len(heard)])
<1>1. StreamInv /\ OrderInv /\ [Next]_vars => [A]_vars
  BY OrderStep
<1>2. Spec => [](StreamInv /\ OrderInv)
  BY StreamInit, OrderInit, StreamNext, OrderNext, PTL DEF Spec
<1>3. Spec => [][A]_vars
  BY <1>1, <1>2, PTL DEF Spec
<1> QED  BY <1>3 DEF FramesInOrder
=============================================================================
