---------------------------- MODULE CachingInput ----------------------------
(***************************************************************************)
(* psynth::io::caching_file_input and the sampler node that owns one       *)
(* (graph/node_sampler.cpp).  Three threads:                               *)
(*   - the reader thread (run) copies blocks of the file into the ring;    *)
(*   - the audio thread takes frames, restarts the file, turns it round;   *)
(*   - the owner creates the node, changes the file, destroys the node.    *)
(* Shared state: the ring and the read position, under _buffer_mutex; the  *)
(* position in the file, under _input_mutex; _finished, an atomic that     *)
(* stop() changes with no mutex; _cond, on which the reader waits for room *)
(* and the audio thread for frames.                                        *)
(*                                                                         *)
(* A file is known by its length, and the frame at i of it is <<l, i>>.    *)
(* Everybody but the reader on its way to sleep does all it does under     *)
(* _buffer_mutex in one step, so that the mutex is free unless the reader  *)
(* is at "towait".                                                         *)
(***************************************************************************)
EXTENDS RingBuffer

CONSTANTS ChunkSize,  \* _chunk_size
          Threshold,  \* _threshold
          Lengths,    \* lengths of the files that can be opened
          TakeSizes,  \* frames the audio thread asks for
          MaxFiles,   \* bound: files the owner opens
          MaxTurns    \* bound: changes of direction

\* The first conjunct is the assertion of the constructor.  The second one holds
\* for the defaults (4096 and 16384): a buffer of less than two blocks would be
\* written over what is not read yet.  The third: a file not longer than a block
\* cannot be read backwards twice.
ASSUME CachingAssumption ==
    /\ ChunkSize \in Nat /\ Threshold \in Nat
    /\ ChunkSize < Threshold /\ Threshold < Size
    /\ 2 * Threshold <= Size
    /\ \A l \in Lengths : l \in Nat /\ l > Threshold
    /\ TakeSizes \subseteq Nat \ {0}
    /\ MaxFiles \in Nat /\ MaxTurns \in Nat

NoInput == 0

VARIABLES
    input,       \* _input: the length of the file, or NoInput
    filePos,     \* the position libsndfile keeps for the file
    readPos,     \* _read_pos
    newReadPos,  \* _new_read_pos
    ring,        \* _range
    reader,      \* _read_ptr
    tmp,         \* _tmp_buffer: what the reader thread has just read
    finished,    \* _finished
    rpc,         \* the reader thread
    tpc,         \* the audio thread
    want,        \* frames it asks for
    owner,       \* the thread that creates and destroys the node
    files,       \* files opened so far
    turns,       \* changes of direction so far
    heard,       \* history: the frames of the last take, while steady
    gap,         \* history: a seek since then
    steady,      \* history: neither turned round half way nor given another file
    starved,     \* history: turned round while the reader slept, and not woken
    raced,       \* history: turned round while the reader fetched a block
    missed       \* history: stop() notified the reader before it slept

position == <<filePos, readPos, newReadPos>>
sampler  == <<tpc, want, heard, gap>>
bounds   == <<files, turns>>
vars == <<input, position, ring, reader, tmp, finished, rpc, sampler, owner,
          bounds, steady, starved, raced, missed>>

backwards == ring.back

Frames == UNION {{<<l, i>> : i \in 0 .. l - 1} : l \in Lengths}

Init ==
    /\ input = NoInput
    /\ filePos = 0 /\ readPos = 0 /\ newReadPos = 0
    /\ ring = NewRing
    /\ reader = EndPos(NewRing)
    /\ tmp = <<>>
    /\ finished = TRUE
    /\ rpc = "none"
    /\ tpc = "idle" /\ want = 0
    /\ owner = "new"
    /\ files = 0 /\ turns = 0
    /\ heard = <<>> /\ gap = FALSE /\ steady = TRUE
    /\ starved = FALSE /\ raced = FALSE /\ missed = FALSE

BufferFree == rpc # "towait"

\* _cond.notify_all, for each of the two that may wait.
WakeReader ==
    /\ rpc' = IF rpc = "waiting" THEN "test" ELSE rpc
    /\ starved' = (starved /\ rpc # "waiting")
WakeTaker == tpc' = IF tpc = "waiting" THEN "take" ELSE tpc

-----------------------------------------------------------------------------
(* The reader thread.                                                      *)

\* Where the next block begins, before it is checked against the file: a block
\* before the last one, or the last one of the file, or what is left before it.
BlockStart ==
    LET p == newReadPos - Threshold
    IN  IF ~backwards       THEN newReadPos
        ELSE IF p = -Threshold THEN p + input
        ELSE p

\* Mutant: never cut short.
BlockSizeUncut == Threshold

\* must_read: a block that would begin before the file is cut short.
BlockSize ==
    IF backwards /\ BlockStart < 0 THEN Threshold + BlockStart ELSE Threshold

\* _new_read_pos, once checked.
BlockPos ==
    LET p == IF backwards /\ BlockStart < 0 THEN 0 ELSE BlockStart
    IN  IF p >= input THEN 0 ELSE p

\* The first half of the loop of run (), under _input_mutex.  A negative position
\* fails the assertion, a negative size is undefined: the thread is lost.
ReadBlock ==
    /\ rpc = "read"
    /\ IF input = NoInput
       THEN /\ rpc' = "test" /\ tmp' = <<>>
            /\ UNCHANGED position
       ELSE IF BlockPos < 0 \/ BlockSize < 0
       THEN /\ rpc' = "broken"
            /\ UNCHANGED <<tmp, position>>
       ELSE LET from  == IF BlockPos # readPos THEN BlockPos ELSE filePos
                nread == IF from < input THEN Least(BlockSize, input - from) ELSE 0
            IN  /\ tmp' = [k \in 1 .. nread |-> <<input, from + k - 1>>]
                /\ filePos' = from + nread
                /\ readPos' = IF backwards THEN BlockPos ELSE BlockPos + nread
                /\ newReadPos' = IF ~backwards /\ nread = 0 THEN 0 ELSE readPos'
                /\ rpc' = IF nread > 0 THEN "write" ELSE "test"
    /\ UNCHANGED <<input, ring, reader, finished, sampler, owner, bounds,
                   steady, starved, raced, missed>>

Writing ==
    /\ rpc = "write"
    /\ ring' = Written(ring, tmp)
    /\ reader' = [reader EXCEPT !.lag = @ + Len(tmp)]
    /\ tmp' = <<>>
    /\ rpc' = "test"
    /\ UNCHANGED <<input, position, finished, want, heard, gap, owner, bounds,
                   steady, starved, raced, missed>>

\* Mutant: nobody is notified.
WriteBlockSilent == Writing /\ UNCHANGED tpc

\* The second half, under _buffer_mutex.
WriteBlock == Writing /\ WakeTaker

\* Mutant: waits for a full ring only.
MustWaitFull == ~finished /\ (reader.lag = Size \/ input = NoInput)

MustWait == ~finished /\ (reader.lag > Threshold \/ input = NoInput)

\* The reader holds _buffer_mutex from the test to the wait.
TestRoom ==
    /\ rpc = "test"
    /\ rpc' = IF MustWait THEN "towait" ELSE "outer"
    /\ UNCHANGED <<input, position, ring, reader, tmp, finished, sampler, owner,
                   bounds, steady, starved, raced, missed>>

Sleep ==
    /\ rpc = "towait"
    /\ rpc' = "waiting"
    /\ UNCHANGED <<input, position, ring, reader, tmp, finished, sampler, owner,
                   bounds, steady, starved, raced, missed>>

TestFinished ==
    /\ rpc = "outer"
    /\ rpc' = IF finished THEN "ended" ELSE "read"
    /\ UNCHANGED <<input, position, ring, reader, tmp, finished, sampler, owner,
                   bounds, steady, starved, raced, missed>>

Reader == ReadBlock \/ WriteBlock \/ TestRoom \/ Sleep \/ TestFinished

-----------------------------------------------------------------------------
(* The audio thread: node_sampler::read and restart, while a file is open. *)

Playing == tpc = "idle" /\ input # NoInput /\ owner = "alive"

\* seek (0).  _new_read_pos stays: the reader will seek back to it, and all a
\* restart does is drop what is buffered.
Seek ==
    /\ Playing /\ BufferFree
    /\ filePos' = 0 /\ readPos' = 0
    /\ reader' = EndPos(ring)
    /\ gap' = TRUE
    /\ WakeReader
    /\ UNCHANGED <<input, newReadPos, ring, tmp, finished, tpc, want, heard, owner,
                   bounds, steady, raced, missed>>

\* set_backwards: nobody is woken.
Turn ==
    /\ Playing /\ BufferFree
    /\ turns < MaxTurns
    /\ turns' = turns + 1
    /\ ring' = TurnedRing(ring)
    /\ reader' = Synced(ring', reader)
    /\ newReadPos' =
         LET moved == readPos + reader'.lag - reader.lag
             ahead == newReadPos + moved
         IN  IF ring'.back
             THEN IF moved < 0 THEN moved + ChunkSize ELSE moved
             ELSE IF ahead >= ChunkSize THEN ahead - ChunkSize ELSE ahead
    /\ steady' = (steady /\ filePos = 0 /\ readPos = 0 /\ newReadPos = 0 /\ ring.count = 0)
    /\ starved' = (rpc = "waiting" /\ reader'.lag <= Threshold)
    /\ raced' = \/ raced
                \/ rpc \in {"outer", "read", "write"} /\ reader'.lag + Threshold > Size
    /\ UNCHANGED <<input, filePos, readPos, tmp, finished, rpc, sampler, owner,
                   files, missed>>

StartTake(n) ==
    /\ Playing
    /\ tpc' = "take" /\ want' = n
    /\ UNCHANGED <<input, position, ring, reader, tmp, finished, rpc, heard, gap,
                   owner, bounds, steady, starved, raced, missed>>

TakeWait ==
    /\ tpc = "take" /\ BufferFree
    /\ reader.lag <= 0
    /\ tpc' = "waiting"
    /\ UNCHANGED <<input, position, ring, reader, tmp, finished, rpc, want, heard,
                   gap, owner, bounds, steady, starved, raced, missed>>

Taking(n) ==
    /\ tpc = "take" /\ BufferFree
    /\ reader.lag > 0
    /\ LET frames == FramesAt(ring, reader, n)
       IN  /\ heard' = IF ~steady       THEN <<>>
                       ELSE IF backwards THEN [k \in 1 .. n |-> frames[n + 1 - k]]
                       ELSE frames
           /\ reader' = ReadOn(ring, reader, n)
    /\ IF reader'.lag < Threshold THEN WakeReader ELSE UNCHANGED <<rpc, starved>>
    /\ gap' = FALSE
    /\ tpc' = "idle" /\ want' = 0
    /\ UNCHANGED <<input, position, ring, tmp, finished, owner, bounds, steady,
                   raced, missed>>

\* Mutant: takes what is not there.
TakeFramesUnbounded == Taking(want)

TakeFrames == Taking(Least(want, reader.lag))

Take == TakeWait \/ TakeFrames

-----------------------------------------------------------------------------
(* The owner.                                                              *)

\* The node starts its reader before it has a file.
Start ==
    /\ owner = "new"
    /\ owner' = "alive"
    /\ finished' = FALSE
    /\ rpc' = "read"
    /\ UNCHANGED <<input, position, ring, reader, tmp, sampler, bounds, steady,
                   starved, raced, missed>>

\* on_file_change and set_input, under m_update_mutex of the node, which take ()
\* is called with.  The positions stay those of the file before.
SetInput(l) ==
    /\ owner = "alive" /\ tpc = "idle" /\ BufferFree
    /\ files < MaxFiles
    /\ files' = files + 1
    /\ input' = l /\ filePos' = 0
    /\ steady' = (steady /\ input = NoInput)
    /\ WakeReader
    /\ UNCHANGED <<readPos, newReadPos, ring, reader, tmp, finished, sampler, owner,
                   turns, raced, missed>>

\* stop (), when the node is destroyed: the graph does not process it any more.
StopFlag ==
    /\ owner = "alive" /\ tpc = "idle"
    /\ owner' = "notify"
    /\ finished' = TRUE
    /\ UNCHANGED <<input, position, ring, reader, tmp, rpc, sampler, bounds, steady,
                   starved, raced, missed>>

\* The mutex is not taken: the reader may be about to wait.
Notifying ==
    /\ owner = "notify"
    /\ owner' = "join"
    /\ missed' = (rpc = "towait")
    /\ UNCHANGED <<input, position, ring, reader, tmp, finished, sampler, bounds,
                   steady, raced>>

\* Mutant: nobody is notified.
StopNotifySilent == Notifying /\ UNCHANGED <<rpc, starved>>

StopNotify == Notifying /\ WakeReader

Join ==
    /\ owner = "join" /\ rpc = "ended"
    /\ owner' = "gone"
    /\ rpc' = "none"
    /\ finished' = FALSE
    /\ UNCHANGED <<input, position, ring, reader, tmp, sampler, bounds, steady,
                   starved, raced, missed>>

Next ==
    \/ ReadBlock \/ WriteBlock \/ TestRoom \/ Sleep \/ TestFinished
    \/ Seek \/ Turn \/ TakeWait \/ TakeFrames
    \/ \E n \in TakeSizes : StartTake(n)
    \/ Start \/ StopFlag \/ StopNotify \/ Join
    \/ \E l \in Lengths : SetInput(l)

\* The threads run; what the user asks of them need not happen.
Spec == Init /\ [][Next]_vars
        /\ WF_vars(Reader) /\ WF_vars(Take)
        /\ WF_vars(StopNotify) /\ WF_vars(Join)

-----------------------------------------------------------------------------
(* Properties.                                                             *)

\* Types.  The count of the reader stays behind that of the writer, whatever
\* the races, by less than a ring and a block.
TypeOK ==
    /\ input \in Lengths \cup {NoInput}
    /\ filePos \in Nat /\ readPos \in Int /\ newReadPos \in Int
    /\ ring \in Rings(Frames)
    /\ reader \in [pos: Cells, lag: 0 .. Size + Threshold]
    /\ tmp \in Seq(Frames) /\ Len(tmp) <= Threshold
    /\ finished \in BOOLEAN
    /\ rpc \in {"none", "read", "write", "test", "towait", "waiting", "outer",
                "ended", "broken"}
    /\ tpc \in {"idle", "take", "waiting"} /\ want \in TakeSizes \cup {0}
    /\ owner \in {"new", "alive", "notify", "join", "gone"}
    /\ files \in 0 .. MaxFiles /\ turns \in 0 .. MaxTurns
    /\ heard \in Seq(Frames \cup {NoFrame})
    /\ {gap, steady, starved, raced, missed} \subseteq BOOLEAN

\* The reader never writes over what has not been played, although it tests for
\* room in one critical section (caching_file_input.tpp:246-252) and writes in a
\* later one: only a change of direction in between can fill the room.
NothingOverwritten == reader.lag > Size => raced

\* The file goes round in both directions.
After(frame) ==
    << frame[1], (frame[2] + (IF backwards THEN -1 ELSE 1)) % frame[1] >>

\* What is played is the file, frame after frame, round and round, and every
\* take goes on where the last one ended, however the reader is scheduled, and
\* the reader computes no position before the file and no block of negative size
\* (the assertions of caching_file_input.tpp:211-212): as long as nobody has
\* turned a file half way or opened another.
FramesInOrder ==
    [][ steady' =>
          /\ rpc' # "broken"
          /\ heard' # heard =>
                /\ \A k \in 1 .. Len(heard') - 1 : heard'[k + 1] = After(heard'[k])
                /\ heard # <<>> /\ ~gap => heard'[1] = After(heard[Len(heard)]) ]_vars

\* take () returns: the audio thread and the reader do not wait for each other,
\* unless the file was turned round while the reader slept and nothing is left
\* to play in the new direction, or the reader has failed.
TakeReturns ==
    tpc # "idle" ~> \/ tpc = "idle" \/ rpc = "broken"
                    \/ starved /\ reader.lag = 0

\* stop () returns, unless its notification came between the test of the reader
\* and its wait, or the reader has failed.
StopReturns == owner = "join" ~> owner = "gone" \/ missed \/ rpc = "broken"
=============================================================================
