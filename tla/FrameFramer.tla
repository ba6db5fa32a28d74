------------------------------ MODULE FrameFramer ------------------------------
(* CapnpFrameFramer (src/rpc/wire/framer.ts): frames out of a byte stream that  *)
(* arrives in chunks of any size, and the two parsers that later read a frame's *)
(* segment table (src/rpc/wire/frame_limits.ts, src/rpc/wire/segments.ts).      *)
(*                                                                              *)
(* A byte stream is a sequence of u32, of which only those of the headers       *)
(* matter; positions and lengths are in bytes.  The buffer holds the bytes of   *)
(* the stream from `start` on; `storage` tells one array from another.          *)
EXTENDS Naturals, Sequences, SequencesExt

CONSTANTS
    Tables,             \* the segment tables that a peer may send: words per segment
    MaxStreamFrames,    \* bound on the frames of a stream
    MaxSegmentCount, MaxTraversalWords, MaxFrameBytes, MaxBufferedBytes,
    ChunkSizes,         \* the sizes of the chunks read
    ValidatesNesting    \* maxNestingDepth is set

ASSUME FramerAssumption ==
    /\ \A table \in Tables : table \in Seq(Nat) /\ table # <<>>
    /\ {MaxStreamFrames, MaxSegmentCount, MaxTraversalWords, MaxFrameBytes,
        MaxBufferedBytes} \subseteq Nat
    /\ ChunkSizes \subseteq Nat \ {0} /\ ValidatesNesting \in BOOLEAN

VARIABLES
    streamTables,          \* the tables of the stream's frames
    arrived,       \* bytes of the stream that were pushed
    start,         \* where in the stream the buffer begins: #length is the rest
    expectedTotal, \* #expectedTotal, 0 for null
    capacity,      \* #buffer.byteLength
    storage,       \* the array of #buffer
    frames,        \* the frames popped: first byte, length, the array they lie in
    framerError    \* what a throw ended the reading with

framerVars == <<streamTables, arrived, start, expectedTotal, capacity, storage, frames, framerError>>

Total(seq) == FoldLeft(LAMBDA x, y : x + y, 0, seq)
PaddingWords(count) == IF count % 2 = 0 THEN 1 ELSE 0
HeaderWords(count) == 1 + count + PaddingWords(count)

\* A frame as the builders lay it out (frameFromSegment for one segment): count
\* minus one, the sizes, the padding, the words, here not to be taken for a header.
Flat(table) ==
    <<Len(table) - 1>> \o table \o [i \in 1 .. PaddingWords(Len(table)) |-> 0]
    \o [i \in 1 .. 2 * Total(table) |-> 9]
FrameSize(table) == 4 * Len(Flat(table))

Stream == FlattenSeq([i \in DOMAIN streamTables |-> Flat(streamTables[i])])
U32(at) == Stream[at \div 4 + 1]
Length == arrived - start

FramerTypeOK ==
    /\ streamTables \in Seq(Tables) /\ start <= arrived /\ arrived <= 4 * Len(Stream)
    /\ {expectedTotal, capacity, storage} \subseteq Nat
    /\ framerError \in {"none", "segments", "words", "frame", "buffer", "nesting"}

FramerInit ==
    /\ streamTables \in BoundedSeq(Tables, MaxStreamFrames)
    /\ arrived = 0 /\ start = 0 /\ expectedTotal = 0
    /\ capacity = 0 /\ storage = 0 /\ frames = <<>> /\ framerError = "none"

\* push(): the limit is on what is not yet drained; the array doubles.
Push(size) ==
    /\ framerError = "none" /\ arrived + size <= 4 * Len(Stream)
    /\ LET needed == Length + size
           doubled == IF needed > 2 * capacity THEN needed ELSE 2 * capacity
       IN IF needed > MaxBufferedBytes
          THEN /\ framerError' = "buffer"
               /\ UNCHANGED <<arrived, capacity, storage>>
          ELSE /\ arrived' = arrived + size
               /\ IF needed <= capacity THEN UNCHANGED <<capacity, storage>>
                  ELSE /\ capacity' = IF doubled < MaxBufferedBytes THEN doubled
                                                                    ELSE MaxBufferedBytes
                       /\ storage' = storage + 1
               /\ UNCHANGED framerError
    /\ UNCHANGED <<streamTables, start, expectedTotal, frames>>

Refused(why) == [total |-> 0, error |-> why]
Expects(total) == [total |-> total, error |-> "none"]

\* Broken form: the padding of an even count is forgotten.
UpdatesUnpadded ==
    IF expectedTotal # 0 \/ Length < 4 THEN Expects(expectedTotal)
    ELSE LET count == U32(start) + 1
             header == 4 * (1 + count)
         IN IF count > MaxSegmentCount THEN Refused("segments")
            ELSE IF Length < header THEN Expects(0)
            ELSE Expects(header + 8 * Total([i \in 1 .. count |-> U32(start + 4 * i)]))

\* updateExpectedTotal(): nothing is decided before the bytes it needs are there;
\* what is decided is kept.
Updates ==
    IF expectedTotal # 0 \/ Length < 4 THEN Expects(expectedTotal)
    ELSE LET count == U32(start) + 1
             header == 4 * HeaderWords(count)
         IN IF count > MaxSegmentCount THEN Refused("segments")
            ELSE IF Length < header THEN Expects(0)
            ELSE LET words == Total([i \in 1 .. count |-> U32(start + 4 * i)])
                     total == header + 8 * words
                 IN IF words > MaxTraversalWords THEN Refused("words")
                    ELSE IF total > MaxFrameBytes THEN Refused("frame")
                    ELSE IF total > MaxBufferedBytes THEN Refused("buffer")
                    ELSE Expects(total)

\* popFrame() with nothing to pop, or with a header over a limit.
PopNothing ==
    /\ framerError = "none"
    /\ LET u == Updates
       IN /\ u.total = 0 \/ Length < u.total
          /\ expectedTotal' = u.total /\ framerError' = u.error
    /\ UNCHANGED <<streamTables, arrived, start, capacity, storage, frames>>

\* A buffer used up is given away and a new one begun; otherwise the frame is copied
\* and the rest moved to the front.
TakesOut(total) ==
    IF Length = total THEN [at |-> storage, next |-> storage + 1, room |-> 0]
                      ELSE [at |-> 0, next |-> storage, room |-> capacity]

\* A frame whose pointers the validation refuses is out of the buffer as well.
PopFrame ==
    /\ framerError = "none"
    /\ LET total == Updates.total
           out == TakesOut(total)
       IN /\ total # 0 /\ Length >= total
          /\ start' = start + total /\ expectedTotal' = 0
          /\ storage' = out.next /\ capacity' = out.room
          /\ \/ /\ frames' = Append(frames, [first |-> start, bytes |-> total,
                                             in |-> out.at])
                /\ UNCHANGED framerError
             \/ /\ ValidatesNesting /\ framerError' = "nesting"
                /\ UNCHANGED frames
    /\ UNCHANGED <<streamTables, arrived>>

FramerNext == (\E size \in ChunkSizes : Push(size)) \/ PopNothing \/ PopFrame

FramerSpec == FramerInit /\ [][FramerNext]_framerVars

(***************************************************************************)
(* The parsers of a popped frame.                                          *)
(***************************************************************************)
\* validateCapnpFrame's parseFrame: the byte ranges of the segments, none when it
\* throws.
ParseFrame(f) ==
    LET count == U32(f.first) + 1
        header == 4 * HeaderWords(count)
        words(n) == Total([i \in 1 .. n |-> U32(f.first + 4 * i)])
    IN IF \/ count > MaxSegmentCount \/ f.bytes < header
          \/ words(count) > MaxTraversalWords
          \/ header + 8 * words(count) > MaxFrameBytes
          \/ f.bytes # header + 8 * words(count)
       THEN <<>>
       ELSE [i \in 1 .. count |-> <<header + 8 * words(i - 1), header + 8 * words(i)>>]

\* segmentsFromFrame: the header rounded up to words, no limit, trailing bytes let be.
SegmentsFromFrame(f) ==
    LET count == U32(f.first) + 1
        header == 8 * ((4 * (1 + count) + 7) \div 8)
        words(n) == Total([i \in 1 .. n |-> U32(f.first + 4 * i)])
    IN IF f.bytes < 8 \/ f.bytes < header \/ header + 8 * words(count) > f.bytes
       THEN <<>>
       ELSE [i \in 1 .. count |-> <<header + 8 * words(i - 1), header + 8 * words(i)>>]

(***************************************************************************)
(* Properties.                                                             *)
(***************************************************************************)
OverLimit(table) ==
    \/ Len(table) > MaxSegmentCount \/ Total(table) > MaxTraversalWords
    \/ FrameSize(table) > MaxFrameBytes \/ FrameSize(table) > MaxBufferedBytes

StartOf(i) == Total([j \in 1 .. (i - 1) |-> FrameSize(streamTables[j])])

\* However the stream is cut into chunks, what is popped are its frames, in order
\* and whole, and both parsers see the same segments in each; a frame over a limit
\* never comes out, and is what an error other than a full buffer is about.  Null
\* comes only while bytes of the next frame are missing.
FramesAsSent ==
    /\ \A i \in DOMAIN frames :
           /\ frames[i].first = StartOf(i) /\ frames[i].bytes = FrameSize(streamTables[i])
           /\ ~OverLimit(streamTables[i])
           /\ Len(ParseFrame(frames[i])) = Len(streamTables[i])
           /\ ParseFrame(frames[i]) = SegmentsFromFrame(frames[i])
    /\ framerError \in {"segments", "words", "frame"} => OverLimit(streamTables[Len(frames) + 1])
    /\ (/\ framerError = "none" /\ Len(frames) < Len(streamTables)
        /\ ~OverLimit(streamTables[Len(frames) + 1]) /\ arrived >= StartOf(Len(frames) + 2))
       => Updates.total = FrameSize(streamTables[Len(frames) + 1])

\* A frame that was given out without a copy is not written over by what arrives
\* later, the buffer never outgrows its limit, and it has room for what it holds.
GivenOutUntouched ==
    /\ \A i \in DOMAIN frames : frames[i].in = storage => frames[i].in = 0
    /\ Length <= capacity /\ capacity <= MaxBufferedBytes
=============================================================================
