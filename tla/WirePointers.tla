------------------------------ MODULE WirePointers ------------------------------
(* Pointers of a Cap'n Proto message and everything that follows them: the       *)
(* validation of a received frame (src/rpc/wire/frame_limits.ts), the resolvers  *)
(* and decoders of the RPC layer (src/rpc/wire/pointers.ts) and of the encoding  *)
(* runtime (src/encoding/runtime_message.ts), the reader of the code generator   *)
(* (tools/capnpc-deno/capnp_reader.ts), and the copies that flatten a pointer     *)
(* into a message of one segment and embed it in another                         *)
(* (src/rpc/wire/pointers.ts, src/encoding/runtime_codec.ts).                    *)
(*                                                                               *)
(* A message is a sequence of segments of words; segments and words are numbered *)
(* from zero as in the code.  A word is what its two low bits say it is; a word  *)
(* of data is a Cap word, which every follower passes on unread.                 *)
EXTENDS Integers, Sequences, SequencesExt

CONSTANTS
    Shapes,        \* the objects that a sender may put behind a pointer
    Damages,       \* the words that may stand where they should not
    MaxSegments, MaxMessageWords, MaxDamagedWords,  \* bounds on the messages
    HopLimit,      \* FAR_POINTER_HOP_LIMIT
    OffsetRange,   \* two to the number of bits of an offset (2^30)
    ByteBits,      \* bits of a byte (8)
    MaxNestingDepth,
    DefaultMaxWork, DefaultMaxOutputWords,  \* the copy budget of a caller without options
    MaxWork, MaxOutputWords                 \* and of one that gives smaller ones

ASSUME WireAssumption ==
    /\ {MaxSegments, HopLimit, OffsetRange, ByteBits} \subseteq Nat \ {0}
    /\ {MaxMessageWords, MaxDamagedWords, MaxNestingDepth, MaxWork, MaxOutputWords,
        DefaultMaxWork, DefaultMaxOutputWords} \subseteq Nat

VARIABLES
    message,       \* the segments
    unset,         \* the pointer slots that the sender has not set yet: <<segment, word>>
    damaged        \* whether a word of it was changed

wireVars == <<message, unset, damaged>>

(***************************************************************************)
(* Words.                                                                  *)
(***************************************************************************)
Struct(offset, data, ptrs) == [kind |-> "struct", offset |-> offset, data |-> data, ptrs |-> ptrs]
List(offset, size, count) == [kind |-> "list", offset |-> offset, size |-> size, count |-> count]
Far(double, seg, at) == [kind |-> "far", double |-> double, seg |-> seg, at |-> at]
CapWord(id) == [kind |-> "cap", id |-> id]
\* The word zero is a struct pointer too.
Null == Struct(0, 0, 0)
\* A word of data, of which the parts are known.
DataWord(parts) == IF \A i \in DOMAIN parts : parts[i] = 0 THEN Null ELSE CapWord(parts)

\* The tag of an inline composite list has its element count for an offset, unsigned.
TagCount(tag) == tag.offset % OffsetRange

CeilDiv(a, b) == (a + b - 1) \div b

\* The words of a list that is not inline composite, by element size code
\* (wordsForFlatList, listDataWords, flatListWords and the copy's own).
FlatWords(size, count) ==
    CASE size = 0 -> 0 [] size = 1 -> CeilDiv(count, 8 * ByteBits) [] size = 2 -> CeilDiv(count, 8)
      [] size = 3 -> CeilDiv(count, 4) [] size = 4 -> CeilDiv(count, 2)
      [] size \in {5, 6} -> count

\* requireWordRange, ensureSegmentRange: in a segment that exists, and inside it.
InRange(msg, seg, start, count) ==
    seg \in 0 .. (Len(msg) - 1) /\ start >= 0 /\ start + count <= Len(msg[seg + 1])
WordAt(msg, seg, at) == msg[seg + 1][at + 1]

(***************************************************************************)
(* The resolvers of far pointers.  They differ in what a double-far pointer *)
(* lands on.                                                               *)
(***************************************************************************)
Bad == [ok |-> FALSE]
Resolved(seg, at, word) == [ok |-> TRUE, seg |-> seg, at |-> at, word |-> word, content |-> -1]

\* pad[0] of a double-far pointer is a single-far pointer.
PadIsSound(msg, far) ==
    /\ InRange(msg, far.seg, far.at, 2)
    /\ LET pad == WordAt(msg, far.seg, far.at) IN pad.kind = "far" /\ ~pad.double

\* Broken form: the pointer is taken to lie on the target word.
LandsAt(msg, far) ==
    LET pad == WordAt(msg, far.seg, far.at)
    IN IF InRange(msg, pad.seg, pad.at, 1)
       THEN Resolved(pad.seg, pad.at, WordAt(msg, far.seg, far.at + 1)) ELSE Bad

\* pointers.ts resolvePointer: a target word has to exist, and the pointer is taken
\* to lie just before it.
LandsBefore(msg, far) ==
    LET pad == WordAt(msg, far.seg, far.at)
    IN IF InRange(msg, pad.seg, pad.at, 1)
       THEN Resolved(pad.seg, pad.at - 1, WordAt(msg, far.seg, far.at + 1)) ELSE Bad

\* runtime_message.ts resolvePointer: the same place, which is also remembered as
\* that of the content.
LandsOn(msg, far) ==
    LET pad == WordAt(msg, far.seg, far.at)
    IN [Resolved(pad.seg, pad.at - 1, WordAt(msg, far.seg, far.at + 1))
           EXCEPT !.content = pad.at]

RECURSIVE Follow(_, _, _, _, _, _)
\* How: "before" and "on" as above; "at" is frame_limits.ts resolvePointer, which
\* takes the target word for the place of the pointer and looks at the tag as at any
\* other pointer; "tool" is that of capnp_reader.ts, which does the same without a look
\* at the target word.
Follow(msg, seg, at, word, hops, how) ==
    IF hops = 0 THEN Bad
    ELSE IF word.kind # "far" THEN Resolved(seg, at, word)
    ELSE IF ~word.double
         THEN IF InRange(msg, word.seg, word.at, 1)
              THEN Follow(msg, word.seg, word.at, WordAt(msg, word.seg, word.at), hops - 1, how)
              ELSE Bad
    ELSE IF ~PadIsSound(msg, word) THEN Bad
    ELSE CASE how = "before" -> LandsBefore(msg, word)
           [] how = "on" -> LandsOn(msg, word)
           [] how = "at" ->
                LET pad == WordAt(msg, word.seg, word.at)
                IN IF InRange(msg, pad.seg, pad.at, 1)
                   THEN Follow(msg, pad.seg, pad.at, WordAt(msg, word.seg, word.at + 1),
                               hops - 1, how)
                   ELSE Bad
           [] how = "tool" ->
                LET pad == WordAt(msg, word.seg, word.at)
                IN Follow(msg, pad.seg, pad.at, WordAt(msg, word.seg, word.at + 1), hops - 1,
                          how)

Resolve(msg, seg, at, how) ==
    IF InRange(msg, seg, at, 1) THEN Follow(msg, seg, at, WordAt(msg, seg, at), HopLimit, how)
                                ELSE Bad

(***************************************************************************)
(* The readers.  A reader gives what it found, Bad for a throw or Absent.  *)
(***************************************************************************)
Absent == [ok |-> TRUE, is |-> "absent"]
StructRef(seg, start, data, ptrs) ==
    [ok |-> TRUE, is |-> "struct", seg |-> seg, start |-> start, data |-> data, ptrs |-> ptrs]
FlatRef(seg, start, size, count) ==
    [ok |-> TRUE, is |-> "flat", seg |-> seg, start |-> start, size |-> size, count |-> count]
CompositeRef(seg, tag, count, data, ptrs) ==
    [ok |-> TRUE, is |-> "composite", seg |-> seg, tag |-> tag, count |-> count,
     data |-> data, ptrs |-> ptrs]

Content(r) == r.at + 1 + r.word.offset

\* decodeStructPointer
DecodeStructPointer(msg, seg, at) ==
    LET r == Resolve(msg, seg, at, "before")
    IN IF ~r.ok THEN Bad ELSE IF r.word = Null THEN Absent
       ELSE IF r.word.kind # "struct" THEN Bad
       ELSE IF ~InRange(msg, r.seg, Content(r), r.word.data + r.word.ptrs) THEN Bad
       ELSE StructRef(r.seg, Content(r), r.word.data, r.word.ptrs)

\* decodeByteListPointer
DecodeByteListPointer(msg, seg, at) ==
    LET r == Resolve(msg, seg, at, "before")
    IN IF ~r.ok THEN Bad ELSE IF r.word = Null THEN Absent
       ELSE IF r.word.kind # "list" THEN Bad ELSE IF r.word.size # 2 THEN Bad
       ELSE IF ~InRange(msg, r.seg, Content(r), CeilDiv(r.word.count, 8)) THEN Bad
       ELSE FlatRef(r.seg, Content(r), 2, r.word.count)

\* decodeStructListPointer: the tag is looked at, the elements are not.
DecodeStructListPointer(msg, seg, at) ==
    LET r == Resolve(msg, seg, at, "before")
    IN IF ~r.ok THEN Bad ELSE IF r.word = Null THEN Absent
       ELSE IF r.word.kind # "list" THEN Bad ELSE IF r.word.size # 7 THEN Bad
       ELSE IF ~InRange(msg, r.seg, Content(r), 1) THEN Bad
       ELSE LET tag == WordAt(msg, r.seg, Content(r))
            IN IF tag.kind # "struct" THEN Bad
               ELSE CompositeRef(r.seg, Content(r), TagCount(tag), tag.data, tag.ptrs)

\* readStructPointer: the zero tag of a double-far pointer is a struct, and its offset
\* has to be zero.
ReadStructPointer(msg, seg, at) ==
    LET r == Resolve(msg, seg, at, "on")
    IN IF ~r.ok THEN Bad ELSE IF r.word = Null /\ r.content < 0 THEN Absent
       ELSE IF r.word.kind # "struct" THEN Bad
       ELSE IF r.content >= 0 /\ r.word.offset # 0 THEN Bad
       ELSE IF ~InRange(msg, r.seg, Content(r), r.word.data + r.word.ptrs) THEN Bad
       ELSE StructRef(r.seg, Content(r), r.word.data, r.word.ptrs)

\* readListPointer
ReadListPointer(msg, seg, at) ==
    LET r == Resolve(msg, seg, at, "on")
    IN IF ~r.ok THEN Bad ELSE IF r.word = Null /\ r.content < 0 THEN Absent
       ELSE IF r.word.kind # "list" THEN Bad
       ELSE IF r.word.size # 7
            THEN IF InRange(msg, r.seg, Content(r), FlatWords(r.word.size, r.word.count))
                 THEN FlatRef(r.seg, Content(r), r.word.size, r.word.count) ELSE Bad
       ELSE IF ~InRange(msg, r.seg, Content(r), 1) THEN Bad
       ELSE LET tag == WordAt(msg, r.seg, Content(r))
            IN IF tag.kind # "struct" THEN Bad
               ELSE IF (tag.data + tag.ptrs) * TagCount(tag) > r.word.count THEN Bad
               ELSE IF ~InRange(msg, r.seg, Content(r) + 1, r.word.count) THEN Bad
               ELSE CompositeRef(r.seg, Content(r), TagCount(tag), tag.data, tag.ptrs)

ToolResolve(msg, seg, at) == Resolve(msg, seg, at, "tool")

\* readStruct of the code generator's StructReader, where no object is checked to lie
\* in its segment; the words of it are, when they are read.
ToolReadStruct(msg, seg, at) ==
    LET r == ToolResolve(msg, seg, at)
    IN IF ~r.ok THEN Bad ELSE IF r.word = Null THEN Absent
       ELSE IF r.word.kind # "struct" THEN Bad
       ELSE StructRef(r.seg, Content(r), r.word.data, r.word.ptrs)

\* root(), of which a null pointer is an error.
ToolRoot(msg) ==
    LET root == ToolReadStruct(msg, 0, 0) IN IF root = Absent THEN Bad ELSE root

\* readStructList
ToolReadStructList(msg, seg, at) ==
    LET r == ToolResolve(msg, seg, at)
    IN IF ~r.ok THEN Bad ELSE IF r.word = Null THEN Absent
       ELSE IF r.word.kind # "list" THEN Bad ELSE IF r.word.size # 7 THEN Bad
       ELSE IF ~InRange(msg, r.seg, Content(r), 1) THEN Bad
       ELSE LET tag == WordAt(msg, r.seg, Content(r))
            IN IF \/ tag.kind # "struct"
                  \/ (tag.data + tag.ptrs) * TagCount(tag) > r.word.count
               THEN Bad
               ELSE CompositeRef(r.seg, Content(r), TagCount(tag), tag.data, tag.ptrs)

\* readByteList
ToolReadByteList(msg, seg, at) ==
    LET r == ToolResolve(msg, seg, at)
    IN IF ~r.ok THEN Bad ELSE IF r.word = Null THEN Absent
       ELSE IF r.word.kind # "list" THEN Bad ELSE IF r.word.size # 2 THEN Bad
       ELSE IF ~InRange(msg, r.seg, Content(r), CeilDiv(r.word.count, 8)) THEN Bad
       ELSE FlatRef(r.seg, Content(r), 2, r.word.count)

\* What they find in a slot, by the kind of its pointer.
ReadBy(r, msg, slot) ==
    IF ~r.ok THEN Bad
    ELSE IF r.word.kind = "cap" THEN [ok |-> TRUE, is |-> "cap", id |-> r.word.id]
    ELSE IF r.word.kind = "struct" THEN ReadStructPointer(msg, slot[1], slot[2])
    ELSE ReadListPointer(msg, slot[1], slot[2])
Read(msg, slot) == ReadBy(Resolve(msg, slot[1], slot[2], "on"), msg, slot)

\* The pointer slots of what a reader found, as <<segment, word>>, in order.
Slots(ref) ==
    CASE ref.is = "struct" ->
             [i \in 1 .. ref.ptrs |-> <<ref.seg, ref.start + ref.data + i - 1>>]
      [] ref.is = "flat" ->
             [i \in 1 .. (IF ref.size = 6 THEN ref.count ELSE 0) |-> <<ref.seg, ref.start + i - 1>>]
      [] ref.is = "composite" ->
             LET stride == ref.data + ref.ptrs
             IN [i \in 1 .. ref.count * ref.ptrs |->
                    <<ref.seg, ref.tag + 1 + ((i - 1) \div ref.ptrs) * stride
                               + ref.data + ((i - 1) % ref.ptrs)>>]
      [] OTHER -> <<>>

(***************************************************************************)
(* validateCapnpFrame: the walk of the pointers of a frame.                *)
(***************************************************************************)
\* What a resolved pointer points at: the object, checked to lie in its segment.
WalkTarget(msg, r) ==
    IF r.word.kind = "cap" THEN Absent
    ELSE IF r.word.kind = "struct"
         THEN IF InRange(msg, r.seg, Content(r), r.word.data + r.word.ptrs)
              THEN StructRef(r.seg, Content(r), r.word.data, r.word.ptrs) ELSE Bad
    ELSE IF r.word.size # 7
         THEN IF InRange(msg, r.seg, Content(r), FlatWords(r.word.size, r.word.count))
              THEN FlatRef(r.seg, Content(r), r.word.size, r.word.count) ELSE Bad
    ELSE IF ~InRange(msg, r.seg, Content(r), 1) THEN Bad
    ELSE LET tag == WordAt(msg, r.seg, Content(r))
         IN IF \/ tag.kind # "struct"
               \/ (tag.data + tag.ptrs) * TagCount(tag) > r.word.count
               \/ ~InRange(msg, r.seg, Content(r) + 1, r.word.count)
            THEN Bad
            ELSE CompositeRef(r.seg, Content(r), TagCount(tag), tag.data, tag.ptrs)

RECURSIVE Walk(_, _, _)
\* enforceNestingDepth: `pending` is a stack of <<slot, depth>>, and one that was seen
\* is not looked at again.
Walk(msg, pending, seen) ==
    IF pending = <<>> THEN TRUE
    ELSE LET state == Last(pending)
             rest == Front(pending)
             r == Resolve(msg, state[1][1], state[1][2], "at")
         IN IF state \in seen THEN Walk(msg, rest, seen)
            ELSE IF ~r.ok THEN FALSE
            ELSE IF r.word = Null THEN Walk(msg, rest, seen \cup {state})
            ELSE IF state[2] > MaxNestingDepth THEN FALSE
            ELSE LET target == WalkTarget(msg, r)
                 IN /\ target.ok
                    /\ LET slots == Slots(target)
                       IN Walk(msg, rest \o [i \in DOMAIN slots |-> <<slots[i], state[2] + 1>>],
                               seen \cup {state})

ValidateCapnpFrame(msg) == Walk(msg, <<<<<<0, 0>>, 1>>>>, {})

(***************************************************************************)
(* The copies.  A buffer is the words of the segment being built, its root  *)
(* first; <<>> stands for a throw.                                          *)
(***************************************************************************)
Thrown == <<>>
Alloc(buf, count) == buf \o [i \in 1 .. count |-> Null]
Put(buf, at, word) == [buf EXCEPT ![at + 1] = word]
Words(msg, seg, start, count) == [i \in 1 .. count |-> WordAt(msg, seg, start + i - 1)]
PutAll(buf, at, words) ==
    [i \in DOMAIN buf |-> IF i - at \in DOMAIN words THEN words[i - at] ELSE buf[i]]

\* Broken form: an empty struct gets the offset of its content, which may be zero.
PointsPlain(ref, dst, start) ==
    CASE ref.is = "struct" -> Struct(start - (dst + 1), ref.data, ref.ptrs)
      [] ref.is = "flat" -> List(start - (dst + 1), ref.size, ref.count)

\* setStructPointer and setListPointer of MessageBuilder: an empty struct has the
\* offset -1, which tells it from null.
Points(ref, dst, start) ==
    CASE ref.is = "struct" ->
             Struct(IF ref.data = 0 /\ ref.ptrs = 0 THEN -1 ELSE start - (dst + 1), ref.data, ref.ptrs)
      [] ref.is = "flat" -> List(start - (dst + 1), ref.size, ref.count)

RECURSIVE DeepCopyPointer(_, _, _, _)
\* deepCopyPointer and deepCopySubPointer (pointers.ts), of a pointer that is resolved.
DeepCopyPointer(msg, r, buf, dst) ==
    LET start == Len(buf)
        moved == [r.word EXCEPT !.offset = start - (dst + 1)]
        \* The slots from `from` on copied to those from `to` on.
        Sub(b, from, to) ==
            LET s == Resolve(msg, r.seg, from, "before")
            IN IF b = Thrown \/ ~s.ok THEN Thrown ELSE DeepCopyPointer(msg, s, b, to)
        SubAll(b, offsets) ==
            FoldLeft(LAMBDA c, o : Sub(c, Content(r) + o, start + o), b, offsets)
        Filled(count, data) == PutAll(Put(Alloc(buf, count), dst, moved), start, data)
    IN IF r.word.kind = "cap" \/ r.word = Null THEN Put(buf, dst, r.word)
       ELSE IF r.word.kind = "far" THEN Thrown
       ELSE IF r.word.kind = "struct"
            THEN SubAll(Filled(r.word.data + r.word.ptrs, Words(msg, r.seg, Content(r), r.word.data)),
                        [i \in 1 .. r.word.ptrs |-> r.word.data + i - 1])
       ELSE IF r.word.size = 6
            THEN SubAll(Filled(r.word.count, <<>>), [i \in 1 .. r.word.count |-> i - 1])
       ELSE IF r.word.size # 7
            THEN LET words == FlatWords(r.word.size, r.word.count)
                 IN Filled(words, Words(msg, r.seg, Content(r), words))
       ELSE LET tag == WordAt(msg, r.seg, Content(r))
                stride == tag.data + tag.ptrs
                \* the data words alone; the slots are set by what follows
                body == [i \in 1 .. (1 + TagCount(tag) * stride) |->
                            IF i = 1 THEN tag
                            ELSE IF (i - 2) % stride < tag.data
                                 THEN WordAt(msg, r.seg, Content(r) + i - 1) ELSE Null]
            IN SubAll(Filled(Len(body), body),
                      [i \in 1 .. TagCount(tag) * tag.ptrs |->
                          1 + ((i - 1) \div tag.ptrs) * stride + tag.data + ((i - 1) % tag.ptrs)])

\* extractPointerContentAsMessage; the message of a null pointer is one null word.
ExtractPointerContent(msg, seg, at) ==
    LET r == Resolve(msg, seg, at, "before")
    IN IF ~r.ok THEN Thrown ELSE DeepCopyPointer(msg, r, <<Null>>, 0)

\* AnyPointerCopyOptions: the layers around the copies pass none.
DefaultOptions == [maxWork |-> DefaultMaxWork, maxOutputWords |-> DefaultMaxOutputWords]
SmallOptions == [maxWork |-> MaxWork, maxOutputWords |-> MaxOutputWords]

\* AnyPointerCopyBudget: what is left of it, with the buffer it pays for.
Charge(st, work, output) ==
    IF st.buf = Thrown \/ work > st.work \/ output > st.output THEN [st EXCEPT !.buf = Thrown]
    ELSE [st EXCEPT !.work = @ - work, !.output = @ - output]

RECURSIVE DeepCopyAnyPointer(_, _, _, _, _)
\* The part of it below the resolved pointer `r`, in which `ref` was read; its visit is paid.
CopyTarget(msg, r, ref, st, dst, depth) ==
    LET start == Len(st.buf)
        base == IF ref.is = "composite" THEN ref.tag ELSE ref.start
        Down(s, slot) ==
            IF s.buf = Thrown THEN s
            ELSE DeepCopyAnyPointer(msg, slot, s, start + (slot[2] - base), depth + 1)
        \* What is copied costs this much and looks like that.
        Filled(work, count, data, word) ==
            LET s == Charge(st, work, count)
            IN IF s.buf = Thrown THEN s
               ELSE FoldLeft(Down, [s EXCEPT !.buf = PutAll(Put(Alloc(@, count), dst, word), start, data)],
                             Slots(ref))
    IN IF st.buf = Thrown \/ depth > MaxNestingDepth \/ ~r.ok THEN [st EXCEPT !.buf = Thrown]
       ELSE IF (r.word = Null /\ r.content < 0) \/ r.word.kind = "cap"
            THEN [st EXCEPT !.buf = Put(@, dst, r.word)]
       ELSE IF r.word.kind = "far" \/ ~ref.ok THEN [st EXCEPT !.buf = Thrown]
       ELSE CASE ref.is = "struct" ->
                   Filled(ref.data, ref.data + ref.ptrs, Words(msg, ref.seg, ref.start, ref.data),
                          Points(ref, dst, start))
              [] ref.is = "flat" ->
                   Filled(ref.count + FlatWords(ref.size, ref.count), FlatWords(ref.size, ref.count),
                          IF ref.size = 6 THEN <<>>
                          ELSE Words(msg, ref.seg, ref.start, FlatWords(ref.size, ref.count)),
                          Points(ref, dst, start))
              [] ref.is = "composite" ->
                   Filled(ref.count + r.word.count, 1 + r.word.count,
                          Words(msg, ref.seg, ref.tag, 1 + r.word.count),
                          List(start - (dst + 1), 7, r.word.count))

\* deepCopyAnyPointer (runtime_codec.ts): everything is charged before it is allocated.
DeepCopyAnyPointer(msg, slot, st, dst, depth) ==
    CopyTarget(msg, Resolve(msg, slot[1], slot[2], "on"), Read(msg, slot), Charge(st, 1, 0), dst, depth)

\* decodeAnyPointerMessageFromReader: the copy owns a root slot.
DecodeAnyPointerMessage(msg, seg, at, options) ==
    LET budget == Charge([buf |-> <<Null>>, work |-> options.maxWork,
                          output |-> options.maxOutputWords], 0, 1)
    IN IF budget.buf = Thrown THEN Thrown
       ELSE DeepCopyAnyPointer(msg, <<seg, at>>, budget, 0, 0).buf

\* rebaseCopiedRootPointer, rebaseCopiedAnyPointerRootPointer, rebasePointerWord: the
\* same target seen from another place, and null for what comes out as zero.
Rebase(word, from, to) ==
    IF word = Null \/ word.kind \notin {"struct", "list"} THEN word
    ELSE [word EXCEPT !.offset = from + word.offset - to]

\* encodeAnyPointerMessageIntoBuilder: the source is flattened before anything is
\* allocated; all its words, the root's too, are appended.
Embed(buf, dst, flat) ==
    IF flat = Thrown THEN Thrown
    ELSE IF flat[1] = Null THEN Put(buf, dst, Null)
    ELSE Put(buf \o flat, dst, Rebase(flat[1], Len(buf), dst))
EncodeAnyPointerMessage(buf, dst, msg, options) ==
    Embed(buf, dst, DecodeAnyPointerMessage(msg, 0, 0, options))

(***************************************************************************)
(* The messages: what a sender lays out, of which one word may then be     *)
(* damaged.                                                                *)
(***************************************************************************)
Body(shape) ==
    LET words(data, ptrs) == [i \in 1 .. data |-> CapWord(10 + i)] \o [i \in 1 .. ptrs |-> Null]
    IN CASE shape.is = "struct" -> words(shape.data, shape.ptrs)
         [] shape.is = "flat" ->
              IF shape.size = 6 THEN words(0, shape.count)
                                ELSE words(FlatWords(shape.size, shape.count), 0)
         [] shape.is = "composite" ->
              <<Struct(shape.count, shape.data, shape.ptrs)>>
              \o FlattenSeq([i \in 1 .. shape.count |-> words(shape.data, shape.ptrs)])

\* The slots of a body, as words of it.
Unset(shape) ==
    LET ref == CASE shape.is = "struct" -> StructRef(0, 0, shape.data, shape.ptrs)
                 [] shape.is = "flat" -> FlatRef(0, 0, shape.size, shape.count)
                 [] shape.is = "composite" -> CompositeRef(0, 0, shape.count, shape.data, shape.ptrs)
    IN [i \in DOMAIN Slots(ref) |-> Slots(ref)[i][2]]

PointerTo(shape, offset) ==
    CASE shape.is = "struct" ->
             Struct(IF shape.data = 0 /\ shape.ptrs = 0 THEN -1 ELSE offset, shape.data, shape.ptrs)
      [] shape.is = "flat" -> List(offset, shape.size, shape.count)
      [] shape.is = "composite" -> List(offset, 7, shape.count * (shape.data + shape.ptrs))

Size(msg) == FoldLeft(LAMBDA n, segment : n + Len(segment), 0, msg)
SetWord(msg, slot, word) == [msg EXCEPT ![slot[1] + 1] = Put(@, slot[2], word)]
Grow(msg, seg, words) == [msg EXCEPT ![seg + 1] = @ \o words]

WireInit ==
    /\ \E n \in 1 .. MaxSegments : message = [i \in 1 .. n |-> IF i = 1 THEN <<Null>> ELSE <<>>]
    /\ unset = <<<<0, 0>>>> /\ damaged = FALSE

\* The first unset slot is set, its object laid out in segment `seg` from the word that
\* is free there after `pads` words of landing pad.
Lay(shape, msg, seg, word) ==
    /\ message' = Grow(SetWord(msg, Head(unset), word), seg, Body(shape))
    /\ unset' = Tail(unset)
               \o [i \in DOMAIN Unset(shape) |-> <<seg, Len(msg[seg + 1]) + Unset(shape)[i]>>]
    /\ Size(message') <= MaxMessageWords

SetLeaf(word) ==
    /\ unset # <<>>
    /\ message' = SetWord(message, Head(unset), word) /\ unset' = Tail(unset)
    /\ UNCHANGED damaged

SetNear(shape) ==
    /\ unset # <<>>
    /\ LET seg == Head(unset)[1]
       IN Lay(shape, message, seg,
              PointerTo(shape, Len(message[seg + 1]) - (Head(unset)[2] + 1)))
    /\ UNCHANGED damaged

SetFar(shape, seg) ==
    /\ unset # <<>> /\ Head(unset)[1] # seg /\ PointerTo(shape, 0).offset = 0
    /\ Lay(shape, Grow(message, seg, <<PointerTo(shape, 0)>>), seg,
           Far(FALSE, seg, Len(message[seg + 1])))
    /\ UNCHANGED damaged

\* The segment of the object has no room for a landing pad.
SetDoubleFar(shape, pad, seg) ==
    /\ unset # <<>> /\ seg \notin {Head(unset)[1], pad} /\ PointerTo(shape, 0).offset = 0
    /\ Lay(shape, Grow(message, pad, <<Far(FALSE, seg, Len(message[seg + 1])),
                                      PointerTo(shape, 0)>>),
           seg, Far(TRUE, pad, Len(message[pad + 1])))
    /\ UNCHANGED damaged

Damage(slot, word) ==
    /\ unset = <<>> /\ ~damaged /\ Size(message) <= MaxDamagedWords
    /\ WordAt(message, slot[1], slot[2]) # word
    /\ message' = SetWord(message, slot, word) /\ damaged' = TRUE
    /\ UNCHANGED unset

Segments == 0 .. (Len(message) - 1)

WireNext ==
    \/ \E word \in {Null, CapWord(1)} : SetLeaf(word)
    \/ \E shape \in Shapes :
           \/ SetNear(shape)
           \/ \E seg \in Segments : SetFar(shape, seg)
           \/ \E pad, seg \in Segments : SetDoubleFar(shape, pad, seg)
    \/ \E seg \in Segments, word \in Damages :
           \E at \in 0 .. (Len(message[seg + 1]) - 1) : Damage(<<seg, at>>, word)

WireSpec == WireInit /\ [][WireNext]_wireVars

(***************************************************************************)
(* Properties.                                                             *)
(***************************************************************************)
Built == unset = <<>>
HasDoubleFar ==
    \E segment \in {message[i] : i \in DOMAIN message} : \E i \in DOMAIN segment :
        segment[i].kind = "far" /\ segment[i].double

RECURSIVE Sound(_, _, _)
SoundBelow(msg, ref, depth) ==
    /\ ref.ok
    /\ \/ ref.is = "absent"
       \/ /\ depth <= MaxNestingDepth
          /\ \A i \in DOMAIN Slots(ref) : Sound(msg, Slots(ref)[i], depth + 1)
\* Everything below the slot can be read, and is not nested too deeply.
Sound(msg, slot, depth) == SoundBelow(msg, Read(msg, slot), depth)

RECURSIVE Tree(_, _)
TreeOf(msg, ref, slots) ==
    LET base == IF ref.is = "composite" THEN ref.tag + 1 ELSE ref.start
        count == CASE ref.is = "struct" -> ref.data [] ref.is = "flat" -> FlatWords(ref.size, ref.count)
                   [] ref.is = "composite" -> ref.count * (ref.data + ref.ptrs) [] OTHER -> 0
    IN [shape |-> CASE ref.is = "struct" -> <<"struct", ref.data, ref.ptrs>>
                    [] ref.is = "flat" -> <<"flat", ref.size, ref.count>>
                    [] ref.is = "composite" -> <<"composite", ref.count, ref.data, ref.ptrs>>
                    [] OTHER -> <<ref.is>>,
        words |-> IF ref.is = "cap" THEN {<<0, CapWord(ref.id)>>}
                  ELSE {<<i, WordAt(msg, ref.seg, base + i)>> :
                            i \in {j \in 0 .. (count - 1) : ~Contains(slots, <<ref.seg, base + j>>)}},
        below |-> [i \in DOMAIN slots |-> Tree(msg, slots[i])]]
\* What the slot means, wherever it is laid out.
Tree(msg, slot) ==
    LET Of(ref) == TreeOf(msg, ref, Slots(ref)) IN Of(Read(msg, slot))

RECURSIVE Agree(_, _)
AgreeOn(msg, ref, seg, at) ==
    LET Finds(struct, bytes, structs) ==
            /\ ref.is \in {"struct", "absent"} => struct = ref
            /\ (ref.is = "flat" /\ ref.size = 2) \/ ref.is = "absent" => bytes = ref
            /\ ref.is \in {"composite", "absent"} => structs = ref
            /\ ref.is = "struct" => bytes = Bad
    IN /\ Finds(DecodeStructPointer(msg, seg, at), DecodeByteListPointer(msg, seg, at),
                DecodeStructListPointer(msg, seg, at))
       /\ ~HasDoubleFar =>
              Finds(ToolReadStruct(msg, seg, at), ToolReadByteList(msg, seg, at),
                    ToolReadStructList(msg, seg, at))
       /\ \A i \in DOMAIN Slots(ref) : Agree(msg, Slots(ref)[i])
\* The typed readers of the RPC layer find in a slot and below it what the runtime's do,
\* and so do those of the code generator, which put what is behind a double-far pointer
\* one word too far.
Agree(msg, slot) == AgreeOn(msg, Read(msg, slot), slot[1], slot[2])

RECURSIVE Cost(_, _)
CostOf(msg, ref, r) ==
    LET words == CASE ref.is = "struct" -> ref.data + ref.ptrs
                   [] ref.is = "flat" -> FlatWords(ref.size, ref.count)
                   [] ref.is = "composite" -> r.word.count + 1
                   [] OTHER -> 0
        work == CASE ref.is = "struct" -> ref.data
                  [] ref.is = "flat" -> ref.count + words
                  [] ref.is = "composite" -> ref.count + words - 1
                  [] OTHER -> 0
    IN FoldLeft(LAMBDA c, s : <<c[1] + s[1], c[2] + s[2]>>, <<1 + work, words>>,
                [i \in DOMAIN Slots(ref) |-> Cost(msg, Slots(ref)[i])])
\* <<work, output>> of a copy: a visit of each slot, each word and each element.
Cost(msg, slot) == CostOf(msg, Read(msg, slot), Resolve(msg, slot[1], slot[2], "on"))

HasEmptyStruct ==
    \E segment \in {message[i] : i \in DOMAIN message} : \E i \in DOMAIN segment :
        segment[i].kind = "struct" /\ segment[i] # Null
        /\ segment[i].data = 0 /\ segment[i].ptrs = 0

\* The frames that a handler gets to see: validated ones, or as a sender made them.
Given == Built /\ (~damaged \/ (ValidateCapnpFrame(message) /\ ~HasDoubleFar))

Root == <<0, 0>>

\* The walk lets a frame pass exactly when everything that the readers can reach from
\* its root lies in its segments, is a pointer of the kind it should be and is nested
\* no deeper than the limit: the stack, the set of what was seen and its own resolver
\* make no difference.  Double-far pointers are taken out: see DoubleFarAccepted.
WalkExact ==
    Built /\ ~HasDoubleFar => (ValidateCapnpFrame(message) <=> Sound(message, Root, 1))

\* The RPC layer, the encoding runtime and the code generator, each with a resolver of
\* its own, find the same objects behind every pointer of a frame they are given; none
\* throws a range error at another's frame.
ReadersAgree ==
    Given /\ Sound(message, Root, 1) =>
        /\ Agree(message, Root)
        /\ ~HasDoubleFar /\ Read(message, Root).is = "struct" =>
               ToolRoot(message) = Read(message, Root)

Within(cost) == cost[1] <= MaxWork /\ cost[2] + 1 <= MaxOutputWords

\* Both copies mean what was copied, lie in one segment and pass the validation; the
\* bounded one throws exactly when the expanded message is over its budget, which a
\* target shared by several pointers is charged to every time.
CopiesKeepMeaning ==
    Given /\ Sound(message, Root, 1) =>
    LET plain == ExtractPointerContent(message, 0, 0)
        bounded == DecodeAnyPointerMessage(message, 0, 0, SmallOptions)
        Same(copy) == Tree(<<copy>>, Root) = Tree(message, Root) /\ ValidateCapnpFrame(<<copy>>)
    IN /\ plain # Thrown
       /\ ~damaged /\ ~HasEmptyStruct => Same(plain)
       /\ bounded # Thrown <=> Within(Cost(message, Root))
       /\ bounded # Thrown => Same(bounded) /\ Len(bounded) = 1 + Cost(message, Root)[2]

\* A struct with two slots, for a message to be put in either.
Builder == <<Struct(0, 0, 2), Null, Null>>

EmbedsAs(dst) ==
    LET built == EncodeAnyPointerMessage(Builder, dst, message, DefaultOptions)
    IN /\ built # Thrown
       /\ Tree(<<built>>, <<0, dst>>) = Tree(message, Root)
       /\ built[4 - dst] = Null /\ built[1] = Builder[1]

\* A message put into a slot of another means there what it meant alone.
EmbeddingKeepsMeaning ==
    Given /\ Sound(message, Root, 1) =>
        EmbedsAs(1) /\ (~HasEmptyStruct => EmbedsAs(2))

\* "Empty structs use the canonical -1 offset so their presence survives": in the last
\* slot of a builder too.
PresenceSurvives == Given /\ Sound(message, Root, 1) => EmbedsAs(1) /\ EmbedsAs(2)

\* A frame within all limits is returned normally: what a sender laid out, if it is not
\* nested too deeply.
DoubleFarAccepted ==
    Built /\ ~damaged /\ Sound(message, Root, 1) => ValidateCapnpFrame(message)
=============================================================================
