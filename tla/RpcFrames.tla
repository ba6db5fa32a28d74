-------------------------------- MODULE RpcFrames --------------------------------
(* The codec of RPC messages: src/rpc/wire/encode.ts builds a frame word by word,  *)
(* src/rpc/wire/decode.ts reads one, src/rpc/wire/router.ts tells the kinds apart. *)
(*                                                                                  *)
(* A message is one segment.  A word of data is four halves of 16 bits, of which    *)
(* HalfRange says how much they hold, or eight bytes of a list of bytes; the word   *)
(* of which everything is zero is the null word.                                    *)
EXTENDS WirePointers, TLC

CONSTANTS
    RpcMessages,   \* the messages that the program may be asked to encode
    HalfRange      \* two to the 16

ASSUME RpcAssumption == HalfRange \in Nat /\ HalfRange > 13

VARIABLES
    asked,         \* the message being encoded
    rpcFrame       \* the words of its frame, <<>> before it is encoded or if that threw

rpcVars == <<asked, rpcFrame>>

(***************************************************************************)
(* RpcWireMessageBuilder.                                                  *)
(***************************************************************************)
Halves(word) == IF word.kind = "cap" THEN word.id ELSE <<0, 0, 0, 0>>

\* writeU16, writeU32 and writeU64 at a byte of a word: a wider one covers the halves
\* of a narrower one.
WriteU16(buf, at, byte, value) ==
    Put(buf, at, DataWord([Halves(buf[at + 1]) EXCEPT ![byte \div 2 + 1] = value % HalfRange]))
WriteU32(buf, at, byte, value) ==
    WriteU16(WriteU16(buf, at, byte, value), at, byte + 2, value \div HalfRange)
WriteU64(buf, at, value) ==
    WriteU32(WriteU32(buf, at, 0, value % (HalfRange * HalfRange)), at, 4,
             value \div (HalfRange * HalfRange))

\* allocWords and setStructPointer: a struct laid out at the end of the buffer.
PutStruct(buf, at, data, ptrs) ==
    Put(Alloc(buf, data + ptrs), at, Struct(Len(buf) - (at + 1), data, ptrs))

\* A list of bytes: allocWords, writeBytes, setListPointer.
ByteWords(bytes) ==
    [i \in 1 .. CeilDiv(Len(bytes), 8) |->
        DataWord([j \in 1 .. 8 |->
            IF 8 * (i - 1) + j <= Len(bytes) THEN bytes[8 * (i - 1) + j] ELSE 0])]
PutBytes(buf, at, bytes) ==
    Put(buf \o ByteWords(bytes), at, List(Len(buf) - (at + 1), 2, Len(bytes)))

\* ensureU16, ensureU32, ensureU64
IsU16(value) == value \in 0 .. (HalfRange - 1)
IsU32(value) == value \in 0 .. (HalfRange * HalfRange - 1)
IsU64(value) == value >= 0 /\ value \div (HalfRange * HalfRange) < HalfRange * HalfRange

(***************************************************************************)
(* encode.ts                                                               *)
(***************************************************************************)
\* An optional flag of a request.
Flag(given, default) == IF given = "unset" THEN default ELSE given = "yes"

ThirdPartyHosted == 5

CapIsSound(cap) ==
    /\ IsU16(cap.tag) /\ IsU32(cap.id)
    /\ cap.tag = ThirdPartyHosted => IsU32(cap.vineId) /\ "contact" \in DOMAIN cap

\* One descriptor of the table; that of a third party hangs off its pointer slot.
PutCap(buf, at, cap) ==
    LET plain == WriteU32(WriteU16(buf, at, 0, cap.tag), at, 4, cap.id)
        nested == Len(buf)
    IN IF cap.tag # ThirdPartyHosted THEN plain
       ELSE PutBytes(WriteU32(PutStruct(plain, at + 1, 1, 1), nested, 0, cap.vineId),
                     nested + 1, cap.contact)

\* encodeCapTable: an inline composite list; its count is in words, its tag's in elements.
PutCapTable(buf, at, caps) ==
    LET tag == Len(buf)
        list == Put(Put(Alloc(buf, 1 + 2 * Len(caps)), at, List(tag - (at + 1), 7, 2 * Len(caps))),
                    tag, Struct(Len(caps), 1, 1))
    IN FoldLeft(LAMBDA b, i : PutCap(b, tag + 1 + 2 * (i - 1), caps[i]), list,
                [i \in DOMAIN caps |-> i])

\* Broken form: the flags are written last, over the tag.
PutReturnHeadFlagsLast(buf, at, answerId, tag, release, noFinish) ==
    WriteU32(WriteU16(WriteU32(buf, at, 0, answerId), at, 6, tag), at, 4,
             (IF release THEN 0 ELSE 1) + (IF noFinish THEN 2 ELSE 0))

\* encodeReturnFlags and what is around it: the flags are 32 bits, the tag lies in the
\* upper half of them and is written after them.
PutReturnHead(buf, at, answerId, tag, release, noFinish) ==
    WriteU16(WriteU32(WriteU32(buf, at, 0, answerId), at, 4,
                      (IF release THEN 0 ELSE 1) + (IF noFinish THEN 2 ELSE 0)),
             at, 6, tag)

\* writePayloadContentPointer and encodeCapTable, in a payload struct; no content is
\* EMPTY_STRUCT_MESSAGE.
PutCaps(full, at, caps) ==
    IF full = Thrown \/ \E i \in DOMAIN caps : ~CapIsSound(caps[i]) THEN Thrown
    ELSE PutCapTable(full, at, caps)
PutPayload(buf, at, content, caps) ==
    PutCaps(EncodeAnyPointerMessage(PutStruct(buf, at, 0, 2), Len(buf),
                                    IF content = <<>> THEN <<<<Null>>>> ELSE content, DefaultOptions),
            Len(buf) + 1, caps)

\* normalizePromisedAnswerOp
OpIsSound(op) == op.tag = 0 \/ (op.tag = 1 /\ IsU16(op.pointerIndex))

\* encodePromisedAnswerTransform: no list for no operation.
PutTransform(buf, at, ops) ==
    IF ops = <<>> THEN Put(buf, at, Null)
    ELSE LET tag == Len(buf)
         IN Put(buf, at, List(tag - (at + 1), 7, Len(ops))) \o <<Struct(Len(ops), 1, 0)>>
            \o [i \in DOMAIN ops |-> DataWord(<<ops[i].tag,
                    IF ops[i].tag = 1 THEN ops[i].pointerIndex ELSE 0, 0, 0>>)]

TargetIsSound(target) ==
    IF target.tag = 0 THEN IsU32(target.importedCap)
    ELSE IsU32(target.questionId) /\ \A i \in DOMAIN target.transform : OpIsSound(target.transform[i])

PutTarget(buf, at, target) ==
    LET word == Len(buf)
        tagged == WriteU16(PutStruct(buf, at, 1, 1), word, 4, target.tag)
        promised == Len(tagged)
    IN IF target.tag = 0 THEN WriteU32(tagged, word, 0, target.importedCap)
       ELSE PutTransform(WriteU32(PutStruct(tagged, word + 1, 1, 1), promised, 0, target.questionId),
                         promised + 1, target.transform)

\* The envelope: the union tag and the variant, a struct of the given size at word 3.
Variant == 3
Envelope(tag, data, ptrs) ==
    PutStruct(WriteU16(PutStruct(<<Null>>, 0, 1, 1), 1, 0, tag), 2, data, ptrs)

EncodeBootstrapRequest(m) ==
    IF ~IsU32(m.questionId) THEN Thrown
    ELSE WriteU32(Envelope(8, 1, 1), Variant, 0, m.questionId)

EncodeCallRequest(m) ==
    IF ~(IsU32(m.questionId) /\ IsU64(m.interfaceId) /\ IsU16(m.methodId) /\ TargetIsSound(m.target))
    THEN Thrown
    ELSE LET head == WriteU64(WriteU16(WriteU16(WriteU32(Envelope(2, 3, 3), Variant, 0, m.questionId),
                                                Variant, 4, m.methodId), Variant, 6, 0),
                              Variant + 1, m.interfaceId)
         IN PutPayload(PutTarget(head, Variant + 3, m.target), Variant + 4, m.content, m.caps)

EncodeFinish(m) ==
    IF ~IsU32(m.questionId) THEN Thrown
    ELSE WriteU32(WriteU32(Envelope(4, 1, 0), Variant, 0, m.questionId), Variant, 4,
                  (IF Flag(m.releaseResultCaps, TRUE) THEN 0 ELSE 1)
                  + (IF Flag(m.requireEarlyCancellation, FALSE) THEN 0 ELSE 2))

EncodeRelease(m) ==
    IF ~(IsU32(m.id) /\ IsU32(m.referenceCount)) THEN Thrown
    ELSE WriteU32(WriteU32(Envelope(6, 1, 0), Variant, 0, m.id), Variant, 4, m.referenceCount)

ReturnHead(m, tag) ==
    PutReturnHead(Envelope(3, 2, 1), Variant, m.answerId, tag, Flag(m.releaseParamCaps, TRUE),
                  Flag(m.noFinishNeeded, FALSE))

EncodeReturnResults(m) ==
    IF ~IsU32(m.answerId) THEN Thrown
    ELSE PutPayload(ReturnHead(m, 0), Variant + 2, m.content, m.caps)

\* The text is followed by a zero byte.
EncodeReturnException(m) ==
    IF ~IsU32(m.answerId) THEN Thrown
    ELSE LET head == ReturnHead(m, 1)
         IN PutBytes(PutStruct(head, Variant + 2, 1, 3), Len(head) + 1, m.reason \o <<0>>)

Encode(m) ==
    CASE m.kind = "bootstrap" -> EncodeBootstrapRequest(m)
      [] m.kind = "call" -> EncodeCallRequest(m)
      [] m.kind = "finish" -> EncodeFinish(m)
      [] m.kind = "release" -> EncodeRelease(m)
      [] m.kind = "results" -> EncodeReturnResults(m)
      [] m.kind = "exception" -> EncodeReturnException(m)

(***************************************************************************)
(* decode.ts                                                               *)
(***************************************************************************)
\* readU16InStruct, readU32InStruct, readU64InStruct: -1 outside the data section of
\* the struct, where they throw.
Half(msg, ref, byte) ==
    IF byte + 2 > 8 * ref.data THEN -1
    ELSE Halves(WordAt(msg, ref.seg, ref.start + byte \div 8))[(byte % 8) \div 2 + 1]
ReadU32(msg, ref, byte) ==
    IF byte + 4 > 8 * ref.data THEN -1
    ELSE Half(msg, ref, byte) + HalfRange * Half(msg, ref, byte + 2)
ReadU64(msg, ref, byte) ==
    IF byte + 8 > 8 * ref.data THEN -1
    ELSE ReadU32(msg, ref, byte) + HalfRange * HalfRange * ReadU32(msg, ref, byte + 4)

\* decodeStructPointer of a pointer slot of a struct that pointerWordIndex accepts.
Child(msg, ref, index) ==
    IF index >= ref.ptrs THEN Bad ELSE DecodeStructPointer(msg, ref.seg, ref.start + ref.data + index)
Found(ref) == ref.ok /\ ref.is # "absent"

BytesAt(msg, ref) ==
    [i \in 1 .. ref.count |->
        LET word == WordAt(msg, ref.seg, ref.start + (i - 1) \div 8)
        IN IF word = Null THEN 0 ELSE word.id[((i - 1) % 8) + 1]]

\* decodeThirdPartyHostedDescriptor: <<>> for a throw.
Contact(msg, nested, list) ==
    IF ~Found(list) THEN <<>>
    ELSE <<[vineId |-> ReadU32(msg, nested, 0), contact |-> BytesAt(msg, list)]>>
ThirdPartyIn(msg, nested) ==
    IF ~Found(nested) THEN <<>> ELSE IF nested.ptrs = 0 THEN <<>>
    ELSE Contact(msg, nested, DecodeByteListPointer(msg, nested.seg, nested.start + nested.data))
ThirdParty(msg, item) == ThirdPartyIn(msg, Child(msg, item, 0))

Element(ref, i) ==
    StructRef(ref.seg, ref.tag + 1 + (i - 1) * (ref.data + ref.ptrs), ref.data, ref.ptrs)

\* decodeCapTableFromPayload, of each element of the list.
DecodeCap(msg, item) ==
    LET cap == [tag |-> Half(msg, item, 0), id |-> ReadU32(msg, item, 4)]
        Hosted(third) == IF third = <<>> THEN [tag |-> -1, id |-> -1] ELSE cap @@ third[1]
    IN IF cap.tag # ThirdPartyHosted THEN cap ELSE Hosted(ThirdParty(msg, item))
DecodeCaps(msg, ref) ==
    IF ref.is = "absent" THEN <<>> ELSE [i \in 1 .. ref.count |-> DecodeCap(msg, Element(ref, i))]

\* decodePromisedAnswerTransform
DecodeTransform(msg, ref) ==
    IF ref.is = "absent" THEN <<>>
    ELSE [i \in 1 .. ref.count |->
             LET tag == Half(msg, Element(ref, i), 0)
             IN IF tag = 0 THEN [tag |-> 0]
                ELSE IF tag = 1 THEN [tag |-> 1, pointerIndex |-> Half(msg, Element(ref, i), 2)]
                ELSE [tag |-> -1]]

\* decodeCallTarget
PromisedTarget(msg, promised) ==
    LET Transformed(list) ==
            IF ~list.ok THEN Bad
            ELSE [tag |-> 1, questionId |-> ReadU32(msg, promised, 0),
                  transform |-> DecodeTransform(msg, list)]
    IN IF ~Found(promised) THEN Bad ELSE IF promised.ptrs = 0 THEN Bad
       ELSE Transformed(DecodeStructListPointer(msg, promised.seg, promised.start + promised.data))
DecodeTarget(msg, ref) ==
    LET tag == Half(msg, ref, 4)
    IN IF tag = 0 THEN [tag |-> 0, importedCap |-> ReadU32(msg, ref, 0)]
       ELSE IF tag = 1 THEN PromisedTarget(msg, Child(msg, ref, 0)) ELSE Bad

\* The payload of a call or of results; none at all is an empty one.
DecodePayload(msg, payload) ==
    LET slot == payload.start + payload.data
        Both(content, caps) ==
            IF content = Thrown \/ ~caps.ok THEN Bad
            ELSE [content |-> <<content>>, caps |-> DecodeCaps(msg, caps)]
    IN IF ~payload.ok THEN Bad
       ELSE IF payload.is = "absent" THEN [content |-> <<<<Null>>>>, caps |-> <<>>]
       ELSE IF payload.ptrs < 2 THEN Bad
       ELSE Both(DecodeAnyPointerMessage(msg, payload.seg, slot, DefaultOptions),
                 DecodeStructListPointer(msg, payload.seg, slot + 1))

Throws(r) == r = Bad
Released(flags) == flags % 2 = 0
SecondBit(flags) == (flags \div 2) % 2 = 1

\* readTextFromPointer: without the zero byte at the end.
TextAt(msg, list) ==
    LET Stripped(bytes) == IF bytes # <<>> /\ Last(bytes) = 0 THEN Front(bytes) ELSE bytes
    IN IF list.is = "absent" THEN <<>> ELSE Stripped(BytesAt(msg, list))

DecodeException(msg, exception) ==
    LET Reasoned(list) ==
            IF ~list.ok THEN Bad ELSE [kind |-> "exception", reason |-> TextAt(msg, list)]
    IN IF ~Found(exception) THEN Bad ELSE IF exception.ptrs = 0 THEN Bad
       ELSE Reasoned(DecodeByteListPointer(msg, exception.seg, exception.start + exception.data))

DecodeReturn(msg, ret) ==
    LET tag == Half(msg, ret, 6)
        flags == ReadU32(msg, ret, 4)
        WithHead(body) ==
            IF Throws(body) THEN Bad
            ELSE body @@ [answerId |-> ReadU32(msg, ret, 0), releaseParamCaps |-> Released(flags),
                          noFinishNeeded |-> SecondBit(flags)]
        Results(payload) == IF Throws(payload) THEN Bad ELSE [kind |-> "results"] @@ payload
        Variants(variant) == IF tag = 0 THEN Results(DecodePayload(msg, variant))
                             ELSE DecodeException(msg, variant)
    IN WithHead(IF tag = 2 THEN [kind |-> "canceled"]
                ELSE IF tag \in {0, 1} THEN Variants(Child(msg, ret, 0)) ELSE Bad)

CallTo(msg, call, target, payload) ==
    IF Throws(target) \/ Throws(payload) THEN Bad
    ELSE [kind |-> "call", questionId |-> ReadU32(msg, call, 0), interfaceId |-> ReadU64(msg, call, 8),
          methodId |-> Half(msg, call, 4), target |-> target] @@ payload
DecodeCall(msg, call) ==
    LET Targeted(at) ==
            IF ~Found(at) THEN Bad
            ELSE CallTo(msg, call, DecodeTarget(msg, at), DecodePayload(msg, Child(msg, call, 1)))
    IN Targeted(Child(msg, call, 0))

DecodeFinish(msg, finish) ==
    LET flags == ReadU32(msg, finish, 4)
    IN [kind |-> "finish", questionId |-> ReadU32(msg, finish, 0),
        releaseResultCaps |-> Released(flags), requireEarlyCancellation |-> ~SecondBit(flags)]

DecodeVariant(msg, tag, variant) ==
    IF ~Found(variant) THEN Bad
    ELSE CASE tag = 8 -> [kind |-> "bootstrap", questionId |-> ReadU32(msg, variant, 0)]
           [] tag = 2 -> DecodeCall(msg, variant)
           [] tag = 3 -> DecodeReturn(msg, variant)
           [] tag = 4 -> DecodeFinish(msg, variant)
           [] tag = 6 -> [kind |-> "release", id |-> ReadU32(msg, variant, 0),
                          referenceCount |-> ReadU32(msg, variant, 4)]

\* decodeRpcMessage: by the tag of the union; a resolve or a disembargo stays a frame.
DecodeRoot(msg, root) ==
    LET tag == Half(msg, root, 0)
    IN IF ~Found(root) THEN Bad
       ELSE IF tag \in {5, 13} THEN [kind |-> "opaque", tag |-> tag]
       ELSE IF tag \in {2, 3, 4, 6, 8} THEN DecodeVariant(msg, tag, Child(msg, root, 0)) ELSE Bad
Decode(msg) == DecodeRoot(msg, DecodeStructPointer(msg, 0, 0))

\* extractBootstrapCapabilityIndex: the first hosted capability, -1 for a throw.
BootstrapCapabilityIndex(ret) ==
    LET hosted == {i \in DOMAIN ret.caps : ret.caps[i].tag \in {1, 3}}
    IN IF ret.kind # "results" \/ hosted = {} THEN -1
       ELSE ret.caps[CHOOSE i \in hosted : \A j \in hosted : i <= j].id

(***************************************************************************)
(* Every message is asked for once, and its frame is what the peer decodes. *)
(***************************************************************************)
RpcInit == asked = <<>> /\ rpcFrame = <<>>

EncodeFrame(m) ==
    /\ asked = <<>> /\ asked' = <<m>> /\ rpcFrame' = Encode(m)

RpcNext == \E m \in RpcMessages : EncodeFrame(m)
RpcSpec == RpcInit /\ [][RpcNext]_rpcVars

(***************************************************************************)
(* Properties.                                                             *)
(***************************************************************************)
MeansTheSame(a, b) == Tree(a, Root) = Tree(b, Root)

\* What the peer is to see of a message: every field, with the defaults of the optional
\* ones.
Seen(m) ==
    CASE m.kind = "call" ->
           [kind |-> "call", questionId |-> m.questionId, interfaceId |-> m.interfaceId,
            methodId |-> m.methodId, caps |-> m.caps,
            target |-> IF m.target.tag = 0 THEN m.target ELSE
                [m.target EXCEPT !.transform =
                    [i \in DOMAIN @ |-> IF @[i].tag = 0 THEN [tag |-> 0] ELSE @[i]]]]
      [] m.kind = "finish" ->
           [m EXCEPT !.releaseResultCaps = Flag(@, TRUE), !.requireEarlyCancellation = Flag(@, FALSE)]
      [] m.kind = "results" ->
           [kind |-> "results", answerId |-> m.answerId, caps |-> m.caps,
            releaseParamCaps |-> Flag(m.releaseParamCaps, TRUE),
            noFinishNeeded |-> Flag(m.noFinishNeeded, FALSE)]
      [] m.kind = "exception" ->
           [m EXCEPT !.releaseParamCaps = Flag(@, TRUE), !.noFinishNeeded = Flag(@, FALSE)]
      [] OTHER -> m

WithoutContent(m) == [f \in DOMAIN m \ {"content"} |-> m[f]]

IsWhatWasAsked(m, seen) ==
    /\ ~Throws(seen)
    /\ WithoutContent(seen) = WithoutContent(Seen(m))
    /\ "content" \in DOMAIN m =>
           MeansTheSame(seen.content, IF m.content = <<>> THEN <<<<Null>>>> ELSE m.content)
    /\ m.kind = "results" /\ m.caps # <<>> /\ Head(m.caps).tag = 1 =>
           BootstrapCapabilityIndex(seen) = Head(m.caps).id

\* A frame that was encoded passes the validation, and the peer decodes from it the
\* message that was asked for: the flags that stand inverted on the wire, the fields
\* that share a word, the lists whose count is in words and the content that is copied
\* in among them included.  A message whose fields the wire cannot carry is not encoded.
DecodesAsAsked ==
    rpcFrame # <<>> =>
    ValidateCapnpFrame(<<rpcFrame>>) /\ IsWhatWasAsked(asked[1], Decode(<<rpcFrame>>))
=============================================================================
