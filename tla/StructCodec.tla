------------------------------- MODULE StructCodec -------------------------------
(* Values of generated types on their way through a call.  encodeStructMessage-     *)
(* WithCaps (src/encoding/runtime_caps.ts) collects the capabilities of a value     *)
(* into a table and encodeStructMessage (src/encoding/runtime_codec.ts) lays the     *)
(* value out; RpcFrames carries both; decodeStructMessageWithCaps reads them back     *)
(* with the descriptors of the other side, which may be of another version of the     *)
(* schema.                                                                            *)
(*                                                                                    *)
(* A descriptor is what tools/capnpc-deno emits: the sections of the struct, its      *)
(* union if any, and its fields in order.  A word of data is its bits.                *)
EXTENDS RpcFrames, Bitwise

CONSTANTS
    Exchanges      \* [writes, reads, value]: the descriptors of both sides and the value

VARIABLES
    exchange,      \* the one taken, <<>> at first
    paramsFrame,   \* the frame of its call
    received       \* the value that comes out, <<>> until it does

codecVars == <<exchange, paramsFrame, received>>

(***************************************************************************)
(* Values.  Numbers, booleans and the ordinals of enums are all Num.        *)
(***************************************************************************)
Undefined == [is |-> "undefined"]
NullValue == [is |-> "null"]
Num(n) == [is |-> "num", n |-> n]
Text(bytes) == [is |-> "text", bytes |-> bytes]
Data(bytes) == [is |-> "data", bytes |-> bytes]
Cap(index) == [is |-> "cap", index |-> index]
Message(words) == [is |-> "message", words |-> words]
Arr(items) == [is |-> "array", items |-> items]
\* A struct; `which` is "none" if the program does not say.
Rec(which, f) == [is |-> "record", which |-> which, f |-> f]
ThrownValue == [is |-> "thrown"]

\* asRecord, asArray, asNumber
AsRecord(value) == IF value.is = "record" THEN value ELSE Rec("none", <<>>)
AsArray(value) == IF value.is = "array" THEN value.items ELSE <<>>
AsNumber(value) == IF value.is = "num" THEN value.n ELSE 0
FieldOf(rec, name) == IF name \in DOMAIN rec.f THEN rec.f[name] ELSE Undefined

(***************************************************************************)
(* Types and descriptors.                                                  *)
(***************************************************************************)
WordBits == 8 * ByteBits

\* isDataType, dataByteOffset, in bits
IsData(type) == type.kind \in {"void", "bool", "int", "uint", "float", "enum"}
BitSize(type) ==
    CASE type.kind = "void" -> 0 [] type.kind = "bool" -> 1 [] type.kind = "enum" -> 2 * ByteBits
      [] OTHER -> type.bytes * ByteBits

\* listElementSize, of a type of data
ElementSize(type) ==
    CASE type.kind = "void" -> 0 [] type.kind = "bool" -> 1 [] type.kind = "enum" -> 3
      [] OTHER -> CASE type.bytes = 1 -> 2 [] type.bytes = 2 -> 3 [] type.bytes = 4 -> 4
                    [] type.bytes = 8 -> 5

\* The pattern that stands for an infinity or a NaN.
IsFinite(type, n) == type.kind # "float" \/ n # 2 ^ BitSize(type) - 1

\* What is written for a number: an unknown enumerant is the first, and a number that
\* is not finite is zero unless the field has a default.
Ordinal(type, n) == IF type.kind = "enum" /\ n >= type.count THEN 0 ELSE n
ToBits(type, n, mask) ==
    IF mask = 0 /\ ~IsFinite(type, n) THEN 0 ELSE Ordinal(type, n) % (2 ^ BitSize(type))
FromBits(type, bits) ==
    IF type.kind = "int" /\ bits >= 2 ^ (BitSize(type) - 1) THEN bits - 2 ^ BitSize(type)
    ELSE Ordinal(type, bits)

HasUnion(d) == d.union # <<>>
Members(d) == {i \in DOMAIN d.fields : d.fields[i].disc >= 0}
Name(d, disc) == d.fields[CHOOSE i \in Members(d) : d.fields[i].disc = disc].name
Discs(d) == {d.fields[i].disc : i \in Members(d)}

\* resolveActiveDiscriminant: by name, or the first member that is there, or the default.
ActiveDiscriminant(d, rec) ==
    LET named == {i \in Members(d) : d.fields[i].name = rec.which}
        there == {i \in Members(d) : FieldOf(rec, d.fields[i].name) # Undefined}
    IN IF ~HasUnion(d) THEN -1
       ELSE IF named # {} THEN d.fields[CHOOSE i \in named : TRUE].disc
       ELSE IF there # {} THEN d.fields[CHOOSE i \in there : \A j \in there : i <= j].disc
       ELSE 0

IsActive(d, field, active) == field.disc < 0 \/ ~HasUnion(d) \/ field.disc = active

RECURSIVE CreateDefault(_)
\* createDefault, as the generator writes it.
DefaultOf(field) ==
    LET type == field.type
    IN IF field.default # <<>> THEN field.default[1]
       ELSE CASE type.kind = "void" -> Undefined
              [] IsData(type) /\ type.kind # "void" -> Num(FromBits(type, field.mask))
              [] type.kind = "text" -> Text(<<>>) [] type.kind = "data" -> Data(<<>>)
              [] type.kind = "list" -> Arr(<<>>) [] type.kind = "struct" -> CreateDefault(type.desc)
              [] type.kind \in {"interface", "anyPointer"} -> NullValue
NamesOf(d) == {d.fields[i].name : i \in DOMAIN d.fields}
Named(d, name) == d.fields[CHOOSE i \in DOMAIN d.fields : d.fields[i].name = name]
CreateDefault(d) ==
    Rec(IF HasUnion(d) THEN Name(d, 0) ELSE "none", [n \in NamesOf(d) |-> DefaultOf(Named(d, n))])

(***************************************************************************)
(* Encoding.  A buffer is as in WirePointers.                              *)
(***************************************************************************)
BitsOf(word) == IF word.kind = "cap" THEN word.id ELSE [i \in 1 .. WordBits |-> 0]

\* setBool, writeUint8 and the others, at a bit of the buffer.
PutBits(buf, bit, size, n) ==
    LET at == bit \div WordBits
        from == bit % WordBits
    IN Put(buf, at, DataWord([i \in 1 .. WordBits |->
           IF i - 1 - from \in 0 .. (size - 1) THEN (n \div (2 ^ (i - 1 - from))) % 2
           ELSE BitsOf(buf[at + 1])[i]]))

\* encodeDataField, encodeDataWithDefault: what is stored is the difference to the default.
EncodeDataField(buf, at, field, value) ==
    LET size == BitSize(field.type)
    IN IF size = 0 THEN buf
       ELSE PutBits(buf, at * WordBits + field.offset * size, size,
                    ToBits(field.type, AsNumber(value), field.mask) ^^ field.mask)

\* The bytes of a text or of data, and the items of a list of data, from the end on.
PutItems(buf, slot, type, items) ==
    LET size == ElementSize(type)
        start == Len(buf)
    IN Put(FoldLeft(LAMBDA b, i : PutBits(b, start * WordBits + (i - 1) * BitSize(type),
                                          BitSize(type), ToBits(type, AsNumber(items[i]), 0)),
                    Alloc(buf, FlatWords(size, Len(items))), [i \in DOMAIN items |-> i]),
           slot, List(start - (slot + 1), size, Len(items)))
Byte == [kind |-> "uint", bytes |-> 1]
Nums(bytes) == [i \in DOMAIN bytes |-> Num(bytes[i])]

RECURSIVE EncodeStructAt(_, _, _, _), EncodePointerField(_, _, _, _)

\* encodeListField
EncodeListField(buf, slot, type, items) ==
    LET start == Len(buf)
        Each(b, Encoder(_, _)) ==
            FoldLeft(LAMBDA c, i : IF c = Thrown THEN c ELSE Encoder(c, i), b, [i \in DOMAIN items |-> i])
        tag == Struct(Len(items), type.desc.data, type.desc.ptrs)
        stride == type.desc.data + type.desc.ptrs
        Item(b, i) == EncodeStructAt(b, type.desc, start + 1 + (i - 1) * stride, AsRecord(items[i]))
        Pointer(b, i) == EncodePointerField(b, start + i - 1, type, items[i])
    IN IF type.kind = "void" THEN Put(buf, slot, List(0, 0, Len(items)))
       ELSE IF type.kind = "struct"
            THEN Each(Put(Put(Alloc(buf, 1 + stride * Len(items)), start, tag), slot,
                          List(start - (slot + 1), 7, stride * Len(items))), Item)
       ELSE IF ~IsData(type)
            THEN Each(Put(Alloc(buf, Len(items)), slot, List(start - (slot + 1), 6, Len(items))), Pointer)
       ELSE PutItems(buf, slot, type, items)

EncodePointerField(buf, slot, type, value) ==
    IF value.is \in {"undefined", "null"} THEN Put(buf, slot, Null)
    ELSE CASE type.kind = "text" -> PutItems(buf, slot, Byte, Nums(Append(value.bytes, 0)))
           [] type.kind = "data" -> PutItems(buf, slot, Byte, Nums(value.bytes))
           [] type.kind = "struct" ->
                LET start == Len(buf)
                    ref == StructRef(0, start, type.desc.data, type.desc.ptrs)
                IN EncodeStructAt(Put(Alloc(buf, ref.data + ref.ptrs), slot, Points(ref, slot, start)),
                                  type.desc, start, AsRecord(value))
           [] type.kind = "list" -> EncodeListField(buf, slot, type.element, AsArray(value))
           [] type.kind \in {"interface", "anyPointer"} /\ value.is = "cap" ->
                IF IsU32(value.index) THEN Put(buf, slot, CapWord(value.index)) ELSE Thrown
           [] type.kind = "anyPointer" /\ value.is = "message" ->
                EncodeAnyPointerMessage(buf, slot, <<value.words>>, DefaultOptions)

\* The discriminant first; a field that is not there keeps its zeros, which are the default.
EncodeFields(buf, d, at, rec, active) ==
    LET Encodes(b, field) ==
            LET value == FieldOf(rec, field.name)
            IN IF b = Thrown \/ ~IsActive(d, field, active) \/ value = Undefined THEN b
               ELSE IF field.group THEN EncodeStructAt(b, field.type.desc, at, AsRecord(value))
               ELSE IF IsData(field.type) THEN EncodeDataField(b, at, field, value)
               ELSE EncodePointerField(b, at + d.data + field.offset, field.type, value)
    IN FoldLeft(Encodes,
                IF HasUnion(d)
                THEN PutBits(buf, at * WordBits + 2 * ByteBits * d.union[1], 2 * ByteBits, active)
                ELSE buf,
                d.fields)
EncodeStructAt(buf, d, at, rec) == EncodeFields(buf, d, at, rec, ActiveDiscriminant(d, rec))

EncodeStructMessage(d, rec) ==
    EncodePointerField(<<Null>>, 0, [kind |-> "struct", desc |-> d], rec)

(***************************************************************************)
(* Decoding.                                                               *)
(***************************************************************************)
GetBits(msg, seg, bit, size) ==
    LET bits == BitsOf(WordAt(msg, seg, bit \div WordBits))
    IN FoldLeft(LAMBDA n, i : n + bits[(bit % WordBits) + i] * (2 ^ (i - 1)), 0, [i \in 1 .. size |-> i])

Fits(ref, bit, size) == bit + size <= ref.data * WordBits

\* decodeDataField, decodeDataWithDefault, of a field that lies in the struct.
DecodeDataField(msg, ref, field) ==
    LET size == BitSize(field.type)
        bits == GetBits(msg, ref.seg, ref.start * WordBits + field.offset * size, size)
    IN IF size = 0 THEN Undefined ELSE Num(FromBits(field.type, bits ^^ field.mask))

\* The items of a flat list of data.
Items(msg, ref, type) ==
    [i \in 1 .. ref.count |->
        IF type.kind = "void" THEN Undefined
        ELSE Num(FromBits(type, GetBits(msg, ref.seg, ref.start * WordBits + (i - 1) * BitSize(type),
                                        BitSize(type))))]
IsFlat(ref, size) == ref.is = "flat" /\ ref.size = size

\* readTextPointer, readDataPointer
DecodeBytes(msg, ref, isText) ==
    LET Of(bytes) ==
            IF ~isText THEN Data(bytes)
            ELSE IF bytes = <<>> \/ Last(bytes) # 0 THEN ThrownValue ELSE Text(Front(bytes))
    IN IF ref.is = "absent" THEN IF isText THEN Text(<<>>) ELSE Data(<<>>)
       ELSE IF ~IsFlat(ref, 2) THEN ThrownValue
       ELSE Of([i \in 1 .. ref.count |-> Items(msg, ref, Byte)[i].n])

ArrOf(items) == IF \E i \in DOMAIN items : items[i] = ThrownValue THEN ThrownValue ELSE Arr(items)

RECURSIVE DecodeStructAt(_, _, _), DecodePointerField(_, _, _, _)

\* decodeListField: the list has to be of the kind of its element type.
DecodeListField(msg, ref, type) ==
    IF ref.is = "absent" THEN Arr(<<>>)
    ELSE IF type.kind = "struct"
         THEN IF ref.is # "composite" THEN ThrownValue
              ELSE ArrOf([i \in 1 .. ref.count |-> DecodeStructAt(msg, type.desc, Element(ref, i))])
    ELSE IF ~IsData(type)
         THEN IF ~IsFlat(ref, 6) THEN ThrownValue
              ELSE ArrOf([i \in 1 .. ref.count |->
                             DecodePointerField(msg, ref.seg, ref.start + i - 1, type)])
    ELSE IF ~IsFlat(ref, ElementSize(type)) THEN ThrownValue
    ELSE Arr(Items(msg, ref, type))

DecodePointerField(msg, seg, at, type) ==
    LET FromList(list) ==
            IF ~list.ok THEN ThrownValue
            ELSE IF type.kind = "list" THEN DecodeListField(msg, list, type.element)
            ELSE DecodeBytes(msg, list, type.kind = "text")
        FromStruct(ref) ==
            IF ~ref.ok THEN ThrownValue
            ELSE IF ref.is = "absent" THEN CreateDefault(type.desc)
            ELSE DecodeStructAt(msg, type.desc, ref)
        FromCopy(copy) == IF copy = Thrown THEN ThrownValue ELSE Message(copy)
        FromWord(r) ==
            IF ~r.ok THEN ThrownValue
            ELSE IF r.word = Null /\ r.content < 0 THEN NullValue
            ELSE IF r.word.kind = "cap" THEN Cap(r.word.id)
            ELSE IF type.kind = "interface" THEN ThrownValue
            ELSE FromCopy(DecodeAnyPointerMessage(msg, seg, at, DefaultOptions))
    IN CASE type.kind \in {"text", "data", "list"} -> FromList(ReadListPointer(msg, seg, at))
         [] type.kind = "struct" -> FromStruct(ReadStructPointer(msg, seg, at))
         [] type.kind \in {"interface", "anyPointer"} -> FromWord(Resolve(msg, seg, at, "on"))

\* A section or a slot that an older layout does not have, and a null pointer, give the
\* default; so does a member of the union that is not the active one.
DecodeFields(msg, d, ref, active) ==
    LET slot(field) == ref.start + ref.data + field.offset
        IsSet(r) == r.ok /\ r.word # Null
        value(field) ==
            IF ~IsActive(d, field, active) THEN DefaultOf(field)
            ELSE IF field.group THEN DecodeStructAt(msg, field.type.desc, ref)
            ELSE IF IsData(field.type)
                 THEN IF Fits(ref, field.offset * BitSize(field.type), BitSize(field.type))
                      THEN DecodeDataField(msg, ref, field) ELSE DefaultOf(field)
            ELSE IF field.offset < ref.ptrs /\ IsSet(Resolve(msg, ref.seg, slot(field), "on"))
                 THEN DecodePointerField(msg, ref.seg, slot(field), field.type)
            ELSE DefaultOf(field)
        Whole(f) ==
            IF \E n \in DOMAIN f : f[n] = ThrownValue THEN ThrownValue
            ELSE Rec(IF active \in Discs(d) THEN Name(d, active) ELSE CreateDefault(d).which, f)
    IN Whole([n \in NamesOf(d) |-> value(Named(d, n))])
DecodeStructAt(msg, d, ref) ==
    LET tagBit == 2 * ByteBits * d.union[1]
    IN DecodeFields(msg, d, ref,
           IF ~HasUnion(d) THEN -1
           ELSE IF ~Fits(ref, tagBit, 2 * ByteBits) THEN 0
           ELSE GetBits(msg, ref.seg, ref.start * WordBits + tagBit, 2 * ByteBits))

DecodeStructMessage(d, msg) ==
    DecodePointerField(msg, 0, 0, [kind |-> "struct", desc |-> d])

(***************************************************************************)
(* The capabilities of a value.                                            *)
(***************************************************************************)
CapItem(value) == IF value.is = "cap" THEN <<value.index>> ELSE <<>>

RECURSIVE Collect(_, _)
\* collectCapabilityPointersFromStruct
CollectField(field, value) ==
    LET type == field.type
        items == AsArray(value)
    IN CASE type.kind \in {"interface", "anyPointer"} -> CapItem(value)
         [] type.kind = "struct" -> Collect(type.desc, AsRecord(value))
         [] type.kind = "list" ->
              FlattenSeq([i \in DOMAIN items |->
                  CASE type.element.kind \in {"interface", "anyPointer"} -> CapItem(items[i])
                    [] type.element.kind = "struct" -> Collect(type.element.desc, AsRecord(items[i]))
                    [] OTHER -> <<>>])
         [] OTHER -> <<>>
Collect(d, rec) ==
    LET active == ActiveDiscriminant(d, rec)
    IN FlattenSeq([i \in DOMAIN d.fields |->
           IF IsActive(d, d.fields[i], active)
           THEN CollectField(d.fields[i], FieldOf(rec, d.fields[i].name)) ELSE <<>>])

Remapped(value, mapping) ==
    IF value.is = "cap" /\ value.index \in DOMAIN mapping THEN Cap(mapping[value.index]) ELSE value

RECURSIVE MapCaps(_, _, _)
\* remapCapabilityIndices, resolveDecodedCapabilities: what was not there is, empty,
\* where the walk goes on below it.
MapField(field, value, mapping) ==
    LET type == field.type
        items == AsArray(value)
    IN CASE type.kind \in {"interface", "anyPointer"} -> Remapped(value, mapping)
         [] type.kind = "struct" -> MapCaps(type.desc, AsRecord(value), mapping)
         [] type.kind = "list" ->
              CASE type.element.kind \in {"interface", "anyPointer"} ->
                     Arr([i \in DOMAIN items |-> Remapped(items[i], mapping)])
                [] type.element.kind = "struct" ->
                     Arr([i \in DOMAIN items |-> MapCaps(type.element.desc, AsRecord(items[i]), mapping)])
                [] OTHER -> value
         [] OTHER -> value
MapCaps(d, rec, mapping) ==
    LET active == ActiveDiscriminant(d, rec)
        f == [n \in NamesOf(d) |->
                 LET field == Named(d, n)
                     value == FieldOf(rec, n)
                 IN IF IsActive(d, field, active) THEN MapField(field, value, mapping) ELSE value]
    IN Rec(rec.which, f @@ rec.f)

\* encodeStructMessageWithCaps: each capability once in the table.
CapTableOf(d, rec) ==
    FoldLeft(LAMBDA t, c : IF Contains(t, c) THEN t ELSE Append(t, c), <<>>, Collect(d, rec))
\* Broken form: the place is the length of the table behind the push.
PlacesBehind(table) ==
    [c \in {table[i] : i \in DOMAIN table} |-> CHOOSE i \in DOMAIN table : table[i] = c]

\* The index that the remapped value has for each capability.
Places(table) ==
    [c \in {table[i] : i \in DOMAIN table} |-> (CHOOSE i \in DOMAIN table : table[i] = c) - 1]
EncodeStructMessageWithCaps(d, rec) ==
    LET With(table) ==
            [content |-> EncodeStructMessage(d, IF table = <<>> THEN rec
                                                ELSE MapCaps(d, rec, Places(table))),
             caps |-> [i \in DOMAIN table |-> [tag |-> 1, id |-> table[i]]]]
    IN With(CapTableOf(d, rec))

DecodeStructMessageWithCaps(d, msg, caps) ==
    LET With(rec) ==
            IF rec = ThrownValue \/ caps = <<>> THEN rec
            ELSE MapCaps(d, rec, [i \in 0 .. (Len(caps) - 1) |-> caps[i + 1].id])
    IN With(DecodeStructMessage(d, msg))

(***************************************************************************)
(* A call of a generated client, and its dispatch by generated code.        *)
(***************************************************************************)
CodecInit == exchange = <<>> /\ paramsFrame = <<>> /\ received = <<>>

\* The parameters are encoded and put in a call.
CallWith(params) ==
    IF params.content = Thrown THEN Thrown
    ELSE Encode([kind |-> "call", questionId |-> 1, interfaceId |-> 2, methodId |-> 3,
                 target |-> [tag |-> 0, importedCap |-> 0],
                 content |-> <<params.content>>, caps |-> params.caps])
SendParams(e) ==
    /\ exchange = <<>> /\ exchange' = <<e>>
    /\ paramsFrame' = CallWith(EncodeStructMessageWithCaps(e.writes, e.value))
    /\ UNCHANGED received

ParamsOf(call) ==
    IF Throws(call) THEN ThrownValue
    ELSE DecodeStructMessageWithCaps(exchange[1].reads, call.content, call.caps)
ReceiveParams ==
    /\ paramsFrame # <<>> /\ received = <<>>
    /\ received' = <<ParamsOf(Decode(<<paramsFrame>>))>>
    /\ UNCHANGED <<exchange, paramsFrame>>

CodecNext == ReceiveParams \/ \E e \in Exchanges : SendParams(e)
CodecSpec == CodecInit /\ [][CodecNext]_codecVars

(***************************************************************************)
(* Properties.                                                             *)
(***************************************************************************)
RECURSIVE CapsHeld(_)
\* The capabilities anywhere in a value.
CapsHeld(value) ==
    CASE value.is = "cap" -> {value.index}
      [] value.is = "array" -> UNION {CapsHeld(value.items[i]) : i \in DOMAIN value.items}
      [] value.is = "record" -> UNION {CapsHeld(value.f[n]) : n \in DOMAIN value.f}
      [] OTHER -> {}

RECURSIVE Meant(_, _), MeantBy(_, _, _)
\* What a value is to a reader with descriptor d: its own fields and no others, the
\* defaults where the value says nothing, and one member of a union.
MeantBy(field, type, value) ==
    CASE type.kind = "struct" -> Meant(type.desc, AsRecord(value))
      [] type.kind = "list" ->
           Arr([i \in DOMAIN AsArray(value) |->
               IF type.element.kind = "void" THEN Undefined
               ELSE MeantBy([field EXCEPT !.mask = 0], type.element, AsArray(value)[i])])
      [] IsData(type) -> Num(IF field.mask = 0 /\ ~IsFinite(type, value.n) THEN 0
                             ELSE Ordinal(type, value.n))
      [] OTHER -> value
Meant(d, rec) ==
    LET active == {i \in Members(d) : d.fields[i].name = rec.which}
        first == {i \in Members(d) : d.fields[i].disc = 0 /\ rec.which = "none"}
        isOut(field) == field.disc >= 0 /\ field \notin {d.fields[i] : i \in active \cup first}
        value(field) == FieldOf(rec, field.name)
    IN Rec(IF ~HasUnion(d) THEN "none" ELSE IF active # {} THEN rec.which ELSE Name(d, 0),
           [n \in NamesOf(d) |->
               LET field == Named(d, n)
               IN IF isOut(field) \/ value(field).is = "undefined"
                     \/ (value(field).is = "null" /\ ~IsData(field.type))
                  THEN DefaultOf(field) ELSE MeantBy(field, field.type, value(field))])

RECURSIVE CapsIn(_, _)
CapsIn(msg, slot) ==
    LET ref == Read(msg, slot)
    IN IF ref.is = "cap" THEN {ref.id}
       ELSE UNION {CapsIn(msg, Slots(ref)[i]) : i \in DOMAIN Slots(ref)}

\* "Each capability pointer in the encoded struct references an index in the returned cap
\* table."
CapsListed ==
    exchange # <<>> =>
    LET encoded == EncodeStructMessageWithCaps(exchange[1].writes, exchange[1].value)
    IN CapsIn(<<encoded.content>>, Root) \subseteq 0 .. (Len(encoded.caps) - 1)

\* Whatever the layout, the table and the frame did to it, a value comes out of a call
\* as the receiver's version of the schema means it: numbers with and without defaults,
\* one member of a union, nested structs and lists, messages within the message, and the
\* capabilities, which travel as indices into a table that holds each of them once.
\* Fields that one version does not know have their defaults in the other.  Only a value
\* with an index that no u32 holds cannot be sent.
ValuesSurvive ==
    exchange # <<>> =>
    LET held == CapsHeld(exchange[1].value)
        table == CapTableOf(exchange[1].writes, exchange[1].value)
    IN /\ paramsFrame = Thrown <=> \E c \in held : ~IsU32(c)
       /\ paramsFrame # Thrown => ValidateCapnpFrame(<<paramsFrame>>)
       /\ Range(table) = held /\ IsInjective(table) /\ CapsListed
       /\ received # <<>> => received[1] = Meant(exchange[1].reads, exchange[1].value)
=============================================================================
