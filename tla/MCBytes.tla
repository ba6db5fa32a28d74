-------------------------------- MODULE MCBytes --------------------------------
(* Everything that is bytes or text, for one run: the framer, the pointers and    *)
(* their copies, the codec of RPC messages, the values of generated types in      *)
(* them, the calls that carry them across the ABI of the WebAssembly module, and  *)
(* the tool that generates the code around them.                                  *)
(* They share no state: in each behaviour one of them is the subject.             *)
EXTENDS FrameFramer, StructCodec, WasmAbi, MCTools

VARIABLE subject

(***************************************************************************)
(* Segment tables, shapes and damages.                                     *)
(***************************************************************************)
MCTables == {<<2>>, <<1, 0>>, <<0, 1, 1>>, <<0, 0, 0, 0>>, <<3>>}

StructOf(data, ptrs) == [is |-> "struct", data |-> data, ptrs |-> ptrs]
FlatOf(size, count) == [is |-> "flat", size |-> size, count |-> count]
CompositeOf(count, data, ptrs) == [is |-> "composite", count |-> count, data |-> data, ptrs |-> ptrs]

MCShapes ==
    {StructOf(0, 0), StructOf(1, 1), StructOf(0, 2), FlatOf(2, 9), FlatOf(6, 1),
     CompositeOf(2, 1, 1), CompositeOf(2, 0, 1)}

MCDamages ==
    {Null, CapWord(2), Struct(-2, 0, 1), Struct(0, 1, 0), Struct(0, 0, 1), Struct(1, 0, 1),
     Struct(2, 0, 1), List(0, 2, 8), List(-2, 6, 2), List(0, 7, 1), List(0, 7, 2),
     Far(FALSE, 0, 1), Far(FALSE, 1, 0), Far(TRUE, 1, 0)}

(***************************************************************************)
(* RPC messages.  HalfRange is 16: 255 is the largest u32, 65535 the       *)
(* largest u64, and one more of each is refused.                           *)
(***************************************************************************)
Contents ==
    {<<>>, <<<<Struct(-1, 0, 0)>>>>, <<<<Struct(0, 1, 1), CapWord(11), CapWord(1)>>>>,
     <<<<Far(FALSE, 1, 0)>>, <<Struct(0, 1, 0), CapWord(12)>>>>, <<<<Far(TRUE, 1, 0)>>>>}

Hosted(tag, id) == [tag |-> tag, id |-> id]
CapTables ==
    {<<>>, <<Hosted(1, 255), Hosted(3, 0)>>, <<Hosted(1, 256)>>,
     <<[tag |-> 5, id |-> 0, vineId |-> 18, contact |-> <<1, 0, 3>>], Hosted(1, 2)>>,
     <<[tag |-> 5, id |-> 0, vineId |-> 1]>>}

Flags == {"yes", "no", "unset"}

Promised(question, transform) == [tag |-> 1, questionId |-> question, transform |-> transform]
GetField(index) == [tag |-> 1, pointerIndex |-> index]
Targets ==
    {[tag |-> 0, importedCap |-> 17], [tag |-> 0, importedCap |-> 256],
     Promised(255, <<>>), Promised(3, <<[tag |-> 0], GetField(15)>>),
     Promised(3, <<GetField(16)>>), Promised(3, <<[tag |-> 2]>>)}

MCRpcMessages ==
    [kind : {"bootstrap"}, questionId : {0, 255, 256}]
    \cup [kind : {"call"}, questionId : {16}, interfaceId : {65535, 4097, 65536},
          methodId : {15, 16}, target : Targets, content : Contents, caps : CapTables]
    \cup [kind : {"finish"}, questionId : {0, 17}, releaseResultCaps : Flags,
          requireEarlyCancellation : Flags]
    \cup [kind : {"release"}, id : {255}, referenceCount : {1, 255, 256}]
    \cup [kind : {"results"}, answerId : {0, 33}, releaseParamCaps : Flags, noFinishNeeded : Flags,
          content : Contents, caps : CapTables]
    \cup [kind : {"exception"}, answerId : {33}, releaseParamCaps : Flags, noFinishNeeded : Flags,
          reason : {<<>>, <<1, 0>>, <<1, 2, 3, 4, 5, 6, 7>>, <<1, 2, 3, 4, 5, 6, 7, 8>>}]

(***************************************************************************)
(* Descriptors and values.  A byte has two bits: an i16 is -8 .. 7, a f32  *)
(* 0 .. 254 with 255 for what is not finite.                               *)
(***************************************************************************)
IntType(bytes) == [kind |-> "int", bytes |-> bytes]
UIntType(bytes) == [kind |-> "uint", bytes |-> bytes]
FloatType(bytes) == [kind |-> "float", bytes |-> bytes]
EnumType(count) == [kind |-> "enum", count |-> count]
KindOf(kind) == [kind |-> kind]
ListOf(element) == [kind |-> "list", element |-> element]
StructType(desc) == [kind |-> "struct", desc |-> desc]

Field(name, type, offset, mask) ==
    [name |-> name, group |-> FALSE, disc |-> -1, offset |-> offset, type |-> type, mask |-> mask,
     default |-> <<>>]
Member(disc, field) == [field EXCEPT !.disc = disc]
Group(name, desc) == [Field(name, StructType(desc), 0, 0) EXCEPT !.group = TRUE]
Desc(data, ptrs, union, fields) == [data |-> data, ptrs |-> ptrs, union |-> union, fields |-> fields]
Value(f) == Rec("none", f)

\* Numbers, in an older and a newer version.
NumbersOld ==
    Desc(1, 0, <<>>, <<Field("b", KindOf("bool"), 0, 1), Field("i", IntType(2), 1, 5),
                       Field("e", EnumType(3), 2, 1), Field("u", UIntType(1), 6, 0)>>)
NumbersNew ==
    Desc(3, 0, <<>>, NumbersOld.fields \o
        <<Field("w", UIntType(4), 2, 3), Field("f", FloatType(4), 3, 0), Field("h", FloatType(4), 4, 9),
          Field("b2", KindOf("bool"), 3, 0), Field("v", KindOf("void"), 0, 0)>>)
NumberValues ==
    {Value(f) : f \in [b : {Num(0), Num(1)}, i : {Num(-8), Num(7)}, e : {Num(0), Num(2)},
                       u : {Num(3), Undefined}, w : {Num(200)}, f : {Num(255), Num(6)},
                       h : {Num(255)}, b2 : {Num(1)}]}

\* A union, which a newer version gives a capability and a group.
UnionOld ==
    Desc(1, 1, <<0>>, <<Field("k", UIntType(2), 3, 0), Member(0, Field("a", UIntType(2), 1, 2)),
                        Member(1, Field("t", KindOf("text"), 0, 0))>>)
Inner == Desc(1, 1, <<>>, <<Field("x", IntType(1), 4, 0), Field("y", KindOf("text"), 0, 0)>>)
UnionNew ==
    Desc(1, 1, <<0>>, UnionOld.fields \o
        <<Member(2, Field("c", KindOf("interface"), 0, 0)), Member(3, Group("g", Inner))>>)
UnionValuesOld ==
    {Rec("a", [k |-> Num(1), a |-> Num(5)]), Rec("t", [k |-> Num(2), t |-> Text(<<1>>), a |-> Num(3)]),
     Value([k |-> Num(3)]), Rec("a", [k |-> Num(3), t |-> Text(<<>>)])}
CapMember == Rec("c", [k |-> Num(1), c |-> Cap(7)])
UnionValuesNew ==
    UnionValuesOld \cup
    {CapMember, Rec("c", [c |-> NullValue]),
     Rec("g", [k |-> Num(9), g |-> Value([x |-> Num(-1), y |-> Text(<<2, 3>>)])])}

\* Structs and lists of structs.
NestedOld ==
    Desc(0, 2, <<>>, <<Field("s", StructType(UnionOld), 0, 0),
                       Field("l", ListOf(StructType(NumbersOld)), 1, 0)>>)
NestedNew ==
    Desc(0, 4, <<>>, <<Field("s", StructType(UnionNew), 0, 0),
                       Field("l", ListOf(StructType(NumbersNew)), 1, 0),
                       Field("caps", ListOf(KindOf("interface")), 2, 0),
                       [Field("name", KindOf("text"), 3, 0) EXCEPT !.default = <<Text(<<1, 2>>)>>]>>)
Pairs == {Value([i |-> Num(3)]), Value([b |-> Num(0), i |-> Num(-2)])}
NestedValuesOld ==
    {Value(f) : f \in [s : UnionValuesOld \cup {NullValue},
                       l : {Arr(<<>>), Undefined} \cup {Arr(<<x, y>>) : x, y \in Pairs}]}
NestedValuesNew ==
    {Value(f) : f \in [s : {Undefined, CapMember},
                       l : {Undefined, Arr(<<Value([w |-> Num(5)])>>)},
                       caps : {Undefined, Arr(<<>>), Arr(<<Cap(7), NullValue, Cap(9), Cap(7)>>)},
                       name : {Undefined, Text(<<>>)}]}

\* A list of every kind of element, next to a pointer to anything.
WithList(element) ==
    Desc(0, 2, <<>>, <<Field("l", ListOf(element), 0, 0), Field("p", KindOf("anyPointer"), 1, 0)>>)
Ones(n) == CapWord([i \in 1 .. 16 |-> IF i <= n THEN 1 ELSE 0])
Lists ==
    {<<KindOf("void"), [i \in 1 .. 3 |-> Undefined]>>,
     <<KindOf("bool"), [i \in 1 .. 17 |-> Num((i \div 2) % 2)]>>,
     <<IntType(1), [i \in 1 .. 9 |-> Num((i % 4) - 2)]>>,
     <<EnumType(3), [i \in 1 .. 5 |-> Num(i % 3)]>>,
     <<UIntType(4), <<Num(255), Num(1), Num(7)>>>>,
     <<UIntType(8), <<Num(65535), Num(1)>>>>,
     <<KindOf("text"), <<Text(<<>>), Text(<<1, 0, 3>>)>>>>,
     <<KindOf("data"), <<Data(<<>>), Data([i \in 1 .. 9 |-> i % 4])>>>>,
     <<ListOf(UIntType(2)), <<Arr(<<Num(1)>>), Arr(<<>>)>>>>,
     <<KindOf("interface"), <<Cap(5), NullValue, Cap(3), Cap(5)>>>>,
     <<KindOf("anyPointer"), <<Cap(3), Message(<<Struct(0, 1, 0), Ones(8)>>), NullValue>>>>,
     <<StructType(Desc(0, 0, <<>>, <<>>)), <<Value(<<>>), Value(<<>>)>>>>}
Anythings ==
    {Undefined, NullValue, Cap(3), Cap(256),
     Message(<<Struct(0, 1, 1), Ones(16), List(0, 2, 3), Ones(6)>>)}

Exchange(writes, reads, value) == [writes |-> writes, reads |-> reads, value |-> value]
MCExchanges ==
    {Exchange(NumbersNew, r, v) : r \in {NumbersOld, NumbersNew}, v \in NumberValues}
    \cup {Exchange(UnionNew, r, v) : r \in {UnionOld, UnionNew}, v \in UnionValuesNew}
    \cup {Exchange(UnionOld, r, v) : r \in {UnionOld, UnionNew}, v \in UnionValuesOld}
    \cup {Exchange(NestedOld, r, v) : r \in {NestedOld, NestedNew}, v \in NestedValuesOld}
    \cup {Exchange(NestedNew, r, v) : r \in {NestedOld, NestedNew}, v \in NestedValuesNew}
    \cup {Exchange(WithList(x[1]), WithList(x[1]), Value([l |-> Arr(x[2]), p |-> p])) :
              x \in Lists, p \in Anythings}

CapLists == WithList(ListOf(KindOf("interface")))
MCNestedCaps ==
    {Exchange(CapLists, CapLists, Value([l |-> Arr(<<Arr(<<Cap(5)>>)>>), p |-> p])) :
        p \in {Undefined, Cap(3)}}

(***************************************************************************)
(* The run.                                                                *)
(***************************************************************************)
Subjects ==
    {"framer", "pointers", "rpc", "values", "abi", "compiler", "paths", "output", "names"}

vars == <<framerVars, wireVars, rpcVars, codecVars, abiVars, toolVars, subject>>

\* Only the subject chooses among its initial states.
MCInit ==
    /\ subject \in Subjects
    /\ FramerInit /\ WireInit /\ RpcInit /\ CodecInit /\ AbiInit
    /\ subject # "framer" => streamTables = <<>>
    /\ subject # "pointers" => message = <<<<Null>>>>
    /\ ToolInit(subject)

FramersNext ==
    /\ subject = "framer" /\ FramerNext
    /\ UNCHANGED <<wireVars, rpcVars, codecVars, abiVars, toolVars>>
PointersNext ==
    /\ subject = "pointers" /\ WireNext
    /\ UNCHANGED <<framerVars, rpcVars, codecVars, abiVars, toolVars>>
FramesNext ==
    /\ subject = "rpc" /\ RpcNext
    /\ UNCHANGED <<framerVars, wireVars, codecVars, abiVars, toolVars>>
ValuesNext ==
    /\ subject = "values" /\ CodecNext
    /\ UNCHANGED <<framerVars, wireVars, rpcVars, abiVars, toolVars>>
AbisNext ==
    /\ subject = "abi" /\ AbiNext
    /\ UNCHANGED <<framerVars, wireVars, rpcVars, codecVars, toolVars>>
ToolsNext ==
    /\ ToolNext(subject)
    /\ UNCHANGED <<framerVars, wireVars, rpcVars, codecVars, abiVars>>

MCNext ==
    /\ \/ FramersNext \/ PointersNext \/ FramesNext \/ ValuesNext \/ AbisNext
       \/ ToolsNext
    /\ UNCHANGED subject

MCSpec == MCInit /\ [][MCNext]_vars

\* Frames come out of the stream as they went in, and stay as they came out.
FramedAsSent ==
    subject = "framer" => FramerTypeOK /\ FramesAsSent /\ GivenOutUntouched

\* The walk that validates a frame, the readers of the runtime, of the RPC layer and of
\* the code generator agree about every pointer; and a copied message means what the
\* original means, wherever it is put, and costs what is charged for it.
PointersMean ==
    subject = "pointers" =>
        WalkExact /\ ReadersAgree /\ CopiesKeepMeaning /\ EmbeddingKeepsMeaning

\* Whatever a schema imports is found: the worker of the compiler has the file, and the
\* module that is generated imports from the right path a name that is exported there,
\* under a name that means nothing else.
ImportsFound ==
    /\ subject = "compiler" => SnapshotClosed
    /\ subject = "paths" => ImportsMeet /\ SourcesPlaced
    /\ subject = "names" => NamesSound

\* A job of the compiler keeps its budget and is alone; and however runs of the tool
\* overlap and end, the barrel in the output directory exports modules that are there.
ToolRunsKept ==
    /\ subject = "compiler" => CompilerTypeOK /\ BudgetExact /\ OneJobRuns
    /\ subject = "paths" => PathTypeOK
    /\ subject = "names" => NameTypeOK
    /\ subject = "output" => OutputKept
=============================================================================
