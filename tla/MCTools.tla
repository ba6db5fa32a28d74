-------------------------------- MODULE MCTools --------------------------------
(* The code generator, for one run: the compiler that snapshots schema files, the *)
(* paths and the names of the modules made from them, and the output directory.   *)
(* They share no state: a module that composes them has one run per behaviour.    *)
EXTENDS SchemaCompiler, GeneratedPaths, GeneratedOutput, GeneratedNames

toolVars == <<compilerVars, pathVars, outputVars, nameVars>>

(***************************************************************************)
(* Schema files that embed and import each other in circles, from two      *)
(* import directories and the include files.                               *)
(***************************************************************************)
MCImportRoots == <<"r1", "r2">>
MCEntrypoints == <<<<"source", "x">>>>

Dep(name, absolute, schema) ==
    <<[is |-> IF schema THEN "import" ELSE "embed"],
      [is |-> "string", name |-> name, absolute |-> absolute]>>
Streams == <<[is |-> "arrow"], [is |-> "stream"]>>
\* A string that is not imported, and a method that is called stream.
Noise == <<[is |-> "import"], [is |-> "other"],
           [is |-> "string", name |-> "x", absolute |-> TRUE], [is |-> "stream"]>>
Schema(size, text) == [size |-> size, text |-> text]
MCBundled == [n \in {"stream"} |-> Schema(1, Dep("y", TRUE, TRUE))]

OnlyFiles(files) == [p \in Paths |-> IF p \in DOMAIN files THEN files[p] ELSE Missing]
MCDisks ==
    {OnlyFiles(
        (<<"source", "x">> :> Schema(1, Dep("y", FALSE, FALSE) \o Dep("y", TRUE, TRUE)
                                        \o Streams \o Streams))
        @@ (<<"source", "y">> :> Schema(1, Dep("x", FALSE, TRUE)))
        @@ (<<"r2", "y">> :> Schema(2, Dep("x", FALSE, TRUE) \o Dep("stream", FALSE, TRUE)))
        @@ (<<"r2", "x">> :> Schema(1, Noise))),
     OnlyFiles(
        (<<"source", "x">> :> Schema(1, Dep("y", FALSE, FALSE) \o Dep("y", FALSE, TRUE)))
        @@ (<<"source", "y">> :> Schema(1, Dep("x", TRUE, TRUE)))
        @@ (<<"r1", "x">> :> Schema(2, Dep("y", TRUE, TRUE)))
        @@ (<<"r2", "y">> :> Schema(1, Noise))),
     \* One node more than a job may have.
     OnlyFiles(
        (<<"source", "x">> :> Schema(1, Dep("y", FALSE, TRUE) \o Dep("stream", FALSE, FALSE)
                                        \o Dep("x", TRUE, TRUE)))
        @@ (<<"source", "y">> :> Schema(1, Noise))
        @@ (<<"source", "stream">> :> Schema(1, Noise))
        @@ (<<"r1", "x">> :> Schema(1, Dep("y", TRUE, TRUE)))
        @@ (<<"r2", "y">> :> Schema(1, Noise)))}
MCEdited == {Schema(2, Dep("stream", TRUE, TRUE)), Schema(1, Dep("y", TRUE, FALSE))}

(***************************************************************************)
(* Sources in directories a and a/b, and one that is called a_x.           *)
(***************************************************************************)
Source(names) == Relative([i \in DOMAIN names |-> <<names[i]>>])
SomeSources ==
    {Source(<<"x">>), Source(<<"a", "x">>), Source(<<"a", "b", "x">>),
     Relative(<<<<"a", "x">>>>)}
SchemaInputs ==
    UNION {kSubset(k, SomeSources \cup {Absolute(s) : s \in SomeSources}) : k \in 0 .. 2}
CommandLines ==
    [layout : {"schema", "flat"}, schemas : SchemaInputs,
     srcDirs : {{}, {Source(<<"a">>)}, {Absolute(Source(<<"a">>))}}]
RequestedBy(v) ==
    {Reported(s) : s \in v.schemas}
    \cup {s \in SomeSources : \E d \in v.srcDirs : IsPrefix(d.names, s.names)}
\* All import one source.
MCInvocations ==
    {v @@ [requested |-> RequestedBy(v), refs |-> RequestedBy(v) \X {s}] :
        v \in CommandLines, s \in SomeSources}

(***************************************************************************)
(* Runs of the tool that merge the barrel, and one that makes the tree.    *)
(***************************************************************************)
MCMakes ==
    ("r1" :> <<"m1", "mod">>) @@ ("r2" :> <<"m2", "mod">>)
    @@ ("r3" :> <<"m1", "mod">>)

(***************************************************************************)
(* Schema files 1, 2 and 3, the last two with one stem.  Everything wants  *)
(* to be called Foo, or as something that the library exports.             *)
(***************************************************************************)
MCStems == <<"X", "Y", "Y">>
MCRuntimeNames == {<<"RpcStub">>}

KindOfNode ==
    <<"struct", "struct", "struct", "struct", "enum", "interface", "interface", "struct",
      "group">>
Ref(n) == <<[kind |-> KindOfNode[n], id |-> n]>>
RefOrNot(nodes) == {<<>>} \cup {Ref(n) : n \in nodes}
Node(file, base, kind, top, fields) ==
    [file |-> file, base |-> base, kind |-> kind, top |-> top, group |-> FALSE,
     fields |-> fields, methods |-> <<>>, supers |-> {}]
MCRequests ==
    {<<Node(1, "Foo", "struct", TRUE, top1), Node(1, "Foo", "struct", FALSE, nested1),
       Node(2, "Foo", "struct", TRUE, top2), Node(2, base, "struct", FALSE, nested2),
       Node(3, "Foo", "enum", exported, <<>>),
       [Node(3, "Foo", "interface", TRUE, <<>>) EXCEPT !.methods = methods],
       [Node(1, "Svc", "interface", TRUE, <<>>) EXCEPT !.methods = <<<<8>>>>,
                                                       !.supers = supers],
       Node(1, "Foo", "struct", FALSE, Ref(6)),
       [Node(1, "g", "struct", FALSE, Ref(4)) EXCEPT !.group = TRUE]>> :
        top1 \in {Ref(3) \o Ref(5), Ref(4) \o Ref(5), Ref(5) \o Ref(6), Ref(9)},
        nested1 \in RefOrNot({1, 5}), top2 \in RefOrNot({1, 4}),
        nested2 \in RefOrNot({3, 6}), base \in {"Foo", "RpcStub"},
        exported \in BOOLEAN, supers \in {{}, {6}},
        methods \in {<<>>, <<<<1>>>>}}

(***************************************************************************)
(* One of them runs.                                                       *)
(***************************************************************************)
\* The others rest in an initial state.
ToolInit(subject) ==
    /\ subject # "compiler" => schemaDisk = CHOOSE d \in Disks : TRUE
    /\ subject # "paths" => invocation = CHOOSE v \in Invocations : TRUE
    /\ subject # "names" => request = CHOOSE r \in Requests : TRUE
    /\ CompilerInit /\ PathInit /\ OutputInit /\ NameInit
    /\ subject # "output" => ~Exists(Barrel)

ToolNext(subject) ==
    \/ /\ subject = "compiler" /\ CompilerNext
       /\ UNCHANGED <<pathVars, outputVars, nameVars>>
    \/ subject = "paths" /\ PathNext /\ UNCHANGED <<compilerVars, outputVars, nameVars>>
    \/ subject = "output" /\ OutputNext /\ UNCHANGED <<compilerVars, pathVars, nameVars>>
    \/ subject = "names" /\ NameNext /\ UNCHANGED <<compilerVars, pathVars, outputVars>>
=============================================================================
