----------------------------- MODULE GeneratedNames -----------------------------
(* The names in the modules that capnpc-deno generates: what a module declares    *)
(* and exports, what it imports from the modules of other schema files and under  *)
(* which alias (emitter_helpers.ts), and for which structs it has functions that  *)
(* replace live stubs by capability pointers and back (emitter_types_module.ts).  *)
(*                                                                              *)
(* A name is a sequence of words.  A schema node is known by its number, and the  *)
(* numbers of the nodes of a file are in the order of their display names.        *)
EXTENDS Integers, Sequences, FiniteSets, SequencesExt, FiniteSetsExt, TLC

CONSTANTS
    Requests,   \* id -> [file, base, kind, top, group, fields, methods, supers]; a field
                \* is [kind, id], with the element type for a list, and a method the
                \* structs of its parameters and, unless it streams, of its results
    Stems,      \* file -> its name without directories, as a word
    RuntimeNames  \* names that every module imports from the library

ASSUME NamesAssumption ==
    \A r \in Requests : \A n \in DOMAIN r :
        r[n].kind \in {"enum", "struct", "interface"} /\ r[n].file \in DOMAIN Stems

VARIABLES
    request,    \* what the compiler asks for
    moduleIndex,      \* node -> [name, exported], or nothing yet
    emitted     \* file -> what its module declares and imports, or that it is refused

nameVars == <<request, moduleIndex, emitted>>

Nodes == DOMAIN request
NodesOf(f, kinds) == {n \in Nodes : request[n].file = f /\ request[n].kind \in kinds}
ById(nodes) == SetToSortSeq(nodes, <)
SchemaFiles == {request[n].file : n \in Nodes}
NoNodes == [n \in {} |-> <<>>]

(***************************************************************************)
(* buildModuleIndex.                                                       *)
(***************************************************************************)
\* The first of base, base2, base3, ... that is not used.
FirstFree(base, used) ==
    LET Candidate(i) == IF i = 1 THEN base ELSE Append(base, ToString(i))
    IN Candidate(Min({i \in 1 .. (Cardinality(used) + 1) : Candidate(i) \notin used}))

\* assignTypeNames
AssignTypeNames(nodes) ==
    FoldLeft(LAMBDA names, n :
                 LET used == {names[o] : o \in DOMAIN names}
                 IN names @@ (n :> FirstFree(<<request[n].base>>, used)),
             NoNodes, nodes)

\* The enums and structs of a file share a pool of names; its interfaces have another.
TypeNames(f) ==
    AssignTypeNames(ById(NodesOf(f, {"enum"})) \o ById(NodesOf(f, {"struct"})))
    @@ AssignTypeNames(ById(NodesOf(f, {"interface"})))

MethodTypes(n) == UNION {Range(m) : m \in Range(request[n].methods)}

\* collectCrossFileNestedTypeIds: what some node of another file refers to.
CrossFileTypes ==
    UNION {{t \in {f.id : f \in Range(request[n].fields)} \cup MethodTypes(n) :
                request[t].file # request[n].file} : n \in Nodes}

\* collectLocalTypes: a nested type is exported for a method or for another file.
IsExported(n) ==
    \/ request[n].kind = "interface" \/ request[n].top
    \/ \E i \in Nodes : request[i].file = request[n].file /\ n \in MethodTypes(i)
    \/ n \in CrossFileTypes

BuildModuleIndex ==
    /\ moduleIndex = NoNodes
    /\ LET names == [f \in SchemaFiles |-> TypeNames(f)]
       IN moduleIndex' = [n \in Nodes |-> [name |-> names[request[n].file][n],
                                     exported |-> IsExported(n)]]
    /\ UNCHANGED <<request, emitted>>

NameOf(n) == moduleIndex[n].name

(***************************************************************************)
(* What a module declares.                                                 *)
(***************************************************************************)
Suffixed(name, word) == Append(name, word)
Maker(name, word) == <<"create">> \o name \o <<word>>

\* collectReservedModuleNames: of a node of the module's own file.
Declares(n) ==
    LET name == NameOf(n)
    IN CASE request[n].kind = "enum" ->
                {name, Suffixed(name, "Values"), Suffixed(name, "Type")}
         [] request[n].kind = "struct" ->
                {name, Suffixed(name, "Struct"), Suffixed(name, "Codec")}
         [] request[n].kind = "interface" ->
                {name, <<"bootstrap">> \o name \o <<"Client">>,
                 <<"register">> \o name \o <<"Server">>}
                \cup {Suffixed(name, w) : w \in {"Client", "Server", "Service",
                                                "InterfaceId", "MethodOrdinals",
                                                "DebugMethods"}}
                \cup {Maker(name, w) : w \in {"Client", "Server", "ServiceClient",
                                             "ServiceServer"}}

ReservedNames(f) == UNION {Declares(n) : n \in {n \in Nodes : request[n].file = f}}

\* What an importer can have of it, as a type and as a value.
Exports(n) ==
    LET name == NameOf(n)
    IN IF ~moduleIndex[n].exported THEN {}
       ELSE {<<"types", name>>} \cup
            CASE request[n].kind = "enum" -> {}
              [] request[n].kind = "struct" ->
                     {<<"values", Suffixed(name, "Struct")>>,
                      <<"values", Suffixed(name, "Codec")>>}
              [] request[n].kind = "interface" ->
                     {<<"values", name>>, <<"values", Maker(name, "Client")>>,
                      <<"values", Maker(name, "ServiceClient")>>}

(***************************************************************************)
(* ModuleImportCollector.                                                  *)
(***************************************************************************)
\* crossFileEntry and crossFileTypeReference.
Foreign(f, n) == request[n].file # f
CrossFileEntry(f, n) == Foreign(f, n) /\ moduleIndex[n].exported
Want(slot, n, name) == [slot |-> slot, id |-> n, name |-> name]
WantMirror(n) == Want("mirror", n, <<>>)

\* imports: what is imported as what; mirrors: local tables of imported enums; walkers:
\* the structs that the module can walk.
Collector(f) ==
    [reserved |-> RuntimeNames \cup ReservedNames(f), imports |-> {}, mirrors |-> {},
     walkers |-> {}, refused |-> FALSE]

\* Broken form: the exported name is taken when no import has it.
AliasOfImports(c, i) ==
    IF i.name \notin {j.alias : j \in c.imports} THEN i.name
    ELSE FirstFree(i.name \o <<"$", Stems[request[i.id].file]>>, c.reserved)

\* claimImportAlias
AliasFor(c, i) ==
    IF i.name \notin c.reserved THEN i.name
    ELSE FirstFree(i.name \o <<"$", Stems[request[i.id].file]>>, c.reserved)

ImportedAs(c, i) ==
    {j \in c.imports : j.file = request[i.id].file /\ j.slot = i.slot /\ j.name = i.name}

\* importName: once for each name, slot and module.
ImportName(c, i) ==
    IF ImportedAs(c, i) # {} THEN c
    ELSE LET alias == AliasFor(c, i)
         IN [c EXCEPT !.reserved = @ \cup {alias},
                      !.imports = @ \cup {[file |-> request[i.id].file, slot |-> i.slot,
                                           name |-> i.name, alias |-> alias]}]

\* enumMirror
MirrorEnum(c, n) ==
    IF \E m \in c.mirrors : m.id = n THEN c
    ELSE LET i == Want("types", n, NameOf(n))
             d == ImportName(c, i)
             alias == (CHOOSE j \in ImportedAs(d, i) : TRUE).alias
             values == FirstFree(Suffixed(alias, "Values"), d.reserved)
             table == FirstFree(Suffixed(alias, "Type"), d.reserved \cup {values})
         IN [d EXCEPT !.reserved = @ \cup {values, table},
                      !.mirrors = @ \cup {[id |-> n, values |-> values, table |-> table]}]

\* A position that refers to a type of another file: one that its module keeps to
\* itself ends the run with an error.
Serve(c, i) ==
    IF ~moduleIndex[i.id].exported THEN [c EXCEPT !.refused = TRUE]
    ELSE IF i.slot = "mirror" THEN MirrorEnum(c, i.id) ELSE ImportName(c, i)

(***************************************************************************)
(* The walkers.                                                            *)
(***************************************************************************)
\* walkerInterfaceResolves and walkerStructResolves.
Resolves(f, n) == Foreign(f, n) => CrossFileEntry(f, n)

RECURSIVE FieldsAt(_)
\* The fields of a struct, with those of its groups.
FieldsAt(n) ==
    FlattenSeq([i \in DOMAIN request[n].fields |->
                   LET t == request[n].fields[i]
                   IN IF t.kind = "group" THEN FieldsAt(t.id) ELSE <<t>>])

\* walkerNodeRefs
RefsTo(f, n, kind) ==
    {t.id : t \in {t \in Range(FieldsAt(n)) : t.kind = kind /\ Resolves(f, t.id)}}
StructRefs(f, n) == RefsTo(f, n, "struct")
HasCapability(f, n) == RefsTo(f, n, "interface") # {}

\* What Grow adds to a set, as often as it can add something.
Fixpoint(Grow(_), start) ==
    FoldLeft(LAMBDA s, i : Grow(s), start, [i \in 1 .. Cardinality(Nodes) |-> i])

\* The worklist of planCapabilityWalkers: structs of the module, and what they refer to.
Visited(f) ==
    Fixpoint(LAMBDA s : s \cup UNION {StructRefs(f, n) : n \in s},
             {n \in NodesOf(f, {"struct"}) : ~request[n].group})

\* Broken form: one pass in the order of the nodes.
CapBearingOnce(f, visited) ==
    LET direct == {n \in visited : HasCapability(f, n)}
    IN direct \cup {n \in visited : StructRefs(f, n) \cap direct # {}}

\* Its fixpoint: structs with a capability, or with such a struct.
CapBearing(f, visited) ==
    Fixpoint(LAMBDA s : s \cup {n \in visited : StructRefs(f, n) \cap s # {}},
             {n \in visited : HasCapability(f, n)})

PlanCapabilityWalkers(f) == CapBearing(f, Visited(f))

\* The names that the plan, and the bodies of the walkers, ask for.
PlanImports(f, walkers) ==
    LET foreign == ById({n \in walkers : Foreign(f, n)})
    IN [i \in DOMAIN foreign |-> Want("types", foreign[i], NameOf(foreign[i]))]

\* resolveInterfaceTokenBinding
BindingImports(f, n) ==
    LET name == NameOf(n)
    IN IF ~CrossFileEntry(f, n) THEN <<>>
       ELSE <<Want("values", n, name), Want("values", n, Maker(name, "Client")),
              Want("values", n, Maker(name, "ServiceClient"))>>

\* capabilityStubTypeName, resolveInterfaceTypeName
StubImport(f, n) ==
    IF CrossFileEntry(f, n) THEN <<Want("types", n, NameOf(n))>> ELSE <<>>

WalkerImports(f, walkers) ==
    LET sorted == ById(walkers)
        OfField(t) == IF t.kind # "interface" THEN <<>>
                      ELSE BindingImports(f, t.id) \o StubImport(f, t.id)
        OfWalker(fields) == FlattenSeq([j \in DOMAIN fields |-> OfField(fields[j])])
    IN FlattenSeq([i \in DOMAIN sorted |-> OfWalker(FieldsAt(sorted[i]))])

(***************************************************************************)
(* The emission of a module.                                               *)
(***************************************************************************)
\* typeToTs and resolveTypeName, for the interface of a struct.
TypeImports(f, t) ==
    IF t.kind = "interface" THEN StubImport(f, t.id)
    ELSE IF Foreign(f, t.id) THEN <<Want("types", t.id, NameOf(t.id))>> ELSE <<>>

\* defaultValueExpression
DefaultImports(f, t) ==
    IF ~Foreign(f, t.id) THEN <<>>
    ELSE CASE t.kind = "enum" -> <<WantMirror(t.id)>>
           [] t.kind = "struct" ->
                  <<Want("values", t.id, Suffixed(NameOf(t.id), "Struct"))>>
           [] OTHER -> <<>>

\* typeDescriptorExpression asks for the same.
DescriptorImports(f, t) == DefaultImports(f, t)

\* emitStructInterface
InterfaceImports(f, n) ==
    LET fields == request[n].fields
    IN FlattenSeq([i \in DOMAIN fields |-> TypeImports(f, fields[i])])

\* emitStructDescriptor: the defaults of all fields, then their descriptors.
StructImports(f, n) ==
    LET fields == request[n].fields
    IN FlattenSeq([i \in DOMAIN fields |-> DefaultImports(f, fields[i])])
       \o FlattenSeq([i \in DOMAIN fields |-> DescriptorImports(f, fields[i])])

\* singleFieldTypeExpression and the bindings of a method whose struct is one capability.
MethodImports(f, n) ==
    LET t == request[n].fields[1]
    IN IF Len(request[n].fields) # 1 \/ t.kind # "interface" THEN <<>>
       ELSE StubImport(f, t.id) \o BindingImports(f, t.id)

RECURSIVE Ancestors(_)
\* collectAncestorInterfaceIds
Ancestors(n) == UNION {{s} \cup Ancestors(s) : s \in request[n].supers}

\* resolveInterfaceInfo: the methods of an interface and those it inherits.  Their
\* structs are looked up among those of the module, and one that is not there ends the run.
AllMethodStructs(n) ==
    LET interfaces == <<n>> \o ById(Ancestors(n))
    IN FlattenSeq([i \in DOMAIN interfaces |-> FlattenSeq(request[interfaces[i]].methods)])

UnknownMethodStruct(f) ==
    \E n \in NodesOf(f, {"interface"}) :
        \E s \in Range(AllMethodStructs(n)) : Foreign(f, s)

\* Everything that emitTypesModule asks the collector for, in its order.
ModuleImports(f, walkers) ==
    LET structs == ById(NodesOf(f, {"struct"}))
        interfaces == ById(NodesOf(f, {"interface"}))
        OfStructs(Of(_)) == FlattenSeq([i \in DOMAIN structs |-> Of(structs[i])])
        OfMethods(s) == FlattenSeq([j \in DOMAIN s |-> MethodImports(f, s[j])])
    IN PlanImports(f, walkers)
       \o OfStructs(LAMBDA n : InterfaceImports(f, n))
       \o OfStructs(LAMBDA n : StructImports(f, n))
       \o WalkerImports(f, walkers)
       \o FlattenSeq([i \in DOMAIN interfaces |->
                          OfMethods(AllMethodStructs(interfaces[i]))])

EmitTypesModule(f) ==
    IF UnknownMethodStruct(f) THEN [Collector(f) EXCEPT !.refused = TRUE]
    ELSE LET walkers == PlanCapabilityWalkers(f)
         IN [FoldLeft(Serve, Collector(f), ModuleImports(f, walkers))
                EXCEPT !.walkers = walkers]

NameInit == request \in Requests /\ moduleIndex = NoNodes /\ emitted = NoNodes

\* generateTypescriptFiles
EmitModules ==
    /\ moduleIndex # NoNodes /\ emitted = NoNodes
    /\ emitted' = [f \in SchemaFiles |-> EmitTypesModule(f)]
    /\ UNCHANGED <<request, moduleIndex>>

NameNext == BuildModuleIndex \/ EmitModules

NameSpec == NameInit /\ [][NameNext]_nameVars

(***************************************************************************)
(* Properties.                                                             *)
(***************************************************************************)
NameTypeOK ==
    \A f \in DOMAIN emitted :
        /\ emitted[f].refused \in BOOLEAN
        /\ \A i \in emitted[f].imports : i.slot \in {"types", "values"}

\* Each import names something that the module of the other file exports.
ImportsExported ==
    \A f \in DOMAIN emitted : ~emitted[f].refused =>
        \A i \in emitted[f].imports :
            \E n \in Nodes :
                request[n].file = i.file /\ <<i.slot, i.name>> \in Exports(n)

\* No name of a module means two things: neither its own declarations of one kind, nor
\* an import and any other name.
NamesDistinct ==
    \A f \in DOMAIN emitted :
        LET m == emitted[f]
            own == ReservedNames(f)
            mirrors == {x.values : x \in m.mirrors} \cup {x.table : x \in m.mirrors}
        IN /\ \A kinds \in {{"enum", "struct"}, {"interface"}} :
                  \A a, b \in NodesOf(f, kinds) : a # b => NameOf(a) # NameOf(b)
           /\ \A i, j \in m.imports : i # j => i.alias # j.alias
           /\ \A i \in m.imports : i.alias \notin own \cup mirrors \cup RuntimeNames
           /\ own \cap mirrors = {} /\ Cardinality(mirrors) = 2 * Cardinality(m.mirrors)

\* A file is refused only when it inherits a method from an interface of another file,
\* or has a method with such structs.
RefusedForMethods ==
    \A f \in DOMAIN emitted : emitted[f].refused => UnknownMethodStruct(f)

RECURSIVE Reaches(_, _, _)
\* Some capability below the struct has a typed stub in the module; `path` is the way.
Reaches(f, n, path) ==
    \/ HasCapability(f, n)
    \/ \E t \in StructRefs(f, n) \ path : Reaches(f, t, path \cup {t})

\* Exactly the structs that have a stub somewhere below them are walked; a struct of
\* another file that is passed on the way is walked too, and can be named.
WalkersReach ==
    \A f \in DOMAIN emitted : ~emitted[f].refused =>
        LET w == emitted[f].walkers
        IN /\ \A n \in Nodes :
                  request[n].kind = "struct" /\ ~request[n].group /\ request[n].file = f =>
                      (n \in w <=> Reaches(f, n, {n}))
           /\ \A n \in w : /\ Resolves(f, n)
                           /\ \A t \in StructRefs(f, n) :
                                  Reaches(f, t, {t}) => t \in w

NamesSound == ImportsExported /\ NamesDistinct /\ RefusedForMethods /\ WalkersReach
=============================================================================
