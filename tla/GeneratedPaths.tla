---------------------------- MODULE GeneratedPaths ----------------------------
(* Where the modules that capnpc-deno generates go, and what the import lines     *)
(* between them say (finalizeGeneratedFiles and its helpers in cli.ts, the        *)
(* specifiers of ModuleImportCollector in emitter_helpers.ts).                    *)
(*                                                                              *)
(* A path is [abs, names]; a name is a sequence of words, joined by "_" in the    *)
(* code.  The compiler reports an absolute path without its leading "/", so a     *)
(* source comes back as a relative one.                                           *)
EXTENDS Integers, Sequences, FiniteSets, SequencesExt, FiniteSetsExt

CONSTANT
    Invocations  \* [layout, schemas, srcDirs, requested, refs]: the command line, the
                 \* sources it generates, and the pairs of sources that import

ASSUME PathsAssumption ==
    \A v \in Invocations :
        /\ v.layout \in {"schema", "flat"}
        /\ v.refs \subseteq v.requested \X (v.requested \cup {r[2] : r \in v.refs})

VARIABLES
    invocation,
    modules      \* the output path of each generated file, or a failure

pathVars == <<invocation, modules>>

Relative(names) == [abs |-> FALSE, names |-> names]
Absolute(path) == [path EXCEPT !.abs = TRUE]
Reported(path) == [path EXCEPT !.abs = FALSE]
Directory(path) == [path EXCEPT !.names = Front(@)]

IsUnder(path, root) == path.abs = root.abs /\ IsPrefix(root.names, path.names)

\* createAbsoluteSourceReconstructor: the relative reading goes first.
ReconstructSource(v, source) ==
    IF source \in v.schemas \/ \E d \in v.srcDirs : IsUnder(source, d) THEN source
    ELSE IF \/ Absolute(source) \in v.schemas
            \/ \E d \in v.srcDirs : IsUnder(Absolute(source), d)
    THEN Absolute(source)
    ELSE source

\* absoluteSchemaLayoutRoots: the directory that the absolute schemas have in common.
SchemaLayoutRoots(v) ==
    LET dirs == {Directory(s).names : s \in {p \in v.schemas : p.abs}}
        common == {n \in 0 .. 4 : \A d, e \in dirs :
                       Len(d) >= n /\ SubSeq(d, 1, n) = SubSeq(e, 1, n)}
    IN IF dirs = {} THEN {}
       ELSE {[abs |-> TRUE, names |-> SubSeq(CHOOSE d \in dirs : TRUE, 1, Max(common))]}

SchemaRoots(v) == v.srcDirs \cup SchemaLayoutRoots(v)

\* reconstructImportTargetSource: a target need not be an input.
ReconstructTarget(v, source) ==
    LET s == ReconstructSource(v, source)
        anchored == Absolute(s)
    IN IF ~s.abs /\ \E root \in SchemaRoots(v) : IsUnder(anchored, root)
       THEN anchored ELSE s

\* deriveSchemaRelativePath: below the longest root; outside of all roots an absolute
\* path keeps its last name, and a relative one stays.  A root itself has none.
SchemaRelative(v, source) ==
    LET above == {root \in SchemaRoots(v) : IsUnder(source, root)}
        longest == Max({Len(root.names) : root \in above})
    IN IF above # {} THEN SubSeq(source.names, longest + 1, Len(source.names))
       ELSE IF source.abs THEN <<Last(source.names)>>
       ELSE source.names

\* toOutputPath, and toModulePathFromSchema: the kind is the suffix of the file name.
Module(names, kind) == [names |-> names, kind |-> kind]
FlatPath(source, kind) == Module(<<Last(source.names)>>, kind)

Kinds == {"types", "meta"}

\* Broken form: only the generated files claim a name.
ClaimantsGenerated(v, flat) ==
    {ReconstructSource(v, s) : s \in {s \in v.requested : FlatPath(s, flat.kind) = flat}}

\* Which sources claim a flat name, in this run and by its imports.
FlatClaimants(v, flat) ==
    {ReconstructSource(v, s) : s \in {s \in v.requested : FlatPath(s, flat.kind) = flat}}
    \cup {ReconstructTarget(v, r[2]) :
             r \in {r \in v.refs : FlatPath(r[2], "types") = flat}}

\* A name that several sources claim becomes the path of each, its directories joined.
FlatOutputPath(v, source, kind) ==
    LET flat == FlatPath(source, kind)
        relative == SchemaRelative(v, source)
    IN IF Cardinality(FlatClaimants(v, flat)) < 2 \/ relative = <<>> THEN flat
       ELSE Module(<<FlattenSeq(relative)>>, kind)

\* mapGeneratedFilePath.
MapOutputPath(v, source, kind) ==
    IF v.layout = "flat" THEN FlatOutputPath(v, source, kind)
    ELSE IF SchemaRelative(v, source) = <<>> THEN FlatPath(source, kind)
    ELSE Module(SchemaRelative(v, source), kind)

OutputPath(v, s, kind) == MapOutputPath(v, ReconstructSource(v, s), kind)
TargetPath(v, s) == MapOutputPath(v, ReconstructTarget(v, s), "types")

\* relativeModuleSpecifier: up to the common directory, and down again.
RelativeSpecifier(from, to) ==
    LET dir == Front(from.names)
        common == Max({n \in 0 .. Len(dir) : n < Len(to.names)
                           /\ SubSeq(dir, 1, n) = SubSeq(to.names, 1, n)})
    IN [ups |-> Len(dir) - common, tail |-> SubSeq(to.names, common + 1, Len(to.names)),
        kind |-> to.kind]

Generated(v) == v.requested \X Kinds

\* pathToSource: two files at one path end the run.
Collides(v) ==
    Cardinality({OutputPath(v, f[1], f[2]) : f \in Generated(v)})
        < Cardinality(Generated(v))

NoModules == [collided |-> FALSE, at |-> <<>>, imports |-> <<>>]

PathTypeOK ==
    /\ invocation.layout \in {"schema", "flat"}
    /\ modules.collided \in BOOLEAN
    /\ modules.at # <<>> => DOMAIN modules.at = Generated(invocation)

PathInit == invocation \in Invocations /\ modules = NoModules

\* finalizeGeneratedFiles.
Finalize ==
    /\ modules = NoModules
    /\ modules' =
           IF Collides(invocation) THEN [NoModules EXCEPT !.collided = TRUE]
           ELSE [collided |-> FALSE,
                 at |-> [f \in Generated(invocation) |->
                            OutputPath(invocation, f[1], f[2])],
                 imports |-> [r \in invocation.refs |->
                                 RelativeSpecifier(OutputPath(invocation, r[1], "types"),
                                                   TargetPath(invocation, r[2]))]]
    /\ UNCHANGED invocation

PathNext == Finalize

PathSpec == PathInit /\ [][PathNext]_pathVars

(***************************************************************************)
(* Properties.                                                             *)
(***************************************************************************)
\* What a specifier means in the module that is at `from`.
LeadsTo(from, specifier) ==
    Module(SubSeq(from.names, 1, Len(from.names) - 1 - specifier.ups) \o specifier.tail,
           specifier.kind)

\* Relative and absolute inputs that the compiler reports alike.
Ambiguous(v) ==
    \E s \in v.requested, root \in SchemaRoots(v) :
        ~ReconstructSource(v, s).abs /\ IsUnder(Absolute(s), root)

\* The place of a source below its root, as one name.
JoinedName(v, path) == FlattenSeq(SchemaRelative(v, path))

\* An import line leads to the module of its source when this run generates it.  When
\* it does not, the line leads to the module of another source only if both have the
\* same place below their roots, which nothing checks.
ImportsMeet ==
    \A r \in DOMAIN modules.imports :
        LET v == invocation
            target == LeadsTo(modules.at[<<r[1], "types">>], modules.imports[r])
        IN IF r[2] \in v.requested
           THEN ~Ambiguous(v) => target = modules.at[<<r[2], "types">>]
           ELSE \A f \in DOMAIN modules.at :
                    target = modules.at[f] =>
                        JoinedName(v, ReconstructSource(v, f[1]))
                            = JoinedName(v, ReconstructTarget(v, r[2]))

\* Without a collision each source has a module of each kind of its own, and one that
\* was given as an absolute path is placed below the root it came from.
SourcesPlaced ==
    \A f \in DOMAIN modules.at :
        /\ modules.at[f].names # <<>> /\ Last(modules.at[f].names) # <<>>
        /\ \A g \in DOMAIN modules.at : f # g => modules.at[f] # modules.at[g]
        /\ (/\ Absolute(f[1]) \in invocation.schemas /\ f[1] \notin invocation.schemas
            /\ ~(\E d \in invocation.srcDirs : IsUnder(f[1], d))
            /\ invocation.layout = "schema") =>
                   \E root \in SchemaRoots(invocation) :
                       root.names \o modules.at[f].names = f[1].names
=============================================================================
