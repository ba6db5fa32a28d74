---------------------------- MODULE SchemaCompiler ----------------------------
(* The schema compiler of capnpc-deno: compile() and dispose() around a worker   *)
(* (compiler.ts), and the snapshot of the import graph that a job hands to it     *)
(* (snapshotSchemaWorkspace of workspace.ts).                                     *)
(*                                                                              *)
(* The contents of a file are [size, text], and a text is a sequence of tokens.    *)
(* The snapshot opens files one after another, and each open and each read is    *)
(* awaited: an editor may change a file, the timer may fire, or the owner may     *)
(* dispose of the compiler between any two of them.                               *)
EXTENDS Integers, Sequences, FiniteSets, SequencesExt, Functions, FiniteSetsExt

CONSTANTS
    Jobs,            \* calls of compile()
    ImportRoots,     \* the import directories, in order
    SchemaNames,     \* names of files
    Bundled,         \* the include files of the compiler: name -> contents
    Disks,           \* what the disk may hold at the start: path -> contents
    Edited,          \* contents that an editor may write
    Entrypoints,     \* the schema files of a job, in order
    MaxEdits,
    MaxBytes, MaxEntries  \* workspaceBytes, workspaceEntries

\* A path is a directory and a name; the sources are in a directory of their own.
Mounts == Range(ImportRoots) \cup {"source"}
Paths == Mounts \X SchemaNames
Missing == [size |-> -1, text |-> <<>>]
NoPath == <<"", "">>

(***************************************************************************)
(* schemaDependencies.                                                     *)
(***************************************************************************)
\* The file that a method needs whose results are a stream.
StreamSchema == [name |-> "stream", absolute |-> TRUE, schema |-> TRUE]

\* A dependency is listed once.
AddDependency(deps, dep) == IF dep \in Range(deps) THEN deps ELSE Append(deps, dep)

\* pending is the keyword that a string may follow; arrow, that the last token was one.
NextToken(s, token) ==
    CASE token.is = "string" /\ s.pending # "none" ->
             [deps |-> AddDependency(s.deps,
                           [name |-> token.name, absolute |-> token.absolute,
                            schema |-> s.pending = "import"]),
              pending |-> "none", arrow |-> FALSE]
      [] token.is = "stream" /\ s.arrow ->
             [deps |-> AddDependency(s.deps, StreamSchema),
              pending |-> "none", arrow |-> FALSE]
      [] OTHER ->
             [deps |-> s.deps, arrow |-> token.is = "arrow",
              pending |-> IF token.is \in {"import", "embed"} THEN token.is ELSE "none"]

SchemaDependencies(text) ==
    FoldLeft(NextToken, [deps |-> <<>>, pending |-> "none", arrow |-> FALSE], text).deps

(***************************************************************************)
(* The contents of files.                                                  *)
(***************************************************************************)
\* What is bundled, on a disk, or written by an editor.
SchemaContents == (Range(Bundled) \cup Edited \cup UNION {Range(d) : d \in Disks}) \ {Missing}
Dependencies == [name : SchemaNames, absolute : BOOLEAN, schema : BOOLEAN]

\* The names that files mention are among the names of files.
ASSUME CompilerAssumption ==
    /\ Mounts \cap {"include", ""} = {} /\ IsFiniteSet(SchemaNames)
    /\ DOMAIN Bundled \subseteq SchemaNames /\ Missing \notin Range(Bundled)
    /\ \A d \in Disks : d = [p \in Paths |-> d[p]]
    /\ ImportRoots \in Seq(Mounts) /\ Entrypoints \in Seq(Paths)
    /\ \A c \in SchemaContents :
           c.size \in Nat /\ SchemaDependencies(c.text) \in Seq(Dependencies)
    /\ MaxEdits \in Nat /\ MaxBytes \in Nat /\ MaxEntries \in Nat

\* The bytes of some files, each with its place in its file.
BytesOf(files) == UNION {{p} \X (1 .. files[p].size) : p \in DOMAIN files}

\* The nodes of a workspace: its files and the directories that they lie in.
TreeNodes(paths) == paths \cup {<<p[1], "">> : p \in paths}
IncludePaths == {"include"} \X DOMAIN Bundled

VARIABLES
    schemaDisk,   \* the files
    edits,        \* how often an editor has written
    unedited,     \* no edit since the job of the snapshot began
    disposed,     \* of the compiler
    job,          \* per call: where it is, and whether its signal is aborted
    snapshot      \* of the job that is under way, or was last

compilerVars == <<schemaDisk, edits, unedited, disposed, job, snapshot>>

(***************************************************************************)
(* The snapshot.                                                           *)
(***************************************************************************)
Item(path, schema, required) == [path |-> path, schema |-> schema, required |-> required]

\* The variables of snapshotSchemaWorkspace: `at` is the file whose dependencies
\* are followed, `deps` what is left of them, `root` the next directory for the
\* first of them, `opened` the file that is being read.
FreshSnapshot ==
    [files |-> <<>>, bytes |-> Cardinality(BytesOf(Bundled)),
     queue |-> [i \in DOMAIN Entrypoints |-> Item(Entrypoints[i], TRUE, TRUE)],
     includeQueue |-> <<>>,
     scheduled |-> {<<TRUE, p>> : p \in Range(Entrypoints)},
     scanned |-> {}, item |-> Item(NoPath, FALSE, FALSE), at |-> NoPath, deps |-> <<>>,
     root |-> 1, opened |-> NoPath, found |-> Missing]

\* The include files are charged before anything else; when they alone are too much, the
\* job fails.
IncludesFit ==
    Cardinality(BytesOf(Bundled)) <= MaxBytes /\ Cardinality(TreeNodes(IncludePaths)) <= MaxEntries

\* The nodes that are charged when a snapshot has these files and opens that one.
Entries(files, opened) == TreeNodes(IncludePaths \cup DOMAIN files \cup ({opened} \ {NoPath}))

CompilerTypeOK ==
    /\ DOMAIN schemaDisk = Paths /\ edits \in 0 .. MaxEdits /\ unedited \in BOOLEAN
    /\ disposed \in BOOLEAN
    /\ job \in [Jobs -> [at : {"idle", "snapshot", "worker", "done", "failed", "refused"},
                         aborted : BOOLEAN, timer : BOOLEAN]]
    /\ DOMAIN snapshot.files \subseteq Paths /\ snapshot.bytes \in Nat

CompilerInit ==
    /\ schemaDisk \in Disks /\ edits = 0 /\ unedited = TRUE /\ disposed = FALSE
    /\ job = [j \in Jobs |-> [at |-> "idle", aborted |-> FALSE, timer |-> FALSE]]
    /\ snapshot = FreshSnapshot

Busy == \E j \in Jobs : job[j].at \in {"snapshot", "worker"}
Snapshots(j) == job[j].at = "snapshot"

(***************************************************************************)
(* compile() and dispose().                                                *)
(***************************************************************************)
Compile(j) ==
    /\ job[j].at = "idle"
    /\ IF disposed \/ Busy
       THEN job' = [job EXCEPT ![j].at = "refused"] /\ UNCHANGED <<snapshot, unedited>>
       ELSE /\ \E aborted \in BOOLEAN :  \* by the caller, before the call
                   job' = [job EXCEPT
                              ![j] = [at |-> IF IncludesFit THEN "snapshot" ELSE "failed",
                                      aborted |-> aborted, timer |-> IncludesFit]]
            /\ snapshot' = FreshSnapshot /\ unedited' = TRUE
    /\ UNCHANGED <<schemaDisk, edits, disposed>>

JobEnds(j, how) ==
    /\ job' = [job EXCEPT ![j].at = how, ![j].timer = FALSE]
    /\ UNCHANGED <<schemaDisk, edits, unedited, disposed, snapshot>>

\* The timer of the job, or the caller.
AbortJob(j) ==
    /\ job[j].at \in {"snapshot", "worker"} /\ ~job[j].aborted
    /\ job' = [job EXCEPT ![j].aborted = TRUE]
    /\ UNCHANGED <<schemaDisk, edits, unedited, disposed, snapshot>>

DisposeCompiler ==
    /\ ~disposed /\ disposed' = TRUE
    /\ job' = [j \in Jobs |->
                  IF job[j].at \in {"snapshot", "worker"}
                  THEN [job[j] EXCEPT !.aborted = TRUE] ELSE job[j]]
    /\ UNCHANGED <<schemaDisk, edits, unedited, snapshot>>

\* The worker answers, or fails; it fails when the signal is aborted.
WorkerAnswers(j) ==
    /\ job[j].at = "worker"
    /\ \/ ~job[j].aborted /\ JobEnds(j, "done")
       \/ JobEnds(j, "failed")

EditSchema(p, c) ==
    /\ edits < MaxEdits /\ schemaDisk[p] # c
    /\ schemaDisk' = [schemaDisk EXCEPT ![p] = c]
    /\ edits' = edits + 1 /\ unedited' = FALSE
    /\ UNCHANGED <<disposed, job, snapshot>>

(***************************************************************************)
(* The steps of the snapshot.                                              *)
(***************************************************************************)
Continues(s) ==
    snapshot' = s /\ UNCHANGED <<schemaDisk, edits, unedited, disposed, job>>

Loaded(p) == p \in DOMAIN snapshot.files

\* Nothing is being read, and no dependency is being followed.
AtHead == snapshot.opened = NoPath /\ snapshot.at = NoPath
Next1(s) == [s EXCEPT !.deps = Tail(@), !.root = 1]

\* Broken form: a file that is embedded first counts as scheduled for an import.
ScheduledOnce(dep, target) ==
    \E schema \in BOOLEAN : <<schema, target>> \in snapshot.scheduled

Scheduled(dep, target) == <<dep.schema, target>> \in snapshot.scheduled

\* What the loop does with a dependency that has been resolved.
Schedules(dep, target) ==
    IF target[1] = "include"
    THEN Next1(IF ~dep.schema \/ <<TRUE, target>> \in snapshot.scheduled THEN snapshot
               ELSE [snapshot EXCEPT !.scheduled = @ \cup {<<TRUE, target>>},
                                     !.includeQueue = Append(@, target)])
    ELSE Next1(IF Scheduled(dep, target) THEN snapshot
               ELSE [snapshot EXCEPT
                        !.scheduled = @ \cup {<<dep.schema, target>>},
                        !.queue = Append(@, Item(target, dep.schema, FALSE))])

\* Two entries are scheduled for each node at most.
Follows(j, dep, target) ==
    IF target[1] # "include" /\ ~Scheduled(dep, target)
       /\ Cardinality(snapshot.scheduled) >= 2 * MaxEntries
    THEN JobEnds(j, "failed")
    ELSE Continues(Schedules(dep, target))

\* The content of an item is there: its dependencies are followed, once.
Scans(s, path, schema, content) ==
    IF ~schema \/ path \in s.scanned THEN [s EXCEPT !.item.path = NoPath]
    ELSE [s EXCEPT !.item.path = NoPath, !.scanned = @ \cup {path}, !.at = path,
                   !.deps = SchemaDependencies(content.text), !.root = 1]

\* reserve(): the budget is charged before the file is read.
Charged(s, p, content) ==
    [s EXCEPT !.opened = p, !.found = content, !.bytes = @ + content.size]
OverBudget(p, content) ==
    \/ snapshot.bytes + content.size > MaxBytes
    \/ Cardinality(Entries(snapshot.files, p)) > MaxEntries

\* open and stat of load(), for a file that is not loaded yet.
OpensFile(j, p) ==
    IF job[j].aborted \/ OverBudget(p, schemaDisk[p]) THEN JobEnds(j, "failed")
    ELSE Continues(Charged(snapshot, p, schemaDisk[p]))

\* The head of the loop: the sources first, then the include files.
TakesItem(j) ==
    /\ Snapshots(j) /\ AtHead /\ snapshot.item.path = NoPath
    /\ snapshot.queue # <<>> \/ snapshot.includeQueue # <<>>
    /\ IF job[j].aborted THEN JobEnds(j, "failed")
       ELSE IF snapshot.queue # <<>>
       THEN Continues([snapshot EXCEPT !.item = Head(snapshot.queue), !.queue = Tail(@)])
       ELSE LET p == Head(snapshot.includeQueue)
            IN Continues(Scans([snapshot EXCEPT !.includeQueue = Tail(@)], p, TRUE,
                               Bundled[p[2]]))

\* load() of that item.
LoadsItem(j) ==
    /\ Snapshots(j) /\ AtHead /\ snapshot.item.path # NoPath
    /\ LET i == snapshot.item
       IN IF Loaded(i.path)
          THEN Continues(Scans(snapshot, i.path, i.schema, snapshot.files[i.path]))
          ELSE IF schemaDisk[i.path] # Missing THEN OpensFile(j, i.path)
          ELSE IF i.required THEN JobEnds(j, "failed")
          ELSE Continues([snapshot EXCEPT !.item.path = NoPath])

WithFile(files, p, content) ==
    [x \in DOMAIN files \cup {p} |-> IF x = p THEN content ELSE files[x]]

\* The file has been read: its old content or its new one.  Another size shows.
ReadsFile(j) ==
    /\ Snapshots(j) /\ snapshot.opened # NoPath
    /\ \E c \in {snapshot.found, schemaDisk[snapshot.opened]} \ {Missing} :
           IF job[j].aborted \/ c.size # snapshot.found.size THEN JobEnds(j, "failed")
           ELSE LET p == snapshot.opened
                    s == [snapshot EXCEPT !.files = WithFile(@, p, c), !.opened = NoPath,
                                          !.found = Missing]
                IN Continues(IF snapshot.at = NoPath
                             THEN Scans(s, p, snapshot.item.schema, c) ELSE s)

\* resolveDependency, for the first dependency that is left.
FollowsDep(j) ==
    /\ Snapshots(j) /\ snapshot.opened = NoPath /\ snapshot.at # NoPath
    /\ LET dep == Head(snapshot.deps)
           mount == snapshot.at[1]
           here == <<mount, dep.name>>
           candidate == <<ImportRoots[snapshot.root], dep.name>>
           inclusion == IF dep.name \in DOMAIN Bundled
                        THEN Schedules(dep, <<"include", dep.name>>) ELSE Next1(snapshot)
       IN IF snapshot.deps = <<>> THEN Continues([snapshot EXCEPT !.at = NoPath])
          ELSE IF ~dep.absolute /\ mount # "include" THEN Follows(j, dep, here)
          ELSE IF ~dep.absolute \/ snapshot.root > Len(ImportRoots)
          THEN Continues(inclusion)
          ELSE IF Loaded(candidate) THEN Follows(j, dep, candidate)
          ELSE IF schemaDisk[candidate] = Missing
          THEN Continues([snapshot EXCEPT !.root = @ + 1])
          ELSE OpensFile(j, candidate)

\* Nothing is left to load: the worker gets the snapshot.
EntersWorker(j) ==
    /\ Snapshots(j) /\ AtHead /\ snapshot.item.path = NoPath
    /\ snapshot.queue = <<>> /\ snapshot.includeQueue = <<>>
    /\ IF job[j].aborted THEN JobEnds(j, "failed")
       ELSE /\ job' = [job EXCEPT ![j].at = "worker"]
            /\ UNCHANGED <<schemaDisk, edits, unedited, disposed, snapshot>>

SnapshotStep(j) ==
    TakesItem(j) \/ LoadsItem(j) \/ ReadsFile(j) \/ FollowsDep(j) \/ EntersWorker(j)

CompilerNext ==
    \/ DisposeCompiler
    \/ \E p \in Paths, c \in Edited \cup {Missing} : EditSchema(p, c)
    \/ \E j \in Jobs : Compile(j) \/ AbortJob(j) \/ SnapshotStep(j) \/ WorkerAnswers(j)

CompilerSpec == CompilerInit /\ [][CompilerNext]_compilerVars

(***************************************************************************)
(* Properties.                                                             *)
(***************************************************************************)
\* Where a compiler that sees `files` finds a dependency of the file at `from`.
FoundIn(files, from, dep) ==
    LET here == <<from[1], dep.name>>
        roots == {i \in DOMAIN ImportRoots : <<ImportRoots[i], dep.name>> \in files}
    IN IF ~dep.absolute /\ from[1] # "include"
       THEN IF here \in files THEN here ELSE NoPath
       ELSE IF dep.absolute /\ roots # {} THEN <<ImportRoots[Min(roots)], dep.name>>
       ELSE IF dep.name \in DOMAIN Bundled THEN <<"include", dep.name>> ELSE NoPath

DepsOf(p) ==
    SchemaDependencies((IF p[1] = "include" THEN Bundled[p[2]] ELSE snapshot.files[p]).text)
OnDisk == {p \in Paths : schemaDisk[p] # Missing}

\* What the worker gets is closed: when nobody edits meanwhile, it finds each
\* dependency of each file it reads, and the one that the disk has.  Nothing is in the
\* snapshot but the schema files of the job and what they reach.
SnapshotClosed ==
    (\E j \in Jobs : job[j].at = "worker") =>
        LET files == DOMAIN snapshot.files
            deps == {d \in snapshot.scanned \X (1 .. 4) : d[2] \in DOMAIN DepsOf(d[1])}
            Target(seen, d) == FoundIn(seen, d[1], DepsOf(d[1])[d[2]])
        IN /\ Range(Entrypoints) \subseteq files \cap snapshot.scanned
           /\ unedited =>
                  /\ \A d \in deps :
                         LET t == Target(files, d)
                         IN /\ t = Target(OnDisk, d)
                            /\ t # NoPath /\ DepsOf(d[1])[d[2]].schema =>
                                   t \in snapshot.scanned
                  /\ files \subseteq Range(Entrypoints) \cup {Target(files, d) : d \in deps}

\* The budget is what the files of the snapshot take, and no job exceeds it.
BudgetExact ==
    LET opening == IF snapshot.opened = NoPath THEN 0 ELSE snapshot.found.size
    IN /\ snapshot.bytes = Cardinality(BytesOf(Bundled))
                           + Cardinality(BytesOf(snapshot.files)) + opening
       /\ Busy => /\ snapshot.bytes <= MaxBytes
                  /\ Cardinality(Entries(snapshot.files, snapshot.opened)) <= MaxEntries

\* One job at a time has the compiler, only jobs that have ended are without a timer,
\* and what is disposed of is aborted, so that no job reaches the worker any more.
OneJobRuns ==
    /\ Cardinality({j \in Jobs : job[j].at \in {"snapshot", "worker"}}) <= 1
    /\ \A j \in Jobs : /\ job[j].timer <=> job[j].at \in {"snapshot", "worker"}
                       /\ disposed /\ job[j].timer => job[j].aborted
=============================================================================
