---------------------------- MODULE GeneratedOutput ----------------------------
(* How capnpc-deno puts its modules into the output directory: main() of main.ts, *)
(* mergeBarrelWithExistingModule and the barrel's reader and writer in cli.ts, and *)
(* publishGeneratedFiles of workspace_output.ts.                                  *)
(*                                                                              *)
(* Runs of the tool share the directory.  Every call of the file system is        *)
(* awaited: another run, or the user, may come in between, each step may fail,    *)
(* and the process may be killed.                                                 *)
EXTENDS Integers, Sequences, FiniteSets, SequencesExt

CONSTANTS
    ToolRuns,
    Makes,       \* run -> its files in the order of finalizeGeneratedFiles
    WholeTree,   \* runs with --src, which do not merge the barrel
    Barrel,      \* mod.ts
    MaxDeletes

GeneratedModules == (UNION {Range(Makes[r]) : r \in ToolRuns}) \ {Barrel}

ASSUME OutputAssumption ==
    /\ WholeTree \subseteq ToolRuns /\ MaxDeletes \in Nat
    /\ ToolRuns \cap {"nobody", "user"} = {}
    /\ \A r \in ToolRuns :
           /\ Makes[r] \in Seq(GeneratedModules \cup {Barrel}) /\ Makes[r] # <<>>
           /\ IsInjective(Makes[r])
           /\ \A i \in DOMAIN Makes[r] : Makes[r][i] = Barrel => i = Len(Makes[r])

VARIABLES
    outDir,      \* path -> what is there
    toolRun,     \* run -> where it is
    deletes,     \* how often the user has removed a module
    deleted,     \* modules that are missing and went after the last writer of the
                 \* barrel had begun
    listed,      \* modules that the barrel should list: those of every run that merged
                 \* it since it was last overwritten, but what the user has removed
    overlapped   \* two runs have been under way together, or one was killed

outputVars == <<outDir, toolRun, deletes, deleted, listed, overlapped>>

NoFile == [by |-> "nobody", entries |-> {}]
Written(r, entries) == [by |-> r, entries |-> entries]
HandWritten == [by |-> "user", entries |-> {}]

\* preserved and left: the entries of the old barrel that are kept and that are not
\* checked yet; staged and renamed count files; outcome is how publishing goes;
\* missed: what the user has removed since the run began.
IdleRun == [at |-> "idle", preserved |-> {}, left |-> {}, staging |-> FALSE, staged |-> 0,
            renamed |-> 0, outcome |-> "none", missed |-> {}]

Exists(path) == outDir[path] # NoFile
Own(r) == Range(Makes[r]) \ {Barrel}
UnderWay(r) == toolRun[r].at \notin {"idle", "ended", "killed"}

OutputTypeOK ==
    /\ DOMAIN outDir = GeneratedModules \cup {Barrel}
    /\ \A r \in ToolRuns :
           /\ toolRun[r].at \in {"idle", "merging", "staging", "renaming", "cleaning",
                                 "ended", "killed"}
           /\ toolRun[r].staged \in 0 .. Len(Makes[r])
           /\ toolRun[r].renamed <= toolRun[r].staged
           /\ toolRun[r].preserved \cup toolRun[r].left \subseteq GeneratedModules \ Own(r)
    /\ deletes \in 0 .. MaxDeletes /\ deleted \subseteq GeneratedModules
    /\ listed \subseteq GeneratedModules /\ overlapped \in BOOLEAN

OutputInit ==
    /\ \E b \in {NoFile, HandWritten} :
           outDir = [p \in GeneratedModules \cup {Barrel} |->
                        IF p = Barrel THEN b ELSE NoFile]
    /\ toolRun = [r \in ToolRuns |-> IdleRun]
    /\ deletes = 0 /\ deleted = {} /\ listed = {} /\ overlapped = FALSE

Moves(r, s) == toolRun' = [toolRun EXCEPT ![r] = s]

\* What the old barrel offers: parseBarrelModuleEntries takes only a generated one.
OldEntries(r) ==
    IF r \in WholeTree \/ Barrel \notin Range(Makes[r]) THEN {}
    ELSE outDir[Barrel].entries \ Own(r)

\* The files are made in memory; the barrel on disk is read.
ReadsBarrel(r) ==
    /\ toolRun[r].at = "idle"
    /\ Moves(r, [IdleRun EXCEPT !.at = "merging", !.left = OldEntries(r)])
    /\ overlapped' = (overlapped \/ \E o \in ToolRuns : UnderWay(o))
    /\ UNCHANGED <<outDir, deletes, deleted, listed>>

\* Broken form: an entry is kept without a look at the disk.
KeepsEntry(r, m) ==
    /\ toolRun[r].at = "merging" /\ m \in toolRun[r].left
    /\ Moves(r, [toolRun[r] EXCEPT !.left = @ \ {m}, !.preserved = @ \cup {m}])
    /\ UNCHANGED <<outDir, deletes, deleted, listed, overlapped>>

\* An entry of the old barrel is kept when its module is still there.
ChecksEntry(r, m) ==
    /\ toolRun[r].at = "merging" /\ m \in toolRun[r].left
    /\ Moves(r, [toolRun[r] EXCEPT !.left = @ \ {m},
                                   !.preserved = IF Exists(m) THEN @ \cup {m} ELSE @])
    /\ UNCHANGED <<outDir, deletes, deleted, listed, overlapped>>

\* makeTempDir in the output directory; each run has its own.
OpensStaging(r) ==
    /\ toolRun[r].at = "merging" /\ toolRun[r].left = {}
    /\ Moves(r, [toolRun[r] EXCEPT !.at = "staging", !.staging = TRUE])
    /\ UNCHANGED <<outDir, deletes, deleted, listed, overlapped>>

\* Parents are made and looked at, the target is looked at, the contents are written.
StagesFile(r) ==
    /\ toolRun[r].at = "staging" /\ toolRun[r].staged < Len(Makes[r])
    /\ Moves(r, [toolRun[r] EXCEPT !.staged = @ + 1])
    /\ UNCHANGED <<outDir, deletes, deleted, listed, overlapped>>

ContentsOf(r, path) ==
    Written(r, IF path = Barrel THEN Own(r) \cup toolRun[r].preserved ELSE {})

\* Broken form: the last file, which is the barrel, comes first.
LastFirst(r) ==
    IF toolRun[r].renamed = 0 THEN Len(Makes[r]) ELSE toolRun[r].renamed

\* The order in which the staged files take their places.
Position(r) == toolRun[r].renamed + 1

RenamesFile(r) ==
    /\ toolRun[r].at \in {"staging", "renaming"} /\ toolRun[r].staged = Len(Makes[r])
    /\ toolRun[r].renamed < Len(Makes[r])
    /\ LET path == Makes[r][Position(r)]
       IN /\ outDir' = [outDir EXCEPT ![path] = ContentsOf(r, path)]
          /\ deleted' = IF path = Barrel THEN toolRun[r].missed ELSE deleted \ {path}
          /\ listed' = IF path # Barrel THEN listed
                       ELSE IF r \in WholeTree THEN Own(r)
                       ELSE (listed \ deleted) \cup Own(r)
          /\ toolRun' = [o \in ToolRuns |->
                            LET t == [toolRun[o] EXCEPT !.missed = @ \ {path}]
                            IN IF o = r
                               THEN [t EXCEPT !.at = "renaming", !.renamed = @ + 1] ELSE t]
    /\ UNCHANGED <<deletes, overlapped>>

\* Any call before may fail, and what is renamed stays.
PublishFails(r) ==
    /\ toolRun[r].at \in {"merging", "staging", "renaming"} /\ toolRun[r].left = {}
    /\ toolRun[r].renamed < Len(Makes[r])
    /\ Moves(r, [toolRun[r] EXCEPT !.at = IF @ = "merging" THEN "ended" ELSE "cleaning",
                                   !.outcome = IF @ = "none" THEN "failed" ELSE @])
    /\ UNCHANGED <<outDir, deletes, deleted, listed, overlapped>>

\* finally: the staging directory goes, and what is still in it.
RemovesStaging(r) ==
    /\ \/ toolRun[r].at = "cleaning"
       \/ toolRun[r].at = "renaming" /\ toolRun[r].renamed = Len(Makes[r])
    /\ Moves(r, [toolRun[r] EXCEPT !.at = "ended", !.staging = FALSE,
                                   !.outcome = IF @ = "none" THEN "done" ELSE @])
    /\ UNCHANGED <<outDir, deletes, deleted, listed, overlapped>>

\* The process is killed.
ToolKilled(r) ==
    /\ UnderWay(r)
    /\ Moves(r, [toolRun[r] EXCEPT !.at = "killed"])
    /\ overlapped' = TRUE
    /\ UNCHANGED <<outDir, deletes, deleted, listed>>

\* The user removes a module.
DeletesModule(m) ==
    /\ Exists(m) /\ deletes < MaxDeletes /\ deletes' = deletes + 1
    /\ outDir' = [outDir EXCEPT ![m] = NoFile]
    /\ deleted' = deleted \cup {m}
    /\ toolRun' = [r \in ToolRuns |->
                      IF UnderWay(r) THEN [toolRun[r] EXCEPT !.missed = @ \cup {m}]
                      ELSE toolRun[r]]
    /\ UNCHANGED <<listed, overlapped>>

OutputNext ==
    \/ \E r \in ToolRuns :
           \/ ReadsBarrel(r) \/ OpensStaging(r) \/ StagesFile(r) \/ RenamesFile(r)
           \/ PublishFails(r) \/ RemovesStaging(r) \/ ToolKilled(r)
           \/ \E m \in GeneratedModules : ChecksEntry(r, m)
    \/ \E m \in GeneratedModules : DeletesModule(m)

OutputSpec == OutputInit /\ [][OutputNext]_outputVars

(***************************************************************************)
(* Properties.                                                             *)
(***************************************************************************)
\* Whatever runs overlap, fail or are killed, each module that the barrel exports is
\* there, unless the user has removed it after the barrel's writer began.
BarrelResolves == \A m \in outDir[Barrel].entries : Exists(m) \/ m \in deleted

\* While runs come one after another, the barrel still lists what the runs that merged
\* it have made.
BarrelComplete == ~overlapped => listed \subseteq outDir[Barrel].entries \cup deleted

\* A run that fails while it stages has changed nothing, one that is done has put every
\* file, and only a run that was killed leaves its staging directory behind.
AllOrStaged ==
    \A r \in ToolRuns :
        LET t == toolRun[r]
        IN /\ (\E p \in DOMAIN outDir : outDir[p].by = r) => t.staged = Len(Makes[r])
           /\ t.outcome = "done" => t.renamed = Len(Makes[r])
           /\ t.staging => UnderWay(r) \/ t.at = "killed"

OutputKept == OutputTypeOK /\ BarrelResolves /\ BarrelComplete /\ AllOrStaged
=============================================================================
