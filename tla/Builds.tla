------------------------------- MODULE Builds -------------------------------
(***************************************************************************)
(* What an analysis leaves on disk, over many runs of it.  A run starts    *)
(* cargo with this driver as the compiler (SPDGGenCommand::run): cargo     *)
(* compiles the crates whose sources or options changed since they were    *)
(* compiled, side by side; the driver dumps the bodies and the markers of  *)
(* the crates Paralegal.toml or the command line includes, analyses the    *)
(* crates asked for and writes their description into one file, which the  *)
(* policy reads when the run has succeeded.  Files change at any time,     *)
(* compilations fail and runs are killed between any two steps.            *)
(*                                                                         *)
(* Cargo is external.  Its record of a crate says what it was compiled     *)
(* from and with which options, as far as hash_config tells: it is dropped *)
(* when the crate is to be compiled again and made when that succeeded.    *)
(***************************************************************************)
EXTENDS Naturals, FiniteSets, Functions

CONSTANTS
  Crate,        \* the crates of the build, build scripts left out
  Primary,      \* those to be analysed: the target, or the primary package
  Below(_),     \* the crates a crate depends on, however indirectly
  Includes(_),  \* the crates the n-th version of Paralegal.toml includes
  Command,      \* sets of crates the command line may include
  MaxEdits,     \* bound on the changes of files
  MaxRuns       \* bound on the runs

ASSUME BelowAssumption ==
  \A c \in Crate : /\ Below(c) \subseteq Crate \ {c}
                   /\ \A d \in Below(c) : Below(d) \subseteq Below(c)

ASSUME PrimaryAssumption == Primary \subseteq Crate /\ Primary # {}

ASSUME CrateAssumption == {"none", "unreadable"} \cap Crate = {}

ASSUME CommandAssumption == Command \subseteq SUBSET Crate

Upon(c) == Below(c) \cup {c}

\* What a record, the metadata or an artifact of a crate is of: the versions
\* its compiler read and was linked against, and the hash of the options.
\* NoBuild is one that is not there or not whole.
Options == {"toml", "external_annotations"}
File == Crate \cup Options
NoBuild == [sources |-> [c \in Crate |-> 0], hash |-> [f \in Options |-> 0]]

NoDescription == [krate |-> "none"]
Unreadable    == [krate |-> "unreadable"]

NoUnits == [c \in Crate |->
              [stage |-> "fresh", build |-> NoBuild, desc |-> NoDescription]]

VARIABLES
  files,    \* the version of each file
  run,      \* the run: its status, how many there were, its options
  units,    \* what the compiler is doing for each crate
  record,   \* cargo's record of each crate
  library,  \* the metadata of each crate: the build that wrote it
  bodies,   \* the .bwbf directory of each crate, likewise
  markers,  \* the .pmeta file of each crate, likewise
  graph,    \* the description in the result file
  context   \* what the policy was given after the run

vars == <<files, run, units, record, library, bodies, markers, graph, context>>
artifacts == <<record, library, bodies, markers, graph>>

-----------------------------------------------------------------------------
(* The command                                                             *)

\* The mutant of hash_config: without Paralegal.toml.
hash_configAnnotationsOnly == [f \in Options |-> IF f = "toml" THEN 0 ELSE files[f]]

\* Args::hash_config: Paralegal.toml and the external annotations by the
\* times of their last change, other options being the same for all runs.
hash_config == [f \in Options |-> files[f]]

\* Args::try_from: what the command line includes and what the file does.
included == run.include \cup Includes(run.toml)

\* A crate cargo has to compile again even if nothing below it is.
Stale(c) ==
  \/ record[c] = NoBuild
  \/ record[c].hash # hash_config
  \/ record[c].sources[c] # files[c]
  \/ \E d \in Below(c) : library[d].sources[d] # record[c].sources[d]

Dirty == {c \in Crate : \E d \in Upon(c) : Stale(d)}

InProgress(c) == units[c].stage \notin {"fresh", "queued", "failed", "done"}
Running == run.status \in {"running", "failing"}

\* SPDGGenCommand::run until cargo has decided what to compile.
Start(include) ==
  /\ ~Running
  /\ run.count < MaxRuns
  /\ run' = [status |-> "running", count |-> run.count + 1, include |-> include,
             toml |-> files["toml"], hash |-> hash_config, started |-> files]
  /\ units' = [c \in Crate |->
                 [stage |-> IF c \in Dirty THEN "queued" ELSE "fresh",
                  build |-> NoBuild, desc |-> NoDescription]]
  /\ record' = [c \in Crate |-> IF c \in Dirty THEN NoBuild ELSE record[c]]
  /\ context' = NoDescription
  /\ UNCHANGED <<files, library, bodies, markers, graph>>

\* The mutant of Return: the status of the command is not looked at.
ReturnAlways ==
  /\ Running
  /\ \A c \in Crate : ~InProgress(c)
  /\ run' = [run EXCEPT !.status = "success"]
  /\ UNCHANGED <<files, units, artifacts, context>>

\* ... and when cargo is done: only success is an answer.
Return ==
  /\ Running
  /\ \A c \in Crate : ~InProgress(c)
  /\ \/ /\ run.status = "running"
        /\ \A c \in Crate : units[c].stage # "queued"
        /\ run' = [run EXCEPT !.status = "success"]
     \/ /\ run.status = "failing"
        /\ run' = [run EXCEPT !.status = "error"]
  /\ UNCHANGED <<files, units, artifacts, context>>

-----------------------------------------------------------------------------
(* The compiler                                                            *)

Step(c, from, to) ==
  /\ units[c].stage = from
  /\ units' = [units EXCEPT ![c].stage = to]

handling(c) == CASE c \in Primary -> "Analyze"
                 [] c \in included \ Primary -> "CompileAndDump"
                 [] OTHER -> "JustCompile"

\* Cargo starts the compiler on a crate when the metadata of those below it
\* is there, which may be before their compilers have ended.
RunCompiler(c) ==
  /\ run.status = "running"
  /\ units[c].stage = "queued"
  /\ \A d \in Below(c) : units[d].stage \in {"fresh", "metadata", "done"}
  /\ units' = [units EXCEPT ![c] =
       [stage |-> IF handling(c) = "JustCompile" THEN "analysed" ELSE "expanded",
        build |-> [sources |-> [d \in Crate |->
                      CASE d = c -> files[c]
                        [] d \in Below(c) -> library[d].sources[d]
                        [] OTHER -> 0],
                   hash |-> run.hash],
        desc |-> NoDescription]]
  /\ UNCHANGED <<files, run, artifacts, context>>

\* dump_mir_and_borrowck_facts writes a file for each body.
DumpBodies(c) ==
  /\ \/ Step(c, "expanded", "dumping") /\ bodies' = [bodies EXCEPT ![c] = NoBuild]
     \/ /\ Step(c, "dumping", "dumped")
        /\ bodies' = [bodies EXCEPT ![c] = units[c].build]
  /\ UNCHANGED <<files, run, record, library, markers, graph, context>>

\* dump_markers opens the file, which empties it, and writes it.
DumpMarkers(c) ==
  /\ \/ Step(c, "dumped", "encoding") /\ markers' = [markers EXCEPT ![c] = NoBuild]
     \/ /\ Step(c, "encoding",
                IF handling(c) = "Analyze" THEN "discover" ELSE "analysed")
        /\ markers' = [markers EXCEPT ![c] = units[c].build]
  /\ UNCHANGED <<files, run, record, library, bodies, graph, context>>

\* InlineJudge::new: the crates linked that are included, and this one.
included_crates(c) == (included \cap Below(c)) \cup {c}

\* It panics if the file of one of them is not there or not whole.
load_annotations(c) == \A d \in included_crates(c) : markers[d] # NoBuild

\* Each body comes from whatever the directory of its crate holds.  One that
\* is not there is a panic if it is asked for, which Fail stands for.
load_body_and_facts(c, d) ==
  IF d \in included_crates(c) THEN bodies[d].sources[d]
                              ELSE units[c].build.sources[d]

\* Not one that only the command line includes: hash_config leaves out the
\* command line, so it need not have been dumped when it was compiled.
Promised(d) == d \in Includes(run.toml) \/ d \notin included

\* Callbacks::run.
Analyze(c) ==
  /\ units[c].stage = "discover"
  /\ load_annotations(c)
  /\ units' = [units EXCEPT ![c].stage = "described", ![c].desc =
       [krate   |-> c,
        sources |-> [d \in Crate |-> IF d \in Upon(c) THEN load_body_and_facts(c, d) ELSE 0],
        toml    |-> run.toml,
        external_annotations |-> files["external_annotations"],
        promised |-> {d \in Upon(c) : Promised(d)}]]
  /\ UNCHANGED <<files, run, artifacts, context>>

\* ProgramDescription::canonical_write creates the file and fills it.
canonical_write(c) ==
  /\ \/ Step(c, "described", "writing") /\ graph' = Unreadable
     \/ Step(c, "writing", "analysed") /\ graph' = units[c].desc
  /\ UNCHANGED <<files, run, record, library, bodies, markers, context>>

\* The compiler goes on and emits the metadata of the crate.
EmitMetadata(c) ==
  /\ Step(c, "analysed", "metadata")
  /\ library' = [library EXCEPT ![c] = units[c].build]
  /\ UNCHANGED <<files, run, record, bodies, markers, graph, context>>

\* The compiler ends well, and cargo takes that down.
Finish(c) ==
  /\ Step(c, "metadata", "done")
  /\ record' = [record EXCEPT ![c] = units[c].build]
  /\ UNCHANGED <<files, run, library, bodies, markers, graph, context>>

\* The compiler fails: an error in the crate, a panic of the driver.  Cargo
\* starts no other and waits for those that run.
Fail(c) ==
  /\ InProgress(c)
  /\ units' = [units EXCEPT ![c].stage = "failed"]
  /\ run' = [run EXCEPT !.status = "failing"]
  /\ UNCHANGED <<files, artifacts, context>>

-----------------------------------------------------------------------------
(* The user, and the policy                                                *)

Edit(f) ==
  /\ FoldFunction(+, 0, files) < Cardinality(File) + MaxEdits
  /\ files' = [files EXCEPT ![f] = @ + 1]
  /\ UNCHANGED <<run, units, artifacts, context>>

Kill ==
  /\ Running
  /\ run' = [run EXCEPT !.status = "killed"]
  /\ units' = NoUnits
  /\ UNCHANGED <<files, artifacts, context>>

\* GraphLocation::build_context: canonical_read of the result file.
build_context ==
  /\ run.status = "success"
  /\ context = NoDescription
  /\ context' = IF graph = NoDescription THEN Unreadable ELSE graph
  /\ UNCHANGED <<files, run, units, artifacts>>

-----------------------------------------------------------------------------
(* Specification                                                           *)

Init ==
  /\ files = [f \in File |-> 1]
  /\ run = [status |-> "none", count |-> 0, include |-> {}, toml |-> 1,
            hash |-> hash_config, started |-> files]
  /\ units = NoUnits
  /\ record = [c \in Crate |-> NoBuild]
  /\ library = record /\ bodies = record /\ markers = record
  /\ graph = NoDescription
  /\ context = NoDescription

Next ==
  \/ \E include \in Command : Start(include)
  \/ \E c \in Crate :
       \/ RunCompiler(c)
       \/ DumpBodies(c)
       \/ DumpMarkers(c)
       \/ Analyze(c)
       \/ canonical_write(c)
       \/ EmitMetadata(c)
       \/ Finish(c)
       \/ Fail(c)
  \/ Return
  \/ Kill
  \/ build_context
  \/ \E f \in File : Edit(f)

Spec == Init /\ [][Next]_vars

-----------------------------------------------------------------------------
(* Properties                                                              *)

(***************************************************************************)
(* What a policy gets after a successful run is a description, of a crate  *)
(* that was asked for, no older than the sources, the Paralegal.toml and   *)
(* the external annotations were when the run was started: whatever failed *)
(* or was killed before, and whichever compilations were skipped.          *)
(***************************************************************************)
ContextCurrent ==
  context # NoDescription =>
    /\ context.krate \in Primary
    /\ \A d \in Upon(context.krate) :
         d \in context.promised => context.sources[d] >= run.started[d]
    /\ context.toml = run.toml
    /\ context.external_annotations >= run.started["external_annotations"]

(***************************************************************************)
(* When a crate is analysed, the markers and the bodies of every crate     *)
(* that Paralegal.toml includes are those of the very build it is compiled *)
(* against, so definitions are found, and found under the numbers the      *)
(* compiler gives them, although cargo starts the compiler on a crate      *)
(* before those of the crates below it have ended.                         *)
(***************************************************************************)
ArtifactsMatch ==
  \A c \in Primary : units[c].stage \in {"discover", "described"} =>
    \A d \in Below(c) \cap Includes(run.toml) :
      /\ markers[d] = bodies[d]
      /\ markers[d] = library[d]
      /\ \A e \in Upon(d) : library[d].sources[e] = units[c].build.sources[e]

=============================================================================
