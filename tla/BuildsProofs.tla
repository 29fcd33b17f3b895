---------------------------- MODULE BuildsProofs ----------------------------
(***************************************************************************)
(* What is on disk after a successful run, for any crates that depend on   *)
(* each other in any way, any number of runs and edits, and crashes and    *)
(* failures between any two steps.                                         *)
(*                                                                         *)
(* The argument: a crate cargo has a record of was compiled to its end, so *)
(* its metadata are of that build, and its artifacts too if Paralegal.toml *)
(* included it then (Recorded); the record tells which Paralegal.toml that *)
(* was.  A compiler is started when the crates below are settled, and what *)
(* is settled does not change before the run ends (Linked).  A crate loses *)
(* its record before its artifacts are touched, so what a crash leaves     *)
(* behind is written again before a run can succeed (GraphUnreadable).     *)
(***************************************************************************)
EXTENDS Builds, TLAPS

-----------------------------------------------------------------------------
(***************************************************************************)
(* The parts of the inductive invariant.                                   *)
(***************************************************************************)
Build == [sources : [Crate -> Nat], hash : [Options -> Nat]]

Stage == {"fresh", "queued", "failed", "done", "expanded", "dumping", "dumped", "encoding",
          "discover", "described", "writing", "analysed", "metadata"}

Run == [status : {"none", "running", "failing", "success", "error", "killed"},
        count : Nat, include : SUBSET Crate, toml : Nat, hash : [Options -> Nat],
        started : [File -> Nat \ {0}]]

Description ==
  [krate : Primary, sources : [Crate -> Nat], toml : Nat,
   external_annotations : Nat, promised : SUBSET Crate]

Unit == [stage : Stage, build : Build,
         desc : {NoDescription, Unreadable} \cup Description]

TypeOK ==
  /\ files \in [File -> Nat \ {0}]
  /\ run \in Run
  /\ units \in [Crate -> Unit]
  /\ record \in [Crate -> Build]
  /\ library \in [Crate -> Build]
  /\ bodies \in [Crate -> Build]
  /\ markers \in [Crate -> Build]
  /\ graph \in {NoDescription, Unreadable} \cup Description
  /\ context \in {NoDescription, Unreadable} \cup Description

\* The driver dumps bodies and markers of the crate in this run.
Dumps(c) == c \in Primary \cup included

\* Versions only grow; the hash is that of the start of the run.
Started ==
  /\ \A f \in File : run.started[f] <= files[f]
  /\ \A f \in Options : run.hash[f] = run.started[f]
  /\ run.toml = run.started["toml"]

\* Compilers run while cargo does, and cargo gives up when one has failed.
Scheduled ==
  /\ \A c \in Crate : InProgress(c) => Running
  /\ \A c \in Crate : units[c].stage = "failed" => run.status # "running"
  /\ \A c \in Crate : units[c].stage \notin {"fresh", "done"} => record[c] = NoBuild
  /\ \A c \in Crate : run.status = "success" => units[c].stage \in {"fresh", "done"}

\* What the compiler has written by now for the crate.
Written ==
  \A c \in Crate :
    /\ units[c].stage \in {"expanded", "dumping", "dumped", "encoding"} => Dumps(c)
    /\ units[c].stage \in {"discover", "described", "writing"} => c \in Primary
    /\ InProgress(c) \/ units[c].stage = "done" => units[c].build.hash = run.hash
    /\ Dumps(c) =>
         /\ units[c].stage \in {"dumped", "encoding", "discover", "described", "writing",
                                "analysed", "metadata", "done"}
              => bodies[c] = units[c].build
         /\ units[c].stage \in {"discover", "described", "writing",
                                "analysed", "metadata", "done"}
              => markers[c] = units[c].build
    /\ units[c].stage \in {"metadata", "done"} => library[c] = units[c].build
    /\ units[c].stage = "done" => record[c] = units[c].build

\* What cargo has a record of was compiled to the end.
Recorded ==
  \A c \in Crate : record[c] # NoBuild =>
    /\ library[c] = record[c]
    /\ c \in Includes(record[c].hash["toml"]) => bodies[c] = record[c] /\ markers[c] = record[c]

\* The metadata of a crate were built against those that are there, and from
\* what there was when the run was started; its artifacts are of that build.
Ready(c) ==
  /\ \A d \in Below(c) : library[c].sources[d] = library[d].sources[d]
  /\ library[c].sources[c] >= run.started[c]
  /\ c \in Includes(run.toml) => bodies[c] = library[c] /\ markers[c] = library[c]

Settled(c) == units[c].stage \in {"fresh", "metadata", "done"}

\* A compiler is given what is below its crate, all of it ready, for good.
Linked ==
  Running => \A c \in Crate :
    /\ units[c].stage \notin {"queued", "failed"} =>
         \A d \in Below(c) : (Settled(d) \/ units[d].stage = "failed") /\ Ready(d)
    /\ Settled(c) => Ready(c)
    /\ InProgress(c) =>
         /\ \A d \in Below(c) : units[c].build.sources[d] = library[d].sources[d]
         /\ units[c].build.sources[c] >= run.started[c]

\* A crate cargo need not compile, or no more, has a record of this state.
RecordCurrent ==
  Running => \A c \in Crate : units[c].stage \in {"fresh", "done"} =>
    /\ record[c] # NoBuild
    /\ record[c].hash = run.hash

\* A description that was made when build b of its crate was compiled.
DescriptionOf(g, b) ==
  /\ g.toml = b.hash["toml"]
  /\ g.external_annotations >= b.hash["external_annotations"]
  /\ \A d \in Upon(g.krate) : d \in g.promised => g.sources[d] = b.sources[d]

\* The analysis holds a description of its crate.
Describing ==
  \A c \in Crate : units[c].stage \in {"described", "writing"} =>
    /\ units[c].desc \in Description /\ units[c].desc.krate = c
    /\ DescriptionOf(units[c].desc, units[c].build)

\* The description in the result file is of the last build of its crate.
GraphRight ==
  graph \in Description =>
    /\ record[graph.krate] # NoBuild => DescriptionOf(graph, record[graph.krate])
    /\ units[graph.krate].stage \in {"analysed", "metadata"}
         => DescriptionOf(graph, units[graph.krate].build)

\* If there is none, some crate that is to be analysed has yet to write it.
GraphUnreadable ==
  graph \notin Description =>
    \E p \in Primary : record[p] = NoBuild /\ units[p].stage \notin {"analysed", "metadata"}

\* What ContextCurrent asks of a description.
Current(g) ==
  /\ g \in Description
  /\ \A d \in Upon(g.krate) : d \in g.promised => g.sources[d] >= run.started[d]
  /\ g.toml = run.toml
  /\ g.external_annotations >= run.started["external_annotations"]

ResultCurrent ==
  /\ run.status = "success" => Current(graph)
  /\ context # NoDescription => run.status = "success" /\ Current(context)

IInv ==
  /\ TypeOK /\ Started /\ Scheduled /\ Written /\ Recorded /\ Linked /\ RecordCurrent
  /\ Describing /\ GraphRight /\ GraphUnreadable /\ ResultCurrent

-----------------------------------------------------------------------------
(***************************************************************************)
(* The values                                                              *)
(***************************************************************************)

\* The constants have their types, and a description is not one of the
\* two things that stand for there being none.
LEMMA Values ==
  /\ NoBuild \in Build
  /\ NoDescription \notin Description
  /\ Unreadable \notin Description
  /\ NoDescription # Unreadable
  /\ NoUnits \in [Crate -> Unit]
<1>1. NoBuild \in Build
  BY DEF NoBuild, Build
<1>2. /\ NoDescription \notin Description
      /\ Unreadable \notin Description
  <2>1. \A g \in Description : g.krate \in Crate
    BY PrimaryAssumption DEF Description
  <2>2. NoDescription.krate = "none" /\ Unreadable.krate = "unreadable"
    BY DEF NoDescription, Unreadable
  <2> QED
    BY <2>1, <2>2, CrateAssumption
<1>3. NoDescription # Unreadable
  BY DEF NoDescription, Unreadable
<1>4. NoUnits \in [Crate -> Unit]
  BY <1>1 DEF NoUnits, Unit, Stage
<1> QED
  BY <1>1, <1>2, <1>3, <1>4

\* The stage of one crate changes.
LEMMA StepFacts ==
  ASSUME TypeOK, NEW c \in Crate, NEW from, NEW to \in Stage, Step(c, from, to)
  PROVE  /\ units' \in [Crate -> Unit]
         /\ units[c].stage = from
         /\ units'[c].stage = to
         /\ units'[c].build = units[c].build
         /\ units'[c].desc = units[c].desc
         /\ \A d \in Crate \ {c} : units'[d] = units[d]
<1>1. units \in [Crate -> Unit] /\ units[c] \in Unit
  BY DEF TypeOK
<1>2. units' = [units EXCEPT ![c] = [units[c] EXCEPT !.stage = to]]
  BY DEF Step
<1>3. [units[c] EXCEPT !.stage = to] \in Unit
  BY <1>1 DEF Unit
<1>4. units'[c] = [units[c] EXCEPT !.stage = to]
  BY <1>1, <1>2
<1> QED
  BY <1>1, <1>2, <1>3, <1>4 DEF Step, Unit

\* What the types say of the parts of a unit and of a build.
LEMMA Parts ==
  ASSUME TypeOK, NEW c \in Crate
  PROVE  /\ units[c] \in Unit
         /\ units[c].stage \in Stage
         /\ units[c].build \in Build
         /\ record[c] \in Build /\ library[c] \in Build
         /\ bodies[c] \in Build /\ markers[c] \in Build
         /\ files[c] \in Nat \ {0} /\ run.started[c] \in Nat \ {0}
         /\ \A d \in Crate : /\ units[c].build.sources[d] \in Nat
                             /\ record[c].sources[d] \in Nat
                             /\ library[c].sources[d] \in Nat
                             /\ bodies[c].sources[d] \in Nat
<1>1. units[c] \in Unit
  BY DEF TypeOK
<1>2. units[c].stage \in Stage /\ units[c].build \in Build
  BY <1>1 DEF Unit
<1>3. /\ record[c] \in Build /\ library[c] \in Build
      /\ bodies[c] \in Build /\ markers[c] \in Build
  BY DEF TypeOK
<1>4. files[c] \in Nat \ {0}
  BY DEF TypeOK, File
<1>5. run.started[c] \in Nat \ {0}
  BY DEF TypeOK, Run, File
<1>6. \A b \in Build, d \in Crate : b.sources[d] \in Nat
  BY DEF Build
<1> QED
  BY <1>1, <1>2, <1>3, <1>4, <1>5, <1>6

-----------------------------------------------------------------------------
(***************************************************************************)
(* Init, and the steps of the command, the user and the policy.            *)
(***************************************************************************)
LEMMA InitIInv == Init => IInv
<1> SUFFICES ASSUME Init
             PROVE  IInv
  OBVIOUS
<1>1. /\ \A c \in Crate : /\ units[c].stage = "fresh"
                          /\ record[c] = NoBuild
      /\ run.status = "none"
      /\ context = NoDescription /\ graph = NoDescription
  BY DEF Init, NoUnits
<1>2. TypeOK
  <2>1. files \in [File -> Nat \ {0}]
    BY DEF Init
  <2>2. run \in Run
    BY <2>1 DEF Init, Run, hash_config, File
  <2> QED
    BY <2>1, <2>2, Values DEF Init, TypeOK
<1>3. Started
  BY DEF Init, Started, hash_config, File, Options
<1>4. \A c \in Crate : ~InProgress(c)
  BY <1>1 DEF InProgress
<1>5. Scheduled
  BY <1>1, <1>4 DEF Scheduled
<1>6. Written
  BY <1>1, <1>4 DEF Written
<1>7. Recorded
  BY <1>1 DEF Recorded
<1>8. Linked /\ RecordCurrent
  BY <1>1 DEF Linked, RecordCurrent, Running
<1>9. Describing
  BY <1>1 DEF Describing
<1>10. GraphRight
  BY <1>1, Values DEF GraphRight
<1>11. GraphUnreadable
  BY <1>1, Values, PrimaryAssumption DEF GraphUnreadable
<1>12. ResultCurrent
  BY <1>1 DEF ResultCurrent
<1> QED
  BY <1>2, <1>3, <1>5, <1>6, <1>7, <1>8, <1>9, <1>10, <1>11, <1>12 DEF IInv

\* What cargo keeps is ready: nothing below such a crate changed either.
LEMMA KeptReady ==
  ASSUME IInv, NEW c \in Crate, c \notin Dirty
  PROVE  /\ Below(c) \cap Dirty = {}
         /\ record[c] # NoBuild /\ record[c].hash = hash_config
         /\ library[c] = record[c]
         /\ library[c].sources[c] = files[c]
         /\ \A d \in Below(c) : library[c].sources[d] = library[d].sources[d]
         /\ c \in Includes(files["toml"])
              => bodies[c] = library[c] /\ markers[c] = library[c]
<1>1. \A d \in Upon(c) : d \in Crate /\ ~Stale(d) /\ Upon(d) \subseteq Upon(c)
  BY BelowAssumption DEF Dirty, Upon
<1>2. Below(c) \cap Dirty = {}
  BY <1>1 DEF Dirty, Upon
<1>3. ~Stale(c)
  BY <1>1 DEF Upon
<1>4. library[c] = record[c] /\ record[c] # NoBuild
  BY <1>3 DEF Stale, IInv, Recorded
<1>5. record[c].hash["toml"] = files["toml"]
  BY <1>3 DEF Stale, hash_config, Options
<1> QED
  BY <1>2, <1>3, <1>4, <1>5 DEF Stale, IInv, Recorded

LEMMA StartIInv ==
  ASSUME IInv, NEW include \in Command, Start(include)
  PROVE  IInv'
<1>1. /\ TypeOK /\ ~Running
      /\ run' = [status |-> "running", count |-> run.count + 1, include |-> include,
                 toml |-> files["toml"], hash |-> hash_config, started |-> files]
      /\ context' = NoDescription
      /\ UNCHANGED <<files, library, bodies, markers, graph>>
  BY DEF IInv, Start
<1>2. /\ run'.status = "running" /\ run'.toml = files["toml"]
      /\ run'.hash = hash_config /\ run'.started = files
  BY <1>1
<1>3. \A c \in Crate : /\ c \in Dirty => units'[c].stage = "queued" /\ record'[c] = NoBuild
                       /\ c \notin Dirty => units'[c].stage = "fresh" /\ record'[c] = record[c]
  BY DEF Start
<1>4. TypeOK'
  <2>1. units' \in [Crate -> Unit]
    BY Values DEF Start, Unit, Stage
  <2>2. record' \in [Crate -> Build]
    BY Values DEF Start, IInv, TypeOK
  <2>3. hash_config \in [Options -> Nat] /\ files["toml"] \in Nat
    BY <1>1 DEF hash_config, TypeOK, File, Options
  <2>4. run' \in Run
    BY <1>1, <2>3, CommandAssumption DEF TypeOK, Run
  <2> QED
    BY <1>1, <2>1, <2>2, <2>4 DEF TypeOK
<1>5. Started'
  <2>1. \A f \in File : files[f] <= files[f]
    BY <1>1 DEF TypeOK
  <2>2. \A f \in Options : hash_config[f] = files[f]
    BY DEF hash_config
  <2> QED
    BY <1>1, <1>2, <2>1, <2>2 DEF Started
<1>6. \A c \in Crate : ~InProgress(c)'
  BY <1>3 DEF InProgress
<1>7. Scheduled'
  BY <1>2, <1>3, <1>6 DEF Scheduled
<1>8. Written'
  BY <1>3, <1>6 DEF Written
<1>9. Recorded'
  BY <1>1, <1>3 DEF Recorded, IInv
<1>10. \A c \in Crate \ Dirty : Ready(c)'
  <2> TAKE c \in Crate \ Dirty
  <2>1. library[c].sources[c] >= files[c]
    BY <1>1, KeptReady, Parts
  <2> QED
    BY <1>1, <1>2, <2>1, KeptReady DEF Ready
<1>11. Linked'
  <2>1. ASSUME NEW c \in Crate, units'[c].stage \notin {"queued", "failed"}
        PROVE  \A d \in Below(c) : Settled(d)' /\ Ready(d)'
    <3>1. c \notin Dirty
      BY <1>3, <2>1
    <3>2. \A d \in Below(c) : d \in Crate \ Dirty
      BY <3>1, KeptReady, BelowAssumption
    <3> QED
      BY <1>3, <1>10, <3>2 DEF Settled
  <2>2. ASSUME NEW c \in Crate, Settled(c)'
        PROVE  Ready(c)'
    BY <1>3, <1>10, <2>2 DEF Settled
  <2> QED
    BY <1>6, <2>1, <2>2 DEF Linked
<1>12. RecordCurrent'
  BY <1>2, <1>3, KeptReady DEF RecordCurrent
<1>13. Describing'
  BY <1>3 DEF Describing
<1>14. GraphRight'
  <2> SUFFICES ASSUME graph \in Description
               PROVE  record'[graph.krate] # NoBuild
                        => DescriptionOf(graph, record[graph.krate])
                           /\ record'[graph.krate] = record[graph.krate]
    <3>1. graph \in Description => graph.krate \in Crate
      BY PrimaryAssumption DEF Description
    <3> QED
      BY <1>1, <1>3, <3>1 DEF GraphRight, DescriptionOf
  <2> QED
    BY <1>3, PrimaryAssumption DEF IInv, GraphRight, Description
<1>15. GraphUnreadable'
  <2>1. \A p \in Primary : record[p] = NoBuild => p \in Dirty
    BY PrimaryAssumption DEF Dirty, Stale, Upon
  <2> QED
    BY <1>1, <1>3, <2>1, PrimaryAssumption DEF IInv, GraphUnreadable
<1>16. ResultCurrent'
  BY <1>1, <1>2 DEF ResultCurrent
<1> QED
  BY <1>4, <1>5, <1>7, <1>8, <1>9, <1>11, <1>12, <1>13, <1>14, <1>15, <1>16 DEF IInv

\* Where every crate has a record the description in the file is current.
LEMMA CurrentOnSuccess ==
  ASSUME IInv, Running, \A c \in Crate : units[c].stage \in {"fresh", "done"}
  PROVE  Current(graph)
<1>1. \A c \in Crate : /\ record[c] # NoBuild /\ record[c].hash = run.hash
                       /\ library[c] = record[c]
                       /\ Ready(c)
  BY DEF IInv, RecordCurrent, Recorded, Linked, Settled
<1>2. graph \in Description
  BY <1>1, PrimaryAssumption DEF IInv, GraphUnreadable
<1> DEFINE k == graph.krate
<1>3. k \in Crate
  BY <1>2, PrimaryAssumption DEF Description
<1>4. DescriptionOf(graph, record[k])
  BY <1>1, <1>2, <1>3 DEF IInv, GraphRight
<1>5. graph.toml = run.toml
      /\ graph.external_annotations >= run.started["external_annotations"]
  BY <1>1, <1>3, <1>4 DEF DescriptionOf, IInv, Started, Options
<1>6. ASSUME NEW d \in Upon(k), d \in graph.promised
      PROVE  graph.sources[d] >= run.started[d]
  <2>1. graph.sources[d] = library[k].sources[d]
    BY <1>1, <1>3, <1>4, <1>6 DEF DescriptionOf
  <2>2. d \in Crate
    BY <1>3, BelowAssumption DEF Upon
  <2>3. library[k].sources[d] = library[d].sources[d]
    BY <1>1, <1>3 DEF Ready, Upon
  <2> QED
    BY <1>1, <2>1, <2>2, <2>3 DEF Ready
<1> QED
  BY <1>2, <1>5, <1>6 DEF Current

LEMMA ReturnIInv ==
  ASSUME IInv, Return
  PROVE  IInv'
<1>1. /\ TypeOK /\ Running
      /\ UNCHANGED <<files, units, record, library, bodies, markers, graph, context>>
  BY DEF IInv, Return, artifacts
<1>2. \/ /\ run.status = "running"
         /\ \A c \in Crate : units[c].stage # "queued"
         /\ run' = [run EXCEPT !.status = "success"]
      \/ run' = [run EXCEPT !.status = "error"]
  BY DEF Return
<1>3. /\ run' \in Run /\ run'.status \in {"success", "error"}
      /\ run'.toml = run.toml /\ run'.hash = run.hash
      /\ run'.started = run.started /\ run'.include = run.include
  BY <1>1, <1>2 DEF TypeOK, Run
<1>4. TypeOK'
  BY <1>1, <1>3 DEF TypeOK
<1>5. Started' /\ Recorded' /\ GraphRight' /\ GraphUnreadable' /\ Describing'
  BY <1>1, <1>3 DEF IInv, Started, Recorded, GraphRight, GraphUnreadable, Describing,
                    DescriptionOf
<1>6. Written'
  BY <1>1, <1>3 DEF IInv, Written, Dumps, included, InProgress
<1>7. ~Running'
  BY <1>3 DEF Running
<1>8. Linked' /\ RecordCurrent'
  BY <1>7 DEF Linked, RecordCurrent
<1>9. \A c \in Crate : ~InProgress(c)'
  BY <1>1 DEF Return, InProgress
<1>10. ASSUME run'.status = "success"
       PROVE  \A c \in Crate : units[c].stage \in {"fresh", "done"}
  <2>1. run.status = "running" /\ \A c \in Crate : units[c].stage # "queued"
    BY <1>1, <1>2, <1>10 DEF TypeOK, Run
  <2> QED
    BY <2>1 DEF IInv, Scheduled, Return, InProgress
<1>11. Scheduled'
  <2>1. \A c \in Crate : units[c].stage = "failed" => run'.status # "running"
    BY <1>3
  <2> QED
    BY <1>1, <1>9, <1>10, <2>1 DEF IInv, Scheduled
<1>12. ResultCurrent'
  <2>1. context = NoDescription
    BY <1>1 DEF IInv, ResultCurrent, Running
  <2>2. run'.status = "success" => Current(graph)
    BY <1>1, <1>10, CurrentOnSuccess
  <2> QED
    BY <1>1, <1>3, <2>1, <2>2 DEF ResultCurrent, Current
<1> QED
  BY <1>4, <1>5, <1>6, <1>8, <1>11, <1>12 DEF IInv

LEMMA EditIInv ==
  ASSUME IInv, NEW f \in File, Edit(f)
  PROVE  IInv'
<1>1. /\ TypeOK /\ files' = [files EXCEPT ![f] = @ + 1]
      /\ UNCHANGED <<run, units, record, library, bodies, markers, graph, context>>
  BY DEF IInv, Edit, artifacts
<1>2. TypeOK'
  BY <1>1 DEF TypeOK
<1>3. \A g \in File : run.started[g] \in Nat /\ files[g] \in Nat /\ files[g] <= files'[g]
  BY <1>1 DEF TypeOK, Run
<1>4. Started'
  BY <1>1, <1>3 DEF IInv, Started
<1>5. Scheduled' /\ Recorded' /\ RecordCurrent' /\ GraphRight' /\ GraphUnreadable'
      /\ Describing'
  BY <1>1 DEF IInv, Scheduled, Recorded, RecordCurrent, GraphRight, GraphUnreadable,
              Describing, DescriptionOf, InProgress, Running
<1>6. Written'
  BY <1>1 DEF IInv, Written, Dumps, included, InProgress
<1>7. Linked'
  BY <1>1 DEF IInv, Linked, Ready, Settled, InProgress, Running
<1>8. ResultCurrent'
  BY <1>1 DEF IInv, ResultCurrent, Current
<1> QED
  BY <1>2, <1>4, <1>5, <1>6, <1>7, <1>8 DEF IInv

LEMMA KillIInv ==
  ASSUME IInv, Kill
  PROVE  IInv'
<1>1. /\ TypeOK /\ Running
      /\ run' = [run EXCEPT !.status = "killed"] /\ units' = NoUnits
      /\ UNCHANGED <<files, record, library, bodies, markers, graph, context>>
  BY DEF IInv, Kill, artifacts
<1>2. /\ run' \in Run /\ run'.status = "killed"
      /\ run'.toml = run.toml /\ run'.hash = run.hash
      /\ run'.started = run.started
  BY <1>1 DEF TypeOK, Run
<1>3. \A c \in Crate : units'[c].stage = "fresh"
  BY <1>1 DEF NoUnits
<1>4. TypeOK'
  BY <1>1, <1>2, Values DEF TypeOK
<1>5. Started' /\ Recorded'
  BY <1>1, <1>2 DEF IInv, Started, Recorded
<1>6. Scheduled' /\ Written' /\ Describing'
  BY <1>2, <1>3 DEF Scheduled, Written, Describing, InProgress
<1>7. Linked' /\ RecordCurrent'
  BY <1>2 DEF Linked, RecordCurrent, Running
<1>8. GraphRight'
  <2>1. graph \in Description => graph.krate \in Crate
    BY PrimaryAssumption DEF Description
  <2> QED
    BY <1>1, <1>3, <2>1 DEF IInv, GraphRight, DescriptionOf
<1>9. GraphUnreadable'
  BY <1>1, <1>3, PrimaryAssumption DEF IInv, GraphUnreadable
<1>10. ResultCurrent'
  <2>1. context = NoDescription
    BY <1>1 DEF IInv, ResultCurrent, Running
  <2> QED
    BY <1>1, <1>2, <2>1 DEF ResultCurrent
<1> QED
  BY <1>4, <1>5, <1>6, <1>7, <1>8, <1>9, <1>10 DEF IInv

LEMMA BuildContextIInv ==
  ASSUME IInv, build_context
  PROVE  IInv'
<1>1. /\ TypeOK /\ run.status = "success"
      /\ UNCHANGED <<files, run, units, record, library, bodies, markers, graph>>
  BY DEF IInv, build_context, artifacts
<1>2. Current(graph)
  BY <1>1 DEF IInv, ResultCurrent
<1>3. context' = graph
  BY <1>2, Values DEF build_context, Current
<1>4. TypeOK'
  BY <1>1, <1>3 DEF TypeOK
<1>5. Started' /\ Scheduled' /\ Recorded' /\ RecordCurrent' /\ GraphRight'
      /\ GraphUnreadable' /\ Describing'
  BY <1>1 DEF IInv, Started, Scheduled, Recorded, RecordCurrent, GraphRight,
              GraphUnreadable, Describing, DescriptionOf, InProgress, Running
<1>6. Written'
  BY <1>1 DEF IInv, Written, Dumps, included, InProgress
<1>7. Linked'
  BY <1>1 DEF IInv, Linked, Ready, Settled, InProgress, Running
<1>8. ResultCurrent'
  BY <1>1, <1>2, <1>3 DEF ResultCurrent, Current
<1> QED
  BY <1>4, <1>5, <1>6, <1>7, <1>8 DEF IInv

-----------------------------------------------------------------------------
(***************************************************************************)
(* The steps of the compiler.                                              *)
(***************************************************************************)

\* Nothing that is being compiled stands on a crate that is not settled, so
\* what that crate's compiler writes disturbs none of them.
LEMMA LinkedFrame ==
  ASSUME IInv, Running, NEW c \in Crate,
         ~Settled(c), units[c].stage # "failed",
         run' = run,
         \A d \in Crate \ {c} : /\ units'[d] = units[d] /\ library'[d] = library[d]
                                /\ bodies'[d] = bodies[d] /\ markers'[d] = markers[d],
         \A d \in Below(c) : (Settled(d) \/ units[d].stage = "failed") /\ Ready(d),
         Settled(c)' => Ready(c)',
         \A d \in Below(c) : units'[c].build.sources[d] = library[d].sources[d],
         units'[c].build.sources[c] >= run.started[c]
  PROVE  Linked'
<1>1. ASSUME NEW x \in Crate, units[x].stage \notin {"queued", "failed"}
      PROVE  c \notin Below(x)
  BY <1>1 DEF IInv, Linked
<1>2. ASSUME NEW d \in Crate \ {c}, c \notin Below(d), Ready(d)
      PROVE  Ready(d)'
  BY <1>2, BelowAssumption DEF Ready
<1>3. ASSUME NEW x \in Crate \ {c}, units'[x].stage \notin {"queued", "failed"},
             NEW d \in Below(x)
      PROVE  (Settled(d) \/ units[d].stage = "failed")' /\ Ready(d)'
  <2>1. c \notin Below(x) /\ d \in Crate \ {c} /\ c \notin Below(d)
    BY <1>1, <1>3, BelowAssumption
  <2>2. (Settled(d) \/ units[d].stage = "failed") /\ Ready(d)
    BY <1>3 DEF IInv, Linked
  <2> QED
    BY <1>2, <2>1, <2>2 DEF Settled
<1>4. ASSUME NEW d \in Below(c)
      PROVE  (Settled(d) \/ units[d].stage = "failed")' /\ Ready(d)'
  <2>1. d \in Crate \ {c} /\ c \notin Below(d)
    BY BelowAssumption
  <2> QED
    BY <1>2, <2>1 DEF Settled
<1>5. ASSUME NEW x \in Crate \ {c}, Settled(x)'
      PROVE  Ready(x)'
  <2>1. Settled(x) /\ Ready(x)
    BY <1>5 DEF IInv, Linked, Settled
  <2> QED
    BY <1>1, <1>2, <2>1 DEF Settled
<1>6. ASSUME NEW x \in Crate \ {c}, InProgress(x)'
      PROVE  /\ \A d \in Below(x) : units'[x].build.sources[d] = library'[d].sources[d]
             /\ units'[x].build.sources[x] >= run.started[x]
  <2>1. InProgress(x) /\ units[x].stage \notin {"queued", "failed"}
    BY <1>6 DEF InProgress
  <2>2. \A d \in Below(x) : d \in Crate \ {c}
    BY <1>1, <2>1, BelowAssumption
  <2> QED
    BY <2>1, <2>2 DEF IInv, Linked
<1>7. \A d \in Below(c) : d \in Crate \ {c}
  BY BelowAssumption
<1> QED
  BY <1>3, <1>4, <1>5, <1>6, <1>7 DEF Linked

\* A crate that is being compiled, or is to be, has no record, and the run
\* is still going on.
LEMMA Compiled ==
  ASSUME IInv, NEW c \in Crate, InProgress(c)
  PROVE  /\ TypeOK /\ Running /\ record[c] = NoBuild
         /\ run.status # "success" /\ context = NoDescription
         /\ units[c].build.hash = run.hash
         /\ \A d \in Below(c) : (Settled(d) \/ units[d].stage = "failed") /\ Ready(d)
         /\ \A d \in Below(c) : units[c].build.sources[d] = library[d].sources[d]
         /\ units[c].build.sources[c] >= run.started[c]
<1>1. TypeOK /\ Running
  BY DEF IInv, Scheduled
<1>2. run.status # "success"
  BY <1>1 DEF Running
<1>3. units[c].stage \notin {"fresh", "done", "queued", "failed"}
  BY DEF InProgress
<1> QED
  BY <1>1, <1>2, <1>3 DEF IInv, Scheduled, ResultCurrent, Written, Linked

LEMMA RunCompilerIInv ==
  ASSUME IInv, NEW c \in Crate, RunCompiler(c)
  PROVE  IInv'
<1>1. /\ TypeOK /\ run.status = "running" /\ Running
      /\ units[c].stage = "queued" /\ record[c] = NoBuild
      /\ \A d \in Below(c) : Settled(d)
      /\ UNCHANGED <<files, run, record, library, bodies, markers, graph, context>>
  BY DEF IInv, Scheduled, RunCompiler, Settled, Running, artifacts
<1> DEFINE b == [sources |-> [d \in Crate |-> CASE d = c -> files[c]
                                                [] d \in Below(c) -> library[d].sources[d]
                                                [] OTHER -> 0],
                 hash |-> run.hash]
           s == IF handling(c) = "JustCompile" THEN "analysed" ELSE "expanded"
<1>2. units' = [units EXCEPT ![c] = [stage |-> s, build |-> b, desc |-> NoDescription]]
  BY DEF RunCompiler
<1>3. b \in Build
  <2>1. \A d \in Crate : library[d].sources[d] \in Nat /\ files[d] \in Nat
    BY <1>1, Parts
  <2>2. run.hash \in [Options -> Nat]
    BY <1>1 DEF TypeOK, Run
  <2> QED
    BY <2>1, <2>2 DEF Build
<1>4. /\ \A d \in Below(c) : b.sources[d] = library[d].sources[d]
      /\ b.sources[c] = files[c]
      /\ b.hash = run.hash
  BY BelowAssumption
<1> HIDE DEF b
<1>5. /\ units'[c] = [stage |-> s, build |-> b, desc |-> NoDescription]
      /\ units'[c].stage = s /\ units'[c].build = b
      /\ \A d \in Crate \ {c} : units'[d] = units[d]
  BY <1>1, <1>2 DEF TypeOK
<1>6. /\ s \in {"analysed", "expanded"}
      /\ s = "expanded" <=> Dumps(c)
  BY PrimaryAssumption DEF handling, Dumps
<1> HIDE DEF s
<1>7. TypeOK'
  <2>1. units'[c] \in Unit
    BY <1>3, <1>5, <1>6 DEF Unit, Stage
  <2>2. units' \in [Crate -> Unit]
    BY <1>1, <1>2, <1>5, <2>1 DEF TypeOK
  <2> QED
    BY <1>1, <2>2 DEF TypeOK
<1>8. Started' /\ Recorded'
  BY <1>1 DEF IInv, Started, Recorded
<1>9. Scheduled'
  <2>1. ASSUME NEW d \in Crate
        PROVE  /\ InProgress(d)' => Running'
               /\ units'[d].stage = "failed" => run'.status # "running"
               /\ units'[d].stage \notin {"fresh", "done"} => record'[d] = NoBuild
    BY <1>1, <1>5, <1>6 DEF IInv, Scheduled, Running
  <2> QED
    BY <1>1, <2>1 DEF Scheduled
<1>10. Written'
  <2>1. \A d \in Crate : Dumps(d)' <=> Dumps(d)
    BY <1>1 DEF Dumps, included
  <2> QED
    BY <1>1, <1>4, <1>5, <1>6, <2>1 DEF IInv, Written, InProgress
<1>11. Linked'
  <2>1. ~Settled(c) /\ ~Settled(c)' /\ units[c].stage # "failed"
    BY <1>1, <1>5, <1>6 DEF Settled
  <2>2. \A d \in Below(c) : d \in Crate /\ Settled(d) /\ Ready(d)
    BY <1>1, BelowAssumption DEF IInv, Linked
  <2>3. b.sources[c] >= run.started[c]
    <3>1. c \in File
      BY DEF File
    <3> QED
      BY <1>1, <1>4, <3>1, Parts DEF IInv, Started
  <2> QED
    BY <1>1, <1>4, <1>5, <2>1, <2>2, <2>3, LinkedFrame
<1>12. RecordCurrent'
  BY <1>1, <1>5, <1>6 DEF IInv, RecordCurrent
<1>13. Describing'
  BY <1>5, <1>6 DEF IInv, Describing
<1>14. GraphRight'
  <2>1. graph \in Description => graph.krate \in Primary /\ graph.krate \in Crate
    BY PrimaryAssumption DEF Description
  <2>2. graph \in Description /\ graph.krate = c => s = "expanded"
    BY <1>6, <2>1 DEF Dumps
  <2> QED
    BY <1>1, <1>5, <2>1, <2>2 DEF IInv, GraphRight, DescriptionOf
<1>15. GraphUnreadable'
  <2>1. c \in Primary => s = "expanded"
    BY <1>6 DEF Dumps
  <2> QED
    BY <1>1, <1>5, <2>1, PrimaryAssumption DEF IInv, GraphUnreadable
<1>16. ResultCurrent'
  BY <1>1 DEF IInv, ResultCurrent, Current
<1> QED
  BY <1>7, <1>8, <1>9, <1>10, <1>11, <1>12, <1>13, <1>14, <1>15, <1>16 DEF IInv

LEMMA DumpBodiesIInv ==
  ASSUME IInv, NEW c \in Crate, DumpBodies(c)
  PROVE  IInv'
<1>1. InProgress(c)
  BY DEF DumpBodies, Step, InProgress
<1>2. /\ TypeOK /\ Running /\ record[c] = NoBuild /\ run.status # "success"
      /\ UNCHANGED <<files, run, record, library, markers, graph, context>>
  BY <1>1, Compiled DEF DumpBodies
<1>3. PICK from \in {"expanded", "dumping"}, to \in {"dumping", "dumped"} :
        /\ Step(c, from, to)
        /\ to = "dumping" => bodies' = [bodies EXCEPT ![c] = NoBuild]
        /\ to = "dumped" => bodies' = [bodies EXCEPT ![c] = units[c].build]
  BY DEF DumpBodies
<1>4. /\ units' \in [Crate -> Unit]
      /\ units[c].stage = from /\ units'[c].stage = to
      /\ units'[c].build = units[c].build
      /\ \A d \in Crate \ {c} : units'[d] = units[d]
  BY <1>2, <1>3, StepFacts DEF Stage
<1>5. /\ bodies' \in [Crate -> Build]
      /\ to = "dumped" => bodies'[c] = units[c].build
      /\ \A d \in Crate \ {c} : bodies'[d] = bodies[d]
  BY <1>2, <1>3, Parts, Values DEF TypeOK
<1>6. TypeOK'
  BY <1>2, <1>4, <1>5 DEF TypeOK
<1>7. Started'
  BY <1>2 DEF IInv, Started
<1>8. Scheduled'
  <2>1. \A d \in Crate : units'[d].stage # "failed" \/ units[d].stage = "failed"
    BY <1>4
  <2> QED
    BY <1>2, <1>4, <2>1 DEF IInv, Scheduled, Running
<1>9. Written'
  <2>1. \A d \in Crate : Dumps(d)' <=> Dumps(d)
    BY <1>2 DEF Dumps, included
  <2> QED
    BY <1>1, <1>2, <1>4, <1>5, <2>1 DEF IInv, Written, InProgress
<1>10. Recorded'
  BY <1>2, <1>5 DEF IInv, Recorded
<1>11. Linked'
  <2>1. ~Settled(c) /\ ~Settled(c)' /\ units[c].stage # "failed"
    BY <1>4 DEF Settled
  <2> QED
    BY <1>1, <1>2, <1>4, <1>5, <2>1, Compiled, LinkedFrame
<1>12. RecordCurrent' /\ Describing'
  BY <1>2, <1>4 DEF IInv, RecordCurrent, Describing, Running
<1>13. GraphRight' /\ GraphUnreadable'
  <2>1. graph \in Description => graph.krate \in Crate
    BY PrimaryAssumption DEF Description
  <2> QED
    BY <1>2, <1>4, <2>1, PrimaryAssumption DEF IInv, GraphRight, GraphUnreadable, DescriptionOf
<1>14. ResultCurrent'
  BY <1>2 DEF IInv, ResultCurrent, Current
<1> QED
  BY <1>6, <1>7, <1>8, <1>9, <1>10, <1>11, <1>12, <1>13, <1>14 DEF IInv

LEMMA DumpMarkersIInv ==
  ASSUME IInv, NEW c \in Crate, DumpMarkers(c)
  PROVE  IInv'
<1>1. InProgress(c)
  BY DEF DumpMarkers, Step, InProgress
<1>2. /\ TypeOK /\ Running /\ record[c] = NoBuild /\ run.status # "success"
      /\ UNCHANGED <<files, run, record, library, bodies, graph, context>>
  BY <1>1, Compiled DEF DumpMarkers
<1>3. PICK from \in {"dumped", "encoding"}, to \in {"encoding", "discover", "analysed"} :
        /\ Step(c, from, to)
        /\ to = "encoding" => markers' = [markers EXCEPT ![c] = NoBuild]
        /\ to # "encoding" => markers' = [markers EXCEPT ![c] = units[c].build]
        /\ from = "encoding" <=> to # "encoding"
        /\ to = "discover" => c \in Primary
        /\ to = "analysed" => c \notin Primary
  BY DEF DumpMarkers, handling
<1>4. /\ units' \in [Crate -> Unit]
      /\ units[c].stage = from /\ units'[c].stage = to
      /\ units'[c].build = units[c].build
      /\ \A d \in Crate \ {c} : units'[d] = units[d]
  BY <1>2, <1>3, StepFacts DEF Stage
<1>5. /\ markers' \in [Crate -> Build]
      /\ to # "encoding" => markers'[c] = units[c].build
      /\ \A d \in Crate \ {c} : markers'[d] = markers[d]
  BY <1>2, <1>3, Parts, Values DEF TypeOK
<1>6. TypeOK'
  BY <1>2, <1>4, <1>5 DEF TypeOK
<1>7. Started'
  BY <1>2 DEF IInv, Started
<1>8. Scheduled'
  <2>1. \A d \in Crate : units'[d].stage # "failed" \/ units[d].stage = "failed"
    BY <1>4
  <2> QED
    BY <1>2, <1>4, <2>1 DEF IInv, Scheduled, Running
<1>9. Written'
  <2>1. \A d \in Crate : Dumps(d)' <=> Dumps(d)
    BY <1>2 DEF Dumps, included
  <2>2. Dumps(c) /\ bodies[c] = units[c].build
    BY <1>4 DEF IInv, Written
  <2> QED
    BY <1>1, <1>2, <1>3, <1>4, <1>5, <2>1, <2>2 DEF IInv, Written, InProgress
<1>10. Recorded'
  BY <1>2, <1>5 DEF IInv, Recorded
<1>11. Linked'
  <2>1. ~Settled(c) /\ ~Settled(c)' /\ units[c].stage # "failed"
    BY <1>4 DEF Settled
  <2> QED
    BY <1>1, <1>2, <1>4, <1>5, <2>1, Compiled, LinkedFrame
<1>12. RecordCurrent' /\ Describing'
  BY <1>2, <1>4 DEF IInv, RecordCurrent, Describing, Running
<1>13. GraphRight'
  <2>1. graph \in Description => graph.krate \in Primary /\ graph.krate \in Crate
    BY PrimaryAssumption DEF Description
  <2> QED
    BY <1>2, <1>3, <1>4, <2>1 DEF IInv, GraphRight, DescriptionOf
<1>14. GraphUnreadable'
  BY <1>2, <1>3, <1>4, PrimaryAssumption DEF IInv, GraphUnreadable
<1>15. ResultCurrent'
  BY <1>2 DEF IInv, ResultCurrent, Current
<1> QED
  BY <1>6, <1>7, <1>8, <1>9, <1>10, <1>11, <1>12, <1>13, <1>14, <1>15 DEF IInv

LEMMA AnalyzeIInv ==
  ASSUME IInv, NEW c \in Crate, Analyze(c)
  PROVE  IInv'
<1>1. units[c].stage = "discover" /\ InProgress(c) /\ c \in Primary
  BY DEF Analyze, InProgress, IInv, Written
<1>2. /\ TypeOK /\ Running /\ record[c] = NoBuild /\ run.status # "success"
      /\ UNCHANGED <<files, run, record, library, bodies, markers, graph, context>>
  BY <1>1, Compiled DEF Analyze, artifacts
<1> DEFINE read == [d \in Crate |-> IF d \in Upon(c) THEN load_body_and_facts(c, d) ELSE 0]
           promised == {d \in Upon(c) : Promised(d)}
           g == [krate |-> c, sources |-> read, toml |-> run.toml,
                 external_annotations |-> files["external_annotations"],
                 promised |-> promised]
<1>3. units' = [units EXCEPT ![c] = [units[c] EXCEPT !.stage = "described", !.desc = g]]
  BY DEF Analyze
<1>4. read \in [Crate -> Nat]
  <2>1. \A d \in Crate : load_body_and_facts(c, d) \in Nat
    BY <1>2, Parts DEF load_body_and_facts
  <2> QED
    BY <2>1
<1>5. promised \subseteq Crate
  BY BelowAssumption DEF Upon
<1>6. ASSUME NEW d \in Upon(c), Promised(d)
      PROVE  read[d] = units[c].build.sources[d]
  <2>1. d \in Crate /\ read[d] = load_body_and_facts(c, d)
    BY BelowAssumption DEF Upon
  <2>2. CASE d \notin included_crates(c)
    BY <2>1, <2>2 DEF load_body_and_facts
  <2>3. CASE d = c
    <3>1. bodies[c] = units[c].build
      BY <1>1 DEF IInv, Written, Dumps
    <3> QED
      BY <2>1, <2>3, <3>1 DEF load_body_and_facts
  <2>4. CASE d # c /\ d \in included_crates(c)
    <3>1. d \in Below(c) /\ d \in Includes(run.toml)
      BY <1>6, <2>4 DEF included_crates, Promised
    <3>2. bodies[d] = library[d] /\ units[c].build.sources[d] = library[d].sources[d]
      BY <1>1, <3>1, Compiled DEF Ready
    <3> QED
      BY <2>1, <3>2 DEF load_body_and_facts
  <2> QED
    BY <2>2, <2>3, <2>4
<1>7. g \in Description
  <2>1. run.toml \in Nat /\ files["external_annotations"] \in Nat
    BY <1>2 DEF TypeOK, Run, File, Options
  <2> QED
    BY <1>1, <1>4, <1>5, <2>1 DEF Description
<1>8. DescriptionOf(g, units[c].build)
  <2>1. /\ units[c].build.hash["toml"] = run.toml
        /\ units[c].build.hash["external_annotations"] = run.started["external_annotations"]
    BY <1>1, Compiled DEF IInv, Started, Options
  <2>2. files["external_annotations"] >= run.started["external_annotations"]
    <3>1. "external_annotations" \in File
      BY DEF File, Options
    <3> QED
      BY <1>2, <3>1 DEF IInv, Started, TypeOK, Run
  <2> QED
    BY <1>6, <2>1, <2>2 DEF DescriptionOf
<1>9. g.krate = c
  OBVIOUS
<1> HIDE DEF g
<1>10. /\ units' \in [Crate -> Unit]
       /\ units'[c].stage = "described" /\ units'[c].desc = g
       /\ units'[c].build = units[c].build
       /\ \A d \in Crate \ {c} : units'[d] = units[d]
  <2>1. units[c] \in Unit
    BY <1>2, Parts
  <2>2. [units[c] EXCEPT !.stage = "described", !.desc = g] \in Unit
    BY <1>7, <2>1 DEF Unit, Stage
  <2>3. units'[c] = [units[c] EXCEPT !.stage = "described", !.desc = g]
    BY <1>2, <1>3 DEF TypeOK
  <2> QED
    BY <1>2, <1>3, <2>1, <2>2, <2>3 DEF TypeOK, Unit
<1>11. TypeOK'
  BY <1>2, <1>10 DEF TypeOK
<1>12. Started' /\ Recorded'
  BY <1>2 DEF IInv, Started, Recorded
<1>13. Scheduled'
  BY <1>2, <1>10 DEF IInv, Scheduled, Running
<1>14. Written'
  <2>1. \A d \in Crate : Dumps(d)' <=> Dumps(d)
    BY <1>2 DEF Dumps, included
  <2> QED
    BY <1>1, <1>2, <1>10, <2>1 DEF IInv, Written, InProgress
<1>15. Linked'
  <2>1. ~Settled(c) /\ ~Settled(c)' /\ units[c].stage # "failed"
    BY <1>1, <1>10 DEF Settled
  <2> QED
    BY <1>1, <1>2, <1>10, <2>1, Compiled, LinkedFrame
<1>16. RecordCurrent'
  BY <1>2, <1>10 DEF IInv, RecordCurrent, Running
<1>17. Describing'
  BY <1>7, <1>8, <1>9, <1>10 DEF IInv, Describing
<1>18. GraphRight' /\ GraphUnreadable'
  <2>1. graph \in Description => graph.krate \in Crate
    BY PrimaryAssumption DEF Description
  <2> QED
    BY <1>1, <1>2, <1>10, <2>1, PrimaryAssumption
       DEF IInv, GraphRight, GraphUnreadable, DescriptionOf
<1>19. ResultCurrent'
  BY <1>2 DEF IInv, ResultCurrent, Current
<1> QED
  BY <1>11, <1>12, <1>13, <1>14, <1>15, <1>16, <1>17, <1>18, <1>19 DEF IInv

LEMMA CanonicalWriteIInv ==
  ASSUME IInv, NEW c \in Crate, canonical_write(c)
  PROVE  IInv'
<1>1. units[c].stage \in {"described", "writing"} /\ InProgress(c) /\ c \in Primary
  BY DEF canonical_write, Step, InProgress, IInv, Written
<1>2. /\ TypeOK /\ Running /\ record[c] = NoBuild /\ run.status # "success"
      /\ UNCHANGED <<files, run, record, library, bodies, markers, context>>
  BY <1>1, Compiled DEF canonical_write
<1>3. PICK from \in {"described", "writing"}, to \in {"writing", "analysed"} :
        /\ Step(c, from, to)
        /\ from = "writing" <=> to = "analysed"
        /\ to = "writing" => graph' = Unreadable
        /\ to = "analysed" => graph' = units[c].desc
  BY DEF canonical_write
<1>4. /\ units' \in [Crate -> Unit]
      /\ units[c].stage = from /\ units'[c].stage = to
      /\ units'[c].build = units[c].build /\ units'[c].desc = units[c].desc
      /\ \A d \in Crate \ {c} : units'[d] = units[d]
  BY <1>2, <1>3, StepFacts DEF Stage
<1>5. units[c].desc \in Description /\ units[c].desc.krate = c
      /\ DescriptionOf(units[c].desc, units[c].build)
  BY <1>1 DEF IInv, Describing
<1>6. TypeOK'
  BY <1>2, <1>3, <1>4, <1>5 DEF TypeOK
<1>7. Started' /\ Recorded'
  BY <1>2 DEF IInv, Started, Recorded
<1>8. Scheduled'
  BY <1>2, <1>4 DEF IInv, Scheduled, Running
<1>9. Written'
  <2>1. \A d \in Crate : Dumps(d)' <=> Dumps(d)
    BY <1>2 DEF Dumps, included
  <2> QED
    BY <1>1, <1>2, <1>4, <2>1 DEF IInv, Written, InProgress
<1>10. Linked'
  <2>1. ~Settled(c) /\ ~Settled(c)' /\ units[c].stage # "failed"
    BY <1>4 DEF Settled
  <2> QED
    BY <1>1, <1>2, <1>4, <2>1, Compiled, LinkedFrame
<1>11. RecordCurrent'
  BY <1>2, <1>4 DEF IInv, RecordCurrent, Running
<1>12. Describing'
  BY <1>3, <1>4, <1>5 DEF IInv, Describing
<1>13. GraphRight'
  <2>1. CASE to = "writing"
    BY <1>3, <2>1, Values DEF GraphRight
  <2>2. CASE to = "analysed"
    BY <1>2, <1>3, <1>4, <1>5, <2>2 DEF GraphRight, DescriptionOf
  <2> QED
    BY <2>1, <2>2
<1>14. GraphUnreadable'
  BY <1>1, <1>2, <1>3, <1>4, <1>5 DEF GraphUnreadable
<1>15. ResultCurrent'
  <2>1. context = NoDescription
    BY <1>1, Compiled
  <2> QED
    BY <1>2, <2>1 DEF ResultCurrent
<1> QED
  BY <1>6, <1>7, <1>8, <1>9, <1>10, <1>11, <1>12, <1>13, <1>14, <1>15 DEF IInv

LEMMA EmitMetadataIInv ==
  ASSUME IInv, NEW c \in Crate, EmitMetadata(c)
  PROVE  IInv'
<1>1. Step(c, "analysed", "metadata") /\ InProgress(c)
  BY DEF EmitMetadata, Step, InProgress
<1>2. /\ TypeOK /\ Running /\ record[c] = NoBuild /\ run.status # "success"
      /\ UNCHANGED <<files, run, record, bodies, markers, graph, context>>
  BY <1>1, Compiled DEF EmitMetadata
<1>3. /\ units' \in [Crate -> Unit]
      /\ units[c].stage = "analysed" /\ units'[c].stage = "metadata"
      /\ units'[c].build = units[c].build
      /\ \A d \in Crate \ {c} : units'[d] = units[d]
  BY <1>1, <1>2, StepFacts DEF Stage
<1>4. /\ library' \in [Crate -> Build]
      /\ library'[c] = units[c].build
      /\ \A d \in Crate \ {c} : library'[d] = library[d]
  BY <1>2, Parts DEF TypeOK, EmitMetadata
<1>5. TypeOK'
  BY <1>2, <1>3, <1>4 DEF TypeOK
<1>6. Started'
  BY <1>2 DEF IInv, Started
<1>7. Scheduled'
  BY <1>2, <1>3 DEF IInv, Scheduled, Running
<1>8. Written'
  <2>1. \A d \in Crate : Dumps(d)' <=> Dumps(d)
    BY <1>2 DEF Dumps, included
  <2> QED
    BY <1>1, <1>2, <1>3, <1>4, <2>1 DEF IInv, Written, InProgress
<1>9. Recorded'
  BY <1>2, <1>4 DEF IInv, Recorded
<1>10. Linked'
  <2>1. ~Settled(c) /\ units[c].stage # "failed"
    BY <1>3 DEF Settled
  <2>2. Ready(c)'
    <3>1. \A d \in Below(c) : d \in Crate \ {c}
      BY BelowAssumption
    <3>2. c \in Includes(run.toml)
            => bodies[c] = units[c].build /\ markers[c] = units[c].build
      BY <1>3 DEF IInv, Written, Dumps, included
    <3> QED
      BY <1>1, <1>2, <1>4, <3>1, <3>2, Compiled DEF Ready
  <2> QED
    BY <1>1, <1>2, <1>3, <1>4, <2>1, <2>2, Compiled, LinkedFrame
<1>11. RecordCurrent' /\ Describing'
  BY <1>2, <1>3 DEF IInv, RecordCurrent, Describing, Running
<1>12. GraphRight' /\ GraphUnreadable'
  <2>1. graph \in Description => graph.krate \in Crate
    BY PrimaryAssumption DEF Description
  <2> QED
    BY <1>2, <1>3, <2>1, PrimaryAssumption DEF IInv, GraphRight, GraphUnreadable, DescriptionOf
<1>13. ResultCurrent'
  BY <1>2 DEF IInv, ResultCurrent, Current
<1> QED
  BY <1>5, <1>6, <1>7, <1>8, <1>9, <1>10, <1>11, <1>12, <1>13 DEF IInv

LEMMA FinishIInv ==
  ASSUME IInv, NEW c \in Crate, Finish(c)
  PROVE  IInv'
<1>1. Step(c, "metadata", "done") /\ InProgress(c)
  BY DEF Finish, Step, InProgress
<1>2. /\ TypeOK /\ Running /\ run.status # "success"
      /\ units[c].build.hash = run.hash
      /\ units[c].build.sources[c] >= run.started[c]
      /\ UNCHANGED <<files, run, library, bodies, markers, graph, context>>
  BY <1>1, Compiled DEF Finish
<1>3. /\ units' \in [Crate -> Unit]
      /\ units[c].stage = "metadata" /\ units'[c].stage = "done"
      /\ units'[c].build = units[c].build
      /\ \A d \in Crate \ {c} : units'[d] = units[d]
  BY <1>1, <1>2, StepFacts DEF Stage
<1>4. /\ record' \in [Crate -> Build]
      /\ record'[c] = units[c].build
      /\ \A d \in Crate \ {c} : record'[d] = record[d]
  BY <1>2, Parts DEF TypeOK, Finish
<1>5. TypeOK'
  BY <1>2, <1>3, <1>4 DEF TypeOK
<1>6. Started'
  BY <1>2 DEF IInv, Started
<1>7. Scheduled'
  BY <1>2, <1>3, <1>4 DEF IInv, Scheduled, Running
<1>8. library[c] = units[c].build
  BY <1>3 DEF IInv, Written
<1>9. Written'
  <2>1. \A d \in Crate : Dumps(d)' <=> Dumps(d)
    BY <1>2 DEF Dumps, included
  <2> QED
    BY <1>1, <1>2, <1>3, <1>4, <1>8, <2>1 DEF IInv, Written, InProgress
<1>10. Recorded'
  <2>1. units[c].build.hash["toml"] = run.toml
    BY <1>2 DEF IInv, Started, Options
  <2>2. c \in Includes(run.toml) => bodies[c] = units[c].build /\ markers[c] = units[c].build
    BY <1>3 DEF IInv, Written, Dumps, included
  <2> QED
    BY <1>2, <1>4, <1>8, <2>1, <2>2 DEF IInv, Recorded
<1>11. Linked'
  <2>1. \A d \in Crate : /\ Settled(d)' <=> Settled(d)
                         /\ Ready(d)' <=> Ready(d)
                         /\ InProgress(d)' => InProgress(d)
                         /\ units'[d].build = units[d].build
                         /\ units'[d].stage \in {"queued", "failed"}
                              <=> units[d].stage \in {"queued", "failed"}
                         /\ units'[d].stage = "failed" <=> units[d].stage = "failed"
    BY <1>1, <1>2, <1>3 DEF Settled, Ready, InProgress
  <2>2. \A d \in Crate : \A e \in Below(d) : e \in Crate
    BY BelowAssumption
  <2> QED
    BY <1>2, <2>1, <2>2 DEF IInv, Linked
<1>12. RecordCurrent'
  <2>1. record'[c] # NoBuild
    <3>1. NoBuild.sources[c] = 0
      BY DEF NoBuild
    <3>2. units[c].build.sources[c] \in Nat /\ run.started[c] \in Nat \ {0}
      BY <1>2, Parts
    <3> QED
      BY <1>2, <1>4, <3>1, <3>2
  <2> QED
    BY <1>2, <1>3, <1>4, <2>1 DEF IInv, RecordCurrent, Running
<1>13. Describing'
  BY <1>2, <1>3 DEF IInv, Describing
<1>14. GraphRight' /\ GraphUnreadable'
  <2>1. graph \in Description => graph.krate \in Crate
    BY PrimaryAssumption DEF Description
  <2> QED
    BY <1>2, <1>3, <1>4, <2>1, PrimaryAssumption
       DEF IInv, GraphRight, GraphUnreadable, DescriptionOf
<1>15. ResultCurrent'
  BY <1>2 DEF IInv, ResultCurrent, Current
<1> QED
  BY <1>5, <1>6, <1>7, <1>9, <1>10, <1>11, <1>12, <1>13, <1>14, <1>15 DEF IInv

LEMMA FailIInv ==
  ASSUME IInv, NEW c \in Crate, Fail(c)
  PROVE  IInv'
<1>1. InProgress(c)
  BY DEF Fail
<1>2. /\ TypeOK /\ Running /\ record[c] = NoBuild /\ context = NoDescription
      /\ run' = [run EXCEPT !.status = "failing"]
      /\ Step(c, units[c].stage, "failed")
      /\ UNCHANGED <<files, record, library, bodies, markers, graph, context>>
  BY <1>1, Compiled DEF Fail, Step, artifacts
<1>3. /\ run' \in Run /\ run'.status = "failing"
      /\ run'.toml = run.toml /\ run'.hash = run.hash
      /\ run'.started = run.started /\ run'.include = run.include
  BY <1>2 DEF TypeOK, Run
<1>4. /\ units' \in [Crate -> Unit]
      /\ units'[c].stage = "failed"
      /\ \A d \in Crate \ {c} : units'[d] = units[d]
  BY <1>2, StepFacts, Parts DEF Stage
<1>5. TypeOK'
  BY <1>2, <1>3, <1>4 DEF TypeOK
<1>6. Started' /\ Recorded'
  BY <1>2, <1>3 DEF IInv, Started, Recorded
<1>7. Scheduled'
  BY <1>2, <1>3, <1>4 DEF IInv, Scheduled, Running
<1>8. Written'
  <2>1. \A d \in Crate : Dumps(d)' <=> Dumps(d)
    BY <1>3 DEF Dumps, included
  <2> QED
    BY <1>2, <1>3, <1>4, <2>1 DEF IInv, Written, InProgress
<1>9. Linked'
  <2>1. \A d \in Crate : Ready(d)' <=> Ready(d)
    BY <1>2, <1>3 DEF Ready
  <2>2. \A d \in Crate : /\ Settled(d)' => Settled(d)
                         /\ (Settled(d) \/ units[d].stage = "failed")
                              => (Settled(d) \/ units[d].stage = "failed")'
    BY <1>4 DEF Settled
  <2>3. \A d \in Crate : \A e \in Below(d) : e \in Crate
    BY BelowAssumption
  <2>4. \A d \in Crate \ {c} : InProgress(d)' <=> InProgress(d)
    BY <1>4 DEF InProgress
  <2>5. ~InProgress(c)'
    BY <1>4 DEF InProgress
  <2> QED
    BY <1>2, <1>3, <1>4, <2>1, <2>2, <2>3, <2>4, <2>5 DEF IInv, Linked
<1>10. RecordCurrent' /\ Describing'
  BY <1>2, <1>3, <1>4 DEF IInv, RecordCurrent, Describing, Running
<1>11. GraphRight' /\ GraphUnreadable'
  <2>1. graph \in Description => graph.krate \in Crate
    BY PrimaryAssumption DEF Description
  <2> QED
    BY <1>2, <1>4, <2>1, PrimaryAssumption DEF IInv, GraphRight, GraphUnreadable, DescriptionOf
<1>12. ResultCurrent'
  BY <1>2, <1>3 DEF ResultCurrent
<1> QED
  BY <1>5, <1>6, <1>7, <1>8, <1>9, <1>10, <1>11, <1>12 DEF IInv

-----------------------------------------------------------------------------
(***************************************************************************)
(* The theorems.                                                           *)
(***************************************************************************)
LEMMA NextIInv == IInv /\ [Next]_vars => IInv'
<1> SUFFICES ASSUME IInv, [Next]_vars
             PROVE  IInv'
  OBVIOUS
<1>1. CASE \E include \in Command : Start(include)
  BY <1>1, StartIInv
<1>2. ASSUME NEW c \in Crate,
             \/ RunCompiler(c) \/ DumpBodies(c) \/ DumpMarkers(c) \/ Analyze(c)
             \/ canonical_write(c) \/ EmitMetadata(c) \/ Finish(c) \/ Fail(c)
      PROVE  IInv'
  BY <1>2, RunCompilerIInv, DumpBodiesIInv, DumpMarkersIInv, AnalyzeIInv,
     CanonicalWriteIInv, EmitMetadataIInv, FinishIInv, FailIInv
<1>3. CASE Return
  BY <1>3, ReturnIInv
<1>4. CASE Kill
  BY <1>4, KillIInv
<1>5. CASE build_context
  BY <1>5, BuildContextIInv
<1>6. CASE \E f \in File : Edit(f)
  BY <1>6, EditIInv
<1>7. CASE UNCHANGED vars
  <2>1. UNCHANGED <<files, run, units, record, library, bodies, markers, graph, context>>
    BY <1>7 DEF vars
  <2>2. TypeOK' /\ Started' /\ Scheduled' /\ Recorded' /\ RecordCurrent' /\ Describing'
    BY <2>1 DEF IInv, TypeOK, Started, Scheduled, Recorded, RecordCurrent, Describing,
                DescriptionOf, InProgress, Running
  <2>3. Written'
    BY <2>1 DEF IInv, Written, Dumps, included, InProgress
  <2>4. Linked'
    BY <2>1 DEF IInv, Linked, Ready, Settled, InProgress, Running
  <2>5. GraphRight' /\ GraphUnreadable' /\ ResultCurrent'
    BY <2>1 DEF IInv, GraphRight, GraphUnreadable, ResultCurrent, DescriptionOf, Current
  <2> QED
    BY <2>2, <2>3, <2>4, <2>5 DEF IInv
<1> QED
  BY <1>1, <1>2, <1>3, <1>4, <1>5, <1>6, <1>7 DEF Next

LEMMA AlwaysIInv == Spec => []IInv
  BY InitIInv, NextIInv, PTL DEF Spec

\* Every variable has its type: in particular a description names a crate
\* that was to be analysed and says of each crate what was read of it.
THEOREM Typing == Spec => []TypeOK
<1>1. IInv => TypeOK
  BY DEF IInv
<1> QED
  BY <1>1, AlwaysIInv, PTL

\* A crate is analysed against the bodies and the markers of the builds it
\* is compiled against, of every crate Paralegal.toml includes, although the
\* compilers of those crates need not have ended (Callbacks::run).
THEOREM Artifacts == Spec => []ArtifactsMatch
<1>1. IInv => ArtifactsMatch
  <2> SUFFICES ASSUME IInv, NEW c \in Primary, units[c].stage \in {"discover", "described"},
                      NEW d \in Below(c) \cap Includes(run.toml)
               PROVE  /\ markers[d] = bodies[d]
                      /\ markers[d] = library[d]
                      /\ \A e \in Upon(d) : library[d].sources[e] = units[c].build.sources[e]
    BY DEF ArtifactsMatch
  <2>1. c \in Crate /\ InProgress(c)
    BY PrimaryAssumption DEF InProgress
  <2>2. Ready(d) /\ \A e \in Below(c) : units[c].build.sources[e] = library[e].sources[e]
    BY <2>1, Compiled
  <2>3. Below(d) \subseteq Below(c)
    BY <2>1, BelowAssumption
  <2> QED
    BY <2>2, <2>3 DEF Ready, Upon
<1> QED
  BY <1>1, AlwaysIInv, PTL

\* What the policy gets after a successful run is a description no older
\* than the files were when the run was started, whatever failed, was killed
\* or was skipped before (SPDGGenCommand::run and build_context).
THEOREM Fresh == Spec => []ContextCurrent
<1>1. IInv => ContextCurrent
  BY DEF IInv, ResultCurrent, Current, ContextCurrent, Description
<1> QED
  BY <1>1, AlwaysIInv, PTL
=============================================================================
