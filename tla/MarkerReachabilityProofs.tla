---------------------- MODULE MarkerReachabilityProofs ----------------------
(***************************************************************************)
(* What the inlining judge guarantees for every program, whatever calls it *)
(* is asked about and in whatever order.                                   *)
(*                                                                         *)
(* The argument: the cache is a RecursiveCache, so the proofs about that   *)
(* module apply to it.  When a judgement is given, the answer it rests on  *)
(* is cached, and a cached answer is final: a judgement is at all times    *)
(* the one that the judge would give now.  What remains is that the        *)
(* cache's graph has the same markers below a function as the program has  *)
(* beyond it.                                                              *)
(***************************************************************************)
EXTENDS MarkerReachability, TLAPS

Memo == INSTANCE RecursiveCacheProofs WITH
    Key <- Fn, Elem <- Marker, Inputs <- {marker_graph(p) : p \in Programs}

-----------------------------------------------------------------------------
(***************************************************************************)
(* The parts of the inductive invariant.                                   *)
(***************************************************************************)
TypeOK ==
    /\ program \in Programs
    /\ graph = marker_graph(program)
    /\ call \in {{}} \cup {{c} : c \in program.sites}
    /\ judgement \in [program.sites -> {"none", "Inline", "UseStub", "AbstractViaType"}]

\* The cache has the final answer for f, if it is asked for f at all.
settled(f) == is_cached(program, f) => entry[f] = "Some"

\* A judgement is the one that the judge would give now.
Standing ==
    \A c \in program.sites : judgement[c] # "none" =>
        /\ judgement[c] = judge(c)
        /\ asks_markers(marker_target(c)) => settled(marker_target(c))

\* The approximation of call c hides markers behind its unmarked method m.
Hides(c, m) ==
    /\ judgement[c] = "AbstractViaType" /\ ~stubbed(marker_target(c))
    /\ m \in Successors(Fn, program.methods, c.callee)
    /\ is_cached(program, m) /\ ~Memo!ReachesCycle(m) /\ MarkersBeyond(m) # {}

Severity(c) ==
    IF program.relaxed \/ is_marked(program, marker_target(c)) THEN "warning" ELSE "error"

\* What is hidden has been reported, or is being looked for.
Checked ==
    \A c \in program.sites, m \in Fn : Hides(c, m) =>
        \/ <<c, m, Severity(c)>> \in reported
        \/ phase = "check" /\ call = {c} /\ m \in to_check

IInv == TypeOK /\ Memo!IInv /\ Standing /\ Checked

-----------------------------------------------------------------------------
(***************************************************************************)
(* The judge's cache is the one that RecursiveCacheProofs is about.        *)
(***************************************************************************)
\* What a function calls, or hands its execution to, are functions.
LEMMA TargetsAreFunctions ==
    ASSUME NEW p \in Programs, NEW f \in Fn
    PROVE  /\ p \in Program
           /\ targets(p, f) \subseteq Fn
           /\ p.generator[f] \in OptFn
<1>1. p \in Program
  BY ProgramsAssumption
<1>2. p.stub \in [Fn -> OptFn] /\ p.future \in [Fn -> OptFn] /\ p.generator \in [Fn -> OptFn]
  BY <1>1 DEF Program
<1>3. ASSUME NEW g \in Fn PROVE terminator_targets(p, f, g) \subseteq Fn
  BY <1>2 DEF terminator_targets, OptFn
<1> QED BY <1>1, <1>2, <1>3 DEF targets, Successors

LEMMA InputsAreGraphs == {marker_graph(p) : p \in Programs} \subseteq Memo!Graph
<1> SUFFICES ASSUME NEW p \in Programs PROVE marker_graph(p) \in Memo!Graph
  OBVIOUS
<1>1. p.markers \in [Fn -> SUBSET Marker]
  BY ProgramsAssumption DEF Program
<1>2. \A f \in Fn : own(p, f) \in SUBSET Marker
  BY <1>1, TargetsAreFunctions DEF own
<1>3. [f \in Fn |-> own(p, f)] \in [Fn -> SUBSET Marker]
  BY <1>2
<1> QED BY <1>3 DEF marker_graph, Memo!Graph

LEMMA SameCache ==
    /\ Cache!Empty <=> Memo!Empty
    /\ \A f \in Fn : /\ Cache!Query(f) <=> Memo!Query(f)
                     /\ Cache!read(f) = Memo!read(f)
                     /\ Cache!ReachesCycle(f) <=> Memo!ReachesCycle(f)
    /\ Cache!Computing <=> Memo!Computing
<1>1. Cache!Empty <=> Memo!Empty
  BY DEF Cache!Empty, Memo!Empty
<1>2. \A f : Cache!deps(f) = Memo!deps(f) /\ Cache!read(f) = Memo!read(f)
             /\ (Cache!start(f) <=> Memo!start(f))
  BY DEF Cache!deps, Memo!deps, Cache!Successors, Memo!Successors, Cache!read, Memo!read,
         Cache!start, Memo!start
<1>3. \A f, t : Cache!Compute(f, t) <=> Memo!Compute(f, t)
  BY <1>2 DEF Cache!Compute, Memo!Compute
<1>4. \A f \in Fn : Cache!Query(f) <=> Memo!Query(f)
  BY <1>2, <1>3 DEF Cache!Query, Memo!Query
<1>5. \A f \in Fn : Cache!ReachesCycle(f) <=> Memo!ReachesCycle(f)
  BY <1>2 DEF Cache!ReachesCycle, Memo!ReachesCycle, Cache!DependsOn, Memo!DependsOn,
     Cache!Reaches, Memo!Reaches, Cache!ClosedUnder, Memo!ClosedUnder
<1>6. Cache!Computing <=> Memo!Computing
  <2>1. \A d \in Fn : Cache!Ask(d) <=> Memo!Ask(d)
    BY <1>2, <1>3 DEF Cache!Ask, Memo!Ask, Cache!top, Memo!top
  <2>2. Cache!Return <=> Memo!Return
    BY DEF Cache!Return, Memo!Return, Cache!top, Memo!top
  <2> QED BY <2>1, <2>2 DEF Cache!Computing, Memo!Computing
<1> QED BY <1>1, <1>2, <1>4, <1>5, <1>6

\* A step of the cache keeps its invariant, and the answers it has given.
LEMMA CacheStep ==
    ASSUME Memo!IInv,
           Cache!Computing \/ (\E f \in Fn : Cache!Query(f)) \/ UNCHANGED cache
    PROVE  /\ Memo!IInv' /\ graph' = graph
           /\ \A f \in Fn : entry[f] = "Some" => entry'[f] = "Some" /\ value'[f] = value[f]
<1>1. [Memo!Next]_(Memo!vars)
  BY SameCache DEF Memo!Next, Memo!vars, cache
<1>2. Memo!IInv'
  BY <1>1, InputsAreGraphs, Memo!IInvStep
<1>3. \A f \in Fn : entry[f] = "Some" => entry'[f] = "Some" /\ value'[f] = value[f]
  BY <1>1, InputsAreGraphs, Memo!FinalStep
<1>4. graph' = graph
  BY <1>1 DEF Memo!Next, Memo!vars, Memo!Query, Memo!Hit, Memo!Computing, Memo!Ask, Memo!Return
<1> QED BY <1>2, <1>3, <1>4

-----------------------------------------------------------------------------
(***************************************************************************)
(* What the cache's graph says of the program.                             *)
(***************************************************************************)
\* Execution goes on in functions; an unmarked function's markers beyond are its own in
\* the cache's graph, as far as they are one step away.
LEMMA OneStep ==
    ASSUME program \in Programs, graph = marker_graph(program), NEW f \in Fn
    PROVE  /\ EntersFrom(f) \subseteq Fn
           /\ Memo!deps(f) = {g \in EntersFrom(f) : is_cached(program, g)}
           /\ graph.own[f] \subseteq UNION {program.markers[g] : g \in EntersFrom(f)}
           /\ ~is_marked(program, f) =>
                \A g \in EntersFrom(f) : program.markers[g] \subseteq graph.own[f]
<1>1. targets(program, f) \subseteq Fn /\ program.generator[f] \in OptFn
  BY TargetsAreFunctions
<1>2. EntersFrom(f) \subseteq Fn
  BY <1>1 DEF EntersFrom, OptFn
<1>3. Memo!deps(f) = {g \in EntersFrom(f) : is_cached(program, g)}
  <2>1. \A g \in Fn : <<f, g>> \in graph.deps <=> g \in dependencies(program, f)
    BY DEF marker_graph
  <2>2. dependencies(program, f) = {g \in EntersFrom(f) : is_cached(program, g)}
    BY DEF dependencies, EntersFrom
  <2> QED BY <1>2, <2>1, <2>2 DEF Memo!deps, Memo!Successors
<1>4. graph.own[f] = own(program, f)
  BY DEF marker_graph
<1>5. own(program, f) \subseteq UNION {program.markers[g] : g \in EntersFrom(f)}
  BY DEF own, EntersFrom
<1>6. ASSUME ~is_marked(program, f), NEW g \in EntersFrom(f)
      PROVE  program.markers[g] \subseteq own(program, f)
  BY <1>6, BodyAssumption DEF own, EntersFrom, is_marked
<1> QED BY <1>2, <1>3, <1>4, <1>5, <1>6

(***************************************************************************)
(* The markers that execution of an unmarked function gets to are those    *)
(* that the cache's graph has below it.                                    *)
(***************************************************************************)
LEMMA BeyondIsTransitive ==
    ASSUME program \in Programs, graph = marker_graph(program), NEW f \in Fn,
           ~is_marked(program, f)
    PROVE  MarkersBeyond(f) = Memo!Transitive(f)
<1> DEFINE inner == CutAfter(Enters, {g \in Fn : ~is_cached(program, g)})
           Leads(g, h) == Reaches(Fn, inner, g, h)
<1>1. \A x \in Fn, y \in Fn : <<x, y>> \in inner <=> y \in EntersFrom(x) /\ is_cached(program, x)
  BY DEF CutAfter, Enters
<1>2. graph \in Memo!Graph
  BY InputsAreGraphs
<1> HIDE DEF inner
<1>3. ASSUME NEW g \in EntersFrom(f), NEW h \in Fn, Leads(g, h)
      PROVE  program.markers[h] \subseteq Memo!Transitive(f)
  <2> DEFINE T == {y \in Fn : /\ program.markers[y] \subseteq Memo!Transitive(f)
                              /\ is_cached(program, y) => Memo!DependsOn(f, y)}
  <2>1. ASSUME NEW x \in Fn, ~is_marked(program, x), Memo!DependsOn(f, x), NEW y \in EntersFrom(x)
        PROVE  y \in T
    <3>1. y \in Fn /\ program.markers[y] \subseteq graph.own[x]
      BY <2>1, OneStep
    <3>2. graph.own[x] \subseteq Memo!Transitive(f)
      BY <2>1 DEF Memo!Transitive
    <3>3. ASSUME is_cached(program, y) PROVE Memo!DependsOn(f, y)
      <4>1. y \in Memo!deps(x)
        BY <2>1, <3>3, OneStep
      <4>2. Memo!DependsOn(x, y)
        BY <4>1, Memo!DepsFacts, InputsAreGraphs
      <4> QED BY <2>1, <3>1, <4>2, InputsAreGraphs, Memo!ReachesTrans DEF Memo!DependsOn
    <3> QED BY <3>1, <3>2, <3>3
  <2>2. Memo!DependsOn(f, f)
    BY Memo!ReachesRefl, InputsAreGraphs DEF Memo!DependsOn
  <2>3. g \in T
    BY <2>1, <2>2
  <2>4. ClosedUnder(Fn, inner, T)
    <3> SUFFICES ASSUME NEW x \in T, NEW y \in Fn, <<x, y>> \in inner PROVE y \in T
      BY DEF ClosedUnder
    <3>1. y \in EntersFrom(x) /\ is_cached(program, x)
      BY <1>1
    <3> QED BY <2>1, <3>1 DEF is_cached
  <2>5. h \in T
    <3> HIDE DEF T
    <3>1. T \in SUBSET Fn
      BY DEF T
    <3> QED BY <1>3, <2>3, <2>4, <3>1 DEF Reaches
  <2> QED BY <2>5
<1>4. ASSUME NEW d \in Fn, Memo!DependsOn(f, d), NEW m \in graph.own[d]
      PROVE  \E g \in EntersFrom(f), h \in Fn : Leads(g, h) /\ m \in program.markers[h]
  <2>1. PICK h \in EntersFrom(d) : m \in program.markers[h]
    BY <1>4, OneStep
  <2>2. h \in Fn
    BY <1>4, <2>1, OneStep
  <2>3. CASE d = f
    BY <2>1, <2>2, <2>3 DEF Reaches
  <2>4. CASE d # f
    <3>1. PICK g \in Memo!deps(f) : Memo!DependsOn(g, d)
      BY <1>4, <2>4, Memo!FirstStep, InputsAreGraphs DEF Memo!DependsOn, Memo!deps
    <3>2. g \in EntersFrom(f) /\ g \in Fn /\ is_cached(program, g)
      BY <3>1, OneStep
    <3> DEFINE T == {y \in Fn : is_cached(program, y) /\ Leads(g, y)}
    <3>3. g \in T
      BY <3>2 DEF Reaches
    <3>4. ASSUME NEW x \in T, NEW y \in Fn, y \in EntersFrom(x) PROVE Leads(g, y)
      <4>1. <<x, y>> \in inner
        BY <1>1, <3>4
      <4> QED BY <3>2, <3>4, <4>1 DEF Reaches, ClosedUnder
    <3>5. ASSUME NEW x \in T, NEW y \in Fn, <<x, y>> \in graph.deps PROVE y \in T
      <4>1. y \in EntersFrom(x) /\ is_cached(program, y)
        BY <3>5, OneStep DEF Memo!deps, Memo!Successors
      <4> QED BY <3>4, <3>5, <4>1
    <3>6. d \in T
      <4>1. T \in SUBSET Fn
        OBVIOUS
      <4> HIDE DEF T
      <4> QED BY <1>4, <3>1, <3>3, <3>5, <4>1 DEF Memo!DependsOn, Memo!Reaches, Memo!ClosedUnder
    <3> QED BY <2>1, <2>2, <3>2, <3>4, <3>6
  <2> QED BY <2>3, <2>4
<1>5. MarkersBeyond(f) =
        UNION {program.markers[h] : h \in {h \in Fn : \E g \in EntersFrom(f) : Leads(g, h)}}
  BY DEF MarkersBeyond, inner
<1>6. Memo!Transitive(f) = UNION {graph.own[d] : d \in {d \in Fn : Memo!DependsOn(f, d)}}
  BY DEF Memo!Transitive
<1> HIDE DEF Leads
<1>7. MarkersBeyond(f) \subseteq Memo!Transitive(f)
  BY <1>3, <1>5
<1>8. Memo!Transitive(f) \subseteq MarkersBeyond(f)
  BY <1>4, <1>5, <1>6
<1> QED BY <1>7, <1>8

-----------------------------------------------------------------------------
(***************************************************************************)
(* The answers that judgements rest on.                                    *)
(***************************************************************************)
LEMMA SiteFacts ==
    ASSUME program \in Programs, NEW c \in program.sites
    PROVE  c.callee \in Fn /\ c.async_parent \in OptFn /\ marker_target(c) \in Fn
<1>1. c \in CallInfo
  BY ProgramsAssumption DEF Program
<1> QED BY <1>1 DEF CallInfo, OptFn, marker_target

\* An answer that is there while nothing is computed is final.
LEMMA AnsweredSettled ==
    ASSUME Memo!IInv, stack = <<>>, NEW f \in Fn, answered(f)
    PROVE  settled(f)
<1> SUFFICES ASSUME is_cached(program, f) PROVE entry[f] = "Some"
  BY DEF settled
<1>1. entry[f] \in {"absent", "None", "Some"} /\ entry[f] # "absent"
  BY DEF Memo!IInv, Memo!StackInv, Memo!TypeOK, answered
<1>2. entry[f] # "None"
  BY DEF Memo!IInv, Memo!StackInv, Memo!NoneOnStack, Memo!Levels
<1> QED BY <1>1, <1>2

\* A final answer has no marker that is not beyond f, and off cycles it has them all.
LEMMA SettledAnswer ==
    ASSUME TypeOK, Memo!IInv, NEW f \in Fn, settled(f)
    PROVE  /\ get_reachable_markers(f) # {} => MarkersBeyond(f) # {}
           /\ is_cached(program, f) /\ ~Memo!ReachesCycle(f) =>
                get_reachable_markers(f) = MarkersBeyond(f)
<1> SUFFICES ASSUME is_cached(program, f)
             PROVE  /\ get_reachable_markers(f) \subseteq MarkersBeyond(f)
                    /\ ~Memo!ReachesCycle(f) => get_reachable_markers(f) = MarkersBeyond(f)
  BY DEF get_reachable_markers
<1>1. entry[f] = "Some" /\ get_reachable_markers(f) = value[f]
  BY SameCache DEF settled, get_reachable_markers, Memo!read
<1>2. MarkersBeyond(f) = Memo!Transitive(f)
  BY BeyondIsTransitive DEF is_cached, TypeOK
<1>3. value[f] \subseteq Memo!Transitive(f)
  BY DEF Memo!IInv, Memo!CacheSound
<1>4. ~Memo!ReachesCycle(f) => value[f] = Memo!Transitive(f)
  BY <1>1, Memo!Exact, InputsAreGraphs DEF Memo!ExactOffCycles
<1> QED BY <1>1, <1>2, <1>3, <1>4

\* Nothing is beyond a virtual function.
LEMMA NothingBeyondVirtual ==
    ASSUME program \in Programs, NEW f \in Fn, f \in program.virtual
    PROVE  MarkersBeyond(f) = {}
<1>1. EntersFrom(f) = {}
  BY BodyAssumption DEF EntersFrom, targets
<1> QED BY <1>1 DEF MarkersBeyond

\* While the program and the graph stay the same, so does what is said of them, and a
\* settled answer stays as it is.
LEMMA SettledKept ==
    ASSUME program' = program, graph' = graph, NEW f \in Fn,
           entry[f] = "Some" => entry'[f] = "Some" /\ value'[f] = value[f],
           settled(f)
    PROVE  settled(f)' /\ get_reachable_markers(f)' = get_reachable_markers(f)
<1>1. settled(f)'
  BY DEF settled
<1>2. is_cached(program, f) => Cache!read(f)' = Cache!read(f)
  BY DEF settled, Cache!read
<1> QED BY <1>1, <1>2 DEF get_reachable_markers

\* What is hidden and how bad it is depends on the judgement only.
LEMMA HidesKept ==
    ASSUME program' = program, graph' = graph, NEW c \in program.sites,
           judgement'[c] = judgement[c], NEW m \in Fn
    PROVE  (Hides(c, m)' <=> Hides(c, m)) /\ Severity(c)' = Severity(c)
<1>1. MarkersBeyond(m)' = MarkersBeyond(m)
  BY DEF MarkersBeyond, EntersFrom, Enters
<1>2. Memo!ReachesCycle(m)' <=> Memo!ReachesCycle(m)
  BY Memo!GraphKept, InputsAreGraphs
<1> QED BY <1>1, <1>2 DEF Hides, Severity, stubbed, marker_target

\* A judgement that stands goes on to do so.
LEMMA StandingKept ==
    ASSUME TypeOK, program' = program, graph' = graph,
           \A f \in Fn : entry[f] = "Some" => entry'[f] = "Some" /\ value'[f] = value[f],
           NEW c \in program.sites,
           asks_markers(marker_target(c)) => settled(marker_target(c))
    PROVE  /\ judge(c)' = judge(c)
           /\ asks_markers(marker_target(c))' => settled(marker_target(c))'
<1> DEFINE f == marker_target(c)
<1>1. f \in Fn
  BY SiteFacts DEF TypeOK
<1>2. asks_markers(f)' <=> asks_markers(f)
  BY DEF asks_markers, stubbed, may_enter
<1>3. asks_markers(f) =>
        settled(f)' /\ get_reachable_markers(f)' = get_reachable_markers(f)
  BY <1>1, SettledKept
<1>4. marker_target(c)' = marker_target(c)
  BY DEF marker_target
<1>5. judge(c)' = judge(c)
  BY <1>2, <1>3, <1>4 DEF judge, stubbed, may_enter
<1> QED BY <1>2, <1>3, <1>4, <1>5

-----------------------------------------------------------------------------
(***************************************************************************)
(* Every step keeps the invariant.                                         *)
(***************************************************************************)
LEMMA InitIInv == Init => IInv
<1> SUFFICES ASSUME Init PROVE IInv
  OBVIOUS
<1>1. TypeOK
  BY DEF Init, TypeOK
<1>2. Memo!Init
  BY SameCache DEF Init, Memo!Init
<1>3. Memo!IInv
  BY <1>2, InputsAreGraphs, Memo!InitIInv
<1>4. Standing /\ Checked
  BY DEF Init, Standing, Checked, Hides
<1> QED BY <1>1, <1>3, <1>4 DEF IInv

\* A step that judges nothing: the cache moves on, or the checker reports.
LEMMA UnjudgedIInv ==
    ASSUME IInv, program' = program, judgement' = judgement,
           Cache!Computing \/ (\E f \in Fn : Cache!Query(f)) \/ UNCHANGED cache,
           call' \in {{}} \cup {{c} : c \in program.sites}, reported \subseteq reported',
           \A c \in program.sites, m \in Fn :
                phase = "check" /\ call = {c} /\ m \in to_check /\ Hides(c, m) =>
                    \/ <<c, m, Severity(c)>> \in reported'
                    \/ phase' = "check" /\ call' = {c} /\ m \in to_check'
    PROVE  IInv'
<1>1. /\ Memo!IInv' /\ graph' = graph
      /\ \A f \in Fn : entry[f] = "Some" => entry'[f] = "Some" /\ value'[f] = value[f]
  BY CacheStep DEF IInv
<1>2. TypeOK'
  BY <1>1 DEF IInv, TypeOK, marker_graph
<1>3. Standing'
  <2> SUFFICES ASSUME NEW c \in program.sites, judgement[c] # "none"
               PROVE  /\ judgement[c] = judge(c)'
                      /\ asks_markers(marker_target(c))' => settled(marker_target(c))'
    BY DEF Standing, marker_target
  <2> QED BY <1>1, StandingKept DEF IInv, Standing
<1>4. Checked'
  <2> SUFFICES ASSUME NEW c \in program.sites, NEW m \in Fn, Hides(c, m)'
               PROVE  \/ <<c, m, Severity(c)'>> \in reported'
                      \/ phase' = "check" /\ call' = {c} /\ m \in to_check'
    BY DEF Checked
  <2>1. Hides(c, m) /\ Severity(c)' = Severity(c)
    BY <1>1, HidesKept
  <2> QED BY <2>1 DEF IInv, Checked
<1> QED BY <1>1, <1>2, <1>3, <1>4 DEF IInv

LEMMA CallIInv ==
    ASSUME IInv, NEW c \in program.sites, Call(c)
    PROVE  IInv'
  BY UnjudgedIInv DEF Call

LEMMA RequestIInv ==
    ASSUME IInv, NEW f \in Fn, Request(f)
    PROVE  IInv'
<1>1. call' \in {{}} \cup {{c} : c \in program.sites}
  BY DEF Request, IInv, TypeOK
<1> QED BY <1>1, UnjudgedIInv DEF Request

LEMMA ComputeIInv ==
    ASSUME IInv, Compute
    PROVE  IInv'
<1>1. call' \in {{}} \cup {{c} : c \in program.sites}
  BY DEF Compute, IInv, TypeOK
<1> QED BY <1>1, UnjudgedIInv DEF Compute

LEMMA EndCheckIInv ==
    ASSUME IInv, EndCheck
    PROVE  IInv'
  BY UnjudgedIInv DEF EndCheck

\* The method looked at is reported if it has markers, and the answer has them all.
LEMMA CheckMethodIInv ==
    ASSUME IInv, NEW c \in program.sites, NEW m \in Fn, CheckMethod(c, m)
    PROVE  IInv'
<1>1. settled(m)
  BY AnsweredSettled DEF IInv, CheckMethod
<1>2. ASSUME NEW d \in program.sites, call = {d}, Hides(d, m)
      PROVE  <<d, m, Severity(d)>> \in reported'
  <2>1. get_reachable_markers(m) # {}
    BY <1>1, <1>2, SettledAnswer DEF IInv, Hides
  <2>2. d = c
    BY <1>2 DEF CheckMethod
  <2>3. Severity(c) = IF emit_err(c) THEN "error" ELSE "warning"
    BY DEF Severity, emit_err
  <2> QED BY <2>1, <2>2, <2>3 DEF CheckMethod
<1>3. call' \in {{}} \cup {{d} : d \in program.sites}
  BY DEF CheckMethod, IInv, TypeOK
<1>4. ASSUME NEW d \in program.sites, NEW n \in Fn,
             phase = "check", call = {d}, n \in to_check, Hides(d, n)
      PROVE  \/ <<d, n, Severity(d)>> \in reported'
             \/ phase' = "check" /\ call' = {d} /\ n \in to_check'
  BY <1>2, <1>4 DEF CheckMethod
<1>5. program' = program /\ judgement' = judgement /\ UNCHANGED cache /\ reported \subseteq reported'
  BY DEF CheckMethod
<1> QED BY <1>3, <1>4, <1>5, UnjudgedIInv

(***************************************************************************)
(* A judgement is given when its answer is there; what it may hide is to   *)
(* be looked for.                                                          *)
(***************************************************************************)
LEMMA JudgeIInv ==
    ASSUME IInv, NEW c \in program.sites, Judge(c)
    PROVE  IInv'
<1>1. /\ Memo!IInv' /\ graph' = graph /\ program' = program /\ reported' = reported
      /\ \A f \in Fn : entry[f] = "Some" => entry'[f] = "Some" /\ value'[f] = value[f]
  BY CacheStep DEF IInv, Judge
<1>2. judge(c) \in {"Inline", "UseStub", "AbstractViaType"}
  BY DEF judge
<1>3. judgement' = [judgement EXCEPT ![c] = judge(c)] /\ judgement'[c] = judge(c)
  BY DEF Judge, IInv, TypeOK
<1>4. TypeOK'
  <2>1. call' \in {{}} \cup {{d} : d \in program.sites}
    BY DEF Judge, IInv, TypeOK
  <2>2. judgement' \in [program.sites -> {"none", "Inline", "UseStub", "AbstractViaType"}]
    BY <1>2, <1>3 DEF IInv, TypeOK
  <2> QED BY <1>1, <2>1, <2>2 DEF IInv, TypeOK, marker_graph
<1>5. asks_markers(marker_target(c)) => settled(marker_target(c))
  BY SiteFacts, AnsweredSettled DEF IInv, TypeOK, Judge
<1>6. Standing'
  <2> SUFFICES ASSUME NEW d \in program.sites, judgement'[d] # "none"
               PROVE  /\ judgement'[d] = judge(d)'
                      /\ asks_markers(marker_target(d))' => settled(marker_target(d))'
    BY <1>1 DEF Standing, marker_target
  <2>1. CASE d = c
    BY <1>1, <1>3, <1>5, <2>1, StandingKept DEF IInv
  <2>2. CASE d # c
    <3>1. judgement'[d] = judgement[d]
      BY <1>3, <2>2 DEF IInv, TypeOK
    <3> QED BY <1>1, <3>1, StandingKept DEF IInv, Standing
  <2> QED BY <2>1, <2>2
<1>7. Checked'
  <2> SUFFICES ASSUME NEW d \in program.sites, NEW m \in Fn, Hides(d, m)'
               PROVE  \/ <<d, m, Severity(d)'>> \in reported'
                      \/ phase' = "check" /\ call' = {d} /\ m \in to_check'
    BY <1>1 DEF Checked
  <2>1. CASE d = c
    <3>1. judge(c) = "AbstractViaType" /\ ~stubbed(marker_target(c))
      BY <1>1, <1>3, <2>1 DEF Hides, stubbed, marker_target
    <3>2. m \in Successors(Fn, program.methods, c.callee)
      BY <1>1, <2>1 DEF Hides
    <3>3. call = {c}
      BY DEF Judge, IInv, TypeOK
    <3> QED BY <2>1, <3>1, <3>2, <3>3 DEF Judge
  <2>2. CASE d # c
    <3>1. judgement'[d] = judgement[d]
      BY <1>3, <2>2 DEF IInv, TypeOK
    <3>2. Hides(d, m) /\ Severity(d)' = Severity(d)
      BY <1>1, <3>1, HidesKept
    <3>3. phase # "check"
      BY DEF Judge
    <3> QED BY <1>1, <3>2, <3>3 DEF IInv, Checked
  <2> QED BY <2>1, <2>2
<1> QED BY <1>1, <1>4, <1>6, <1>7 DEF IInv

LEMMA IInvStep == IInv /\ [Next]_vars => IInv'
<1> SUFFICES ASSUME IInv, [Next]_vars PROVE IInv'
  OBVIOUS
<1>1. ASSUME NEW f \in Fn, Request(f) PROVE IInv'
  BY <1>1, RequestIInv
<1>2. CASE Compute
  BY <1>2, ComputeIInv
<1>3. ASSUME NEW c \in program.sites, Judge(c) PROVE IInv'
  BY <1>3, JudgeIInv
<1>4. ASSUME NEW c \in program.sites, NEW m \in Fn, CheckMethod(c, m) PROVE IInv'
  BY <1>4, CheckMethodIInv
<1>5. CASE EndCheck
  BY <1>5, EndCheckIInv
<1>6. ASSUME NEW c \in program.sites, Call(c) PROVE IInv'
  BY <1>6, CallIInv
<1>7. CASE UNCHANGED vars
  <2>1. call' \in {{}} \cup {{c} : c \in program.sites}
    BY <1>7 DEF vars, IInv, TypeOK
  <2> QED BY <1>7, <2>1, UnjudgedIInv DEF vars
<1> QED BY <1>1, <1>2, <1>3, <1>4, <1>5, <1>6, <1>7 DEF Next, Step

LEMMA Invariance == Spec => []IInv
  BY InitIInv, IInvStep, PTL DEF Spec

-----------------------------------------------------------------------------
(***************************************************************************)
(* The program is the same throughout, and a judgement a known one.        *)
(***************************************************************************)
THEOREM Typing == Spec => []TypeOK
<1>1. IInv => TypeOK
  BY DEF IInv
<1> QED BY <1>1, Invariance, PTL

(***************************************************************************)
(* The judge uses the transitive marker cache as RecursiveCache describes: *)
(* every behaviour of the judge is one of the cache.                       *)
(***************************************************************************)
THEOREM UsesCache == Spec => Cache!Spec
<1>1. Init => Cache!Init
  BY DEF Init, Cache!Init
<1>2. [Next]_vars => [Cache!Next]_(Cache!vars)
  BY DEF Next, Step, Request, Compute, Judge, CheckMethod, EndCheck, Call, Cache!Next, Cache!vars,
         vars, cache
<1> QED BY <1>1, <1>2, PTL DEF Spec, Cache!Spec

(***************************************************************************)
(* should_inline enters a call only towards markers, and off cycles enters *)
(* every call with markers beyond its target.                              *)
(***************************************************************************)
THEOREM Inlining == Spec => []InlineTowardsMarkers
<1>1. IInv => InlineTowardsMarkers
  <2> SUFFICES ASSUME IInv, NEW c \in program.sites
               PROVE  LET f == marker_target(c)
                      IN  /\ judgement[c] = "Inline" /\ program.inlining_depth = "Adaptive" =>
                                MarkersBeyond(f) # {}
                          /\ Adaptive(c) /\ MarkersBeyond(f) # {} /\ ~Cache!ReachesCycle(f) =>
                                judgement[c] = "Inline"
    BY DEF InlineTowardsMarkers
  <2> DEFINE f == marker_target(c)
  <2>1. f \in Fn /\ program \in Programs
    BY SiteFacts DEF IInv, TypeOK
  <2>2. ASSUME judgement[c] # "none"
        PROVE  judgement[c] = judge(c) /\ (asks_markers(f) => settled(f))
    BY <2>2 DEF IInv, Standing
  <2>3. ASSUME judgement[c] = "Inline", program.inlining_depth = "Adaptive"
        PROVE  MarkersBeyond(f) # {}
    <3>1. asks_markers(f) /\ get_reachable_markers(f) # {}
      BY <2>2, <2>3 DEF judge, asks_markers
    <3> QED BY <2>1, <2>2, <2>3, <3>1, SettledAnswer DEF IInv
  <2>4. ASSUME Adaptive(c), MarkersBeyond(f) # {}, ~Cache!ReachesCycle(f)
        PROVE  judgement[c] = "Inline"
    <3>1. asks_markers(f) /\ judgement[c] = judge(c) /\ settled(f)
      BY <2>2, <2>4 DEF Adaptive
    <3>2. is_cached(program, f)
      BY <2>1, <2>4, <3>1, NothingBeyondVirtual DEF is_cached, asks_markers, may_enter
    <3>3. get_reachable_markers(f) # {}
      BY <2>1, <2>4, <3>1, <3>2, SettledAnswer, SameCache DEF IInv
    <3> QED BY <3>1, <3>3 DEF judge, asks_markers
  <2> QED BY <2>3, <2>4
<1> QED BY <1>1, Invariance, PTL

(***************************************************************************)
(* SafetyChecker misses no marked method that an approximation hides, off  *)
(* cycles.                                                                 *)
(***************************************************************************)
THEOREM Reporting == Spec => []HiddenMarkersReported
<1>1. IInv => HiddenMarkersReported
  <2> SUFFICES ASSUME IInv, NEW c \in program.sites, NEW m \in Fn, Approximated(c),
                      m \in Successors(Fn, program.methods, c.callee),
                      is_cached(program, m), ~Cache!ReachesCycle(m), MarkersBeyond(m) # {}
               PROVE  <<c, m, IF program.relaxed \/ is_marked(program, marker_target(c))
                              THEN "warning" ELSE "error">> \in reported
    BY DEF HiddenMarkersReported
  <2>1. Hides(c, m) /\ call # {c}
    BY SameCache DEF Hides, Approximated
  <2> QED BY <2>1 DEF IInv, Checked, Severity
<1> QED BY <1>1, Invariance, PTL

(***************************************************************************)
(* The call that creates a future and the one that polls it are judged     *)
(* alike, however much was cached between the two judgements: both ask for *)
(* the same function, and its answer is final.                             *)
(***************************************************************************)
THEOREM AsyncViews == Spec => []UnstubbedAsyncViewsAgree
<1>1. IInv => UnstubbedAsyncViewsAgree
  <2> SUFFICES ASSUME IInv, NEW c \in program.sites, NEW p \in program.sites,
                      Polls(p, c), ~stubbed(c.callee),
                      judgement[c] # "none", judgement[p] # "none"
               PROVE  Skips(c) <=> Skips(p)
    BY DEF UnstubbedAsyncViewsAgree
  <2>1. judgement[c] = judge(c) /\ judgement[p] = judge(p)
    BY DEF IInv, Standing
  <2>2. marker_target(c) = c.callee /\ marker_target(p) = c.callee
    BY SiteFacts, NoneAssumption DEF Polls, marker_target, IInv, TypeOK
  <2>3. judge(c) = judge(p)
    BY <2>2 DEF judge
  <2> QED BY <2>1, <2>3 DEF Skips
<1> QED BY <1>1, Invariance, PTL
=============================================================================
