------------------------- MODULE MarkerReachability -------------------------
(***************************************************************************)
(* InlineJudge::should_inline (ana/inline_judge.rs) over the transitive    *)
(* marker cache of MarkerCtx (ann/db.rs): which calls the dependence graph *)
(* constructor descends into, which it replaces by a stub, and which it    *)
(* approximates by their type, after a SafetyChecker has looked for marked *)
(* methods the approximation would hide.                                   *)
(*                                                                         *)
(* A program is what the judge and the cache read of it.  A function here  *)
(* is a MaybeMonomorphized: one resolved instance, or a definition whose   *)
(* generics are not known (Plain).  Of the SafetyChecker the closures and  *)
(* methods that trait predicates bring into reach are modelled; the        *)
(* predicates it rejects by their form and projections onto marked types   *)
(* are not, nor the error for a stub on a Plain definition.                *)
(***************************************************************************)
EXTENDS Naturals, Sequences, Reachability

CONSTANTS
    Fn,         \* functions
    Marker,     \* marker names
    None,       \* no function
    Programs    \* the programs, with the options they are analysed under

OptFn == Fn \cup {None}

\* CallInfo, as far as the judge reads it.
CallInfo == [callee : Fn, async_parent : OptFn]

Depth == {"Adaptive", "Shallow", "Unconstrained"}

Program ==
    [markers : [Fn -> SUBSET Marker],   \* combined_markers
     plain : SUBSET Fn,                 \* definitions, which call definitions
     virtual : SUBSET Fn,               \* is_virtual: trait methods without a body
     included : SUBSET Fn,              \* functions of included_crates
     stub : [Fn -> OptFn],              \* has_stub, as the instance it resolves to
     calls : SUBSET (Fn \X Fn),         \* func_of_term of the body's terminators
     generator : [Fn -> OptFn],         \* determine_async: the body of an async fn
     future : [Fn -> OptFn],            \* the generator behind an opaque return type
     methods : SUBSET (Fn \X Fn),       \* methods a callee's trait predicates reach
     sites : SUBSET CallInfo,           \* the calls the constructor comes to
     inlining_depth : Depth, relaxed : BOOLEAN]

ASSUME ProgramsAssumption == Programs \subseteq Program

\* Without a body there are no calls.  A generator has no markers of its own; that of an
\* async fn has those of the fn (defid_rewrite), that of #[async_trait] has none.
ASSUME BodyAssumption ==
    \A p \in Programs, f \in Fn :
        /\ f \in p.virtual => p.generator[f] = None /\ Successors(Fn, p.calls, f) = {}
        /\ p.generator[f] # None => p.markers[p.generator[f]] \in {{}, p.markers[f]}

ASSUME NoneAssumption == None \notin Fn

VARIABLES
    program,
    graph, entry, value, stack, todo, asked,    \* reachable_markers
    phase,      \* "idle", "judge" (should_inline) or "check" (SafetyChecker)
    call,       \* the call looked at, {} when idle
    to_check,   \* the methods the SafetyChecker has yet to look at
    judgement,  \* call -> what should_inline returned last, or "none"
    reported    \* <<call, method, severity>> the SafetyChecker has emitted

cache == <<graph, entry, value, stack, todo, asked>>
vars == <<program, cache, phase, call, to_check, judgement, reported>>

-----------------------------------------------------------------------------
\* What the transitive marker cache computes for a program.

is_marked(p, f) == p.markers[f] # {}

\* terminator_reachable_markers: the functions a call in f to g is resolved to.
\* A stub cannot be applied to a Plain definition.
terminator_targets(p, f, g) ==
    IF p.stub[g] = None THEN {g} \cup ({p.future[f]} \ {None})
    ELSE IF f \in p.plain THEN {} ELSE {p.stub[g]}

targets(p, f) ==
    UNION {terminator_targets(p, f, g) : g \in Successors(Fn, p.calls, f)}

\* get_reachable_markers goes to the cache, and does not return &[] at once.
is_cached(p, f) == ~is_marked(p, f) /\ f \notin p.virtual /\ f \in p.included

\* compute_reachable_markers: an async fn passes on what its generator reaches,
\* any other function has the markers of what it calls (the first part of
\* get_reachable_and_self_markers) and what its unmarked callees reach.
own(p, f) ==
    IF p.generator[f] # None THEN {} ELSE UNION {p.markers[g] : g \in targets(p, f)}

\* The mutant of dependencies: excluded functions are looked into as well.
dependenciesAll(p, f) ==
    IF p.generator[f] # None THEN {p.generator[f]} ELSE targets(p, f)

dependencies(p, f) ==
    {g \in IF p.generator[f] # None THEN {p.generator[f]} ELSE targets(p, f) :
        is_cached(p, g)}

marker_graph(p) ==
    [own |-> [f \in Fn |-> own(p, f)],
     deps |-> {e \in Fn \X Fn : e[2] \in dependencies(p, e[1])}]

Cache == INSTANCE RecursiveCache WITH
    Key <- Fn, Elem <- Marker, Inputs <- {marker_graph(p) : p \in Programs}

\* get_reachable_markers(f) has its answer without computing anything.
answered(f) == is_cached(program, f) => entry[f] # "absent"

get_reachable_markers(f) ==
    IF is_cached(program, f) THEN Cache!read(f) ELSE {}

-----------------------------------------------------------------------------
Init ==
    /\ program \in Programs
    /\ graph = marker_graph(program)
    /\ Cache!Empty
    /\ phase = "idle"
    /\ call = {}
    /\ to_check = {}
    /\ judgement = [c \in program.sites |-> "none"]
    /\ reported = {}

\* The mutant of marker_target: the generator is judged, not its async fn.
marker_targetCallee(c) == c.callee

marker_target(c) == IF c.async_parent # None THEN c.async_parent ELSE c.callee

stubbed(f) == program.stub[f] # None
may_enter(f) == f \in program.included /\ ~is_marked(program, f)

\* The last guard of the match asks for the markers f reaches.
asks_markers(f) ==
    ~stubbed(f) /\ may_enter(f) /\ program.inlining_depth = "Adaptive"

\* The judgement, once the cache has the answer the match asks for.
judge(c) ==
    LET f == marker_target(c)
    IN  IF stubbed(f)
        THEN IF c.async_parent = None THEN "UseStub" ELSE "AbstractViaType"
        ELSE IF /\ may_enter(f)
                /\ \/ program.inlining_depth = "Unconstrained"
                   \/ asks_markers(f) /\ get_reachable_markers(f) # {}
             THEN "Inline" ELSE "AbstractViaType"

\* The mutant of emit_err: the two reasons not to fail the build swapped for both.
emit_errBoth(c) == ~(is_marked(program, marker_target(c)) /\ program.relaxed)

emit_err(c) == ~(is_marked(program, marker_target(c)) \/ program.relaxed)

\* The constructor comes to a call and asks should_inline.
Call(c) ==
    /\ phase = "idle"
    /\ c \in program.sites
    /\ phase' = "judge"
    /\ call' = {c}
    /\ UNCHANGED <<program, cache, to_check, judgement, reported>>

\* The judge, or the checker, needs markers of f that are not cached yet.
Request(f) ==
    /\ ~answered(f)
    /\ \/ phase = "judge" /\ asks_markers(f) /\ \E c \in call : f = marker_target(c)
       \/ phase = "check" /\ f \in to_check
    /\ Cache!Query(f)
    /\ UNCHANGED <<program, phase, call, to_check, judgement, reported>>

Compute ==
    /\ Cache!Computing
    /\ UNCHANGED <<program, phase, call, to_check, judgement, reported>>

\* should_inline has its judgement.  An abstraction the match decided on is
\* checked; the stub of an async function is not.
Judge(c) ==
    /\ phase = "judge" /\ stack = <<>>
    /\ c \in call
    /\ asks_markers(marker_target(c)) => answered(marker_target(c))
    /\ judgement' = [judgement EXCEPT ![c] = judge(c)]
    /\ IF judge(c) = "AbstractViaType" /\ ~stubbed(marker_target(c))
       THEN /\ phase' = "check"
            /\ to_check' = Successors(Fn, program.methods, c.callee)
            /\ UNCHANGED call
       ELSE /\ phase' = "idle"
            /\ call' = {}
            /\ UNCHANGED to_check
    /\ UNCHANGED <<program, cache, reported>>

\* The mutant of CheckMethod: a method is looked at again and again.
CheckMethodKeeps(c, m) ==
    /\ phase = "check" /\ stack = <<>>
    /\ c \in call /\ m \in to_check
    /\ answered(m)
    /\ reported' = IF get_reachable_markers(m) = {} THEN reported
                   ELSE reported \cup {<<c, m, "warning">>}
    /\ UNCHANGED <<program, cache, phase, call, to_check, judgement>>

\* SafetyChecker::check_impl looks at method m.
CheckMethod(c, m) ==
    /\ phase = "check" /\ stack = <<>>
    /\ c \in call /\ m \in to_check
    /\ answered(m)
    /\ to_check' = to_check \ {m}
    /\ reported' =
           IF get_reachable_markers(m) = {} THEN reported
           ELSE reported \cup {<<c, m, IF emit_err(c) THEN "error" ELSE "warning">>}
    /\ UNCHANGED <<program, cache, phase, call, judgement>>

\* SafetyChecker::check is through.
EndCheck ==
    /\ phase = "check" /\ stack = <<>> /\ to_check = {}
    /\ phase' = "idle"
    /\ call' = {}
    /\ UNCHANGED <<program, cache, to_check, judgement, reported>>

Step ==
    \/ \E f \in Fn : Request(f)
    \/ Compute
    \/ \E c \in program.sites : Judge(c) \/ \E m \in Fn : CheckMethod(c, m)
    \/ EndCheck

Next == Step \/ \E c \in program.sites : Call(c)

Spec == Init /\ [][Next]_vars /\ WF_vars(Step)

-----------------------------------------------------------------------------
\* Where the execution of f may go next: into what it calls, or its generator.
EntersFrom(f) ==
    IF program.generator[f] # None THEN {program.generator[f]} ELSE targets(program, f)

Enters == {e \in Fn \X Fn : e[2] \in EntersFrom(e[1])}

\* The markers on functions that execution of f gets to without passing through
\* a marked, virtual or excluded function on the way.
MarkersBeyond(f) ==
    LET inner == CutAfter(Enters, {g \in Fn : ~is_cached(program, g)})
    IN  UNION {program.markers[h] :
                  h \in {h \in Fn : \E g \in EntersFrom(f) : Reaches(Fn, inner, g, h)}}

\* The judge decides by reachable markers whether to go into call c.
Adaptive(c) == asks_markers(marker_target(c)) /\ judgement[c] # "none"

(***************************************************************************)
(* What holds of "Inline so long as markers are reachable" (args.rs,       *)
(* InliningDepth): a call is inlined only if markers are reachable; and if *)
(* they are and its target does not get to a recursive function, it is     *)
(* inlined, whatever was judged and cached before.  A function on a cycle  *)
(* whose computation began inside that of another may be left out.  An     *)
(* abstracted call hides its markers from every policy, so this is what    *)
(* the soundness of adaptive inlining needs.                               *)
(***************************************************************************)
InlineTowardsMarkers ==
    \A c \in program.sites :
        LET f == marker_target(c)
        IN  /\ judgement[c] = "Inline" /\ program.inlining_depth = "Adaptive" =>
                MarkersBeyond(f) # {}
            /\ Adaptive(c) /\ MarkersBeyond(f) # {} /\ ~Cache!ReachesCycle(f) =>
                judgement[c] = "Inline"

\* The judge has approximated call c and gone on.
Approximated(c) ==
    /\ judgement[c] = "AbstractViaType"
    /\ ~stubbed(marker_target(c))
    /\ c \notin call

(***************************************************************************)
(* An approximation that hides an unmarked method with markers beyond it   *)
(* (and no recursion) is reported, as an error unless the target is marked *)
(* or the analysis relaxed.  The checker's queries share the judge's cache.*)
(***************************************************************************)
HiddenMarkersReported ==
    \A c \in program.sites, m \in Fn :
        /\ Approximated(c)
        /\ m \in Successors(Fn, program.methods, c.callee)
        /\ is_cached(program, m) /\ ~Cache!ReachesCycle(m) /\ MarkersBeyond(m) # {}
        => <<c, m, IF program.relaxed \/ is_marked(program, marker_target(c))
                   THEN "warning" ELSE "error">> \in reported

\* Call p polls the future that call c creates.
Polls(p, c) == p.async_parent = c.callee /\ c.async_parent = None

\* The constructor skips call c: it is neither entered nor replaced.
Skips(c) == judgement[c] = "AbstractViaType"

(***************************************************************************)
(* "both creator and closure have the same view of whether they are        *)
(* inlined or "Skip"ped" (local_analysis.rs, determine_call_handling), on  *)
(* functions without a stub, even if the cache was extended between the    *)
(* two judgements: or mutations are lost or doubled.                       *)
(***************************************************************************)
UnstubbedAsyncViewsAgree ==
    \A c, p \in program.sites :
        /\ Polls(p, c) /\ ~stubbed(c.callee)
        /\ "none" \notin {judgement[c], judgement[p]}
        => (Skips(c) <=> Skips(p))

(***************************************************************************)
(* Every call gets its judgement.                                          *)
(***************************************************************************)
Judged == phase # "idle" ~> phase = "idle"
=============================================================================
