--------------------------- MODULE RecursiveCache ---------------------------
(***************************************************************************)
(* The pattern by which the analyser caches transitive facts: the marker   *)
(* database asks Cache::get_maybe_recursive (rustc_utils) for the value of *)
(* a key, the closure that computes it asks the same cache for the keys it *)
(* depends on, and a key whose computation is already under way reads as   *)
(* None, which the database takes for the empty set (map_or(&[], ..)).     *)
(* MarkerCtx::get_reachable_markers and MarkerCtx::deep_type_markers       *)
(* (ann/db.rs) both work this way.                                         *)
(*                                                                         *)
(* A computation unions what the key itself contributes with the values of *)
(* its dependencies, which it asks for in the order the body or type lists *)
(* them: any order here.                                                   *)
(***************************************************************************)
EXTENDS Naturals, Sequences, Reachability

CONSTANTS
    Key,        \* functions, or types
    Elem,       \* markers
    Inputs      \* the dependency graphs the analysed program may have

\* What each key contributes itself, and which keys its value depends on.
Graph == [own : [Key -> SUBSET Elem], deps : SUBSET (Key \X Key)]

ASSUME InputsAssumption == Inputs \subseteq Graph

VARIABLES
    graph,      \* the dependency graph, which no step changes
    entry,      \* key -> is it in the map, as None or as Some?
    value,      \* key -> the cached set, or what its computation has so far
    stack,      \* the keys being computed, innermost last
    todo,       \* key -> the dependencies its computation has yet to ask for
    asked       \* the keys requested from outside so far

vars == <<graph, entry, value, stack, todo, asked>>

deps(k) == Successors(Key, graph.deps, k)
top == stack[Len(stack)]

\* Nothing is cached and nothing requested.
Empty ==
    /\ entry = [k \in Key |-> "absent"]
    /\ value = [k \in Key |-> {}]
    /\ stack = <<>>
    /\ todo = [k \in Key |-> {}]
    /\ asked = {}

Init == graph \in Inputs /\ Empty

-----------------------------------------------------------------------------
\* The mutant of read: a key under way is taken to hold everything.
readEverything(d) == IF entry[d] = "Some" THEN value[d] ELSE Elem

\* What a computation gets for dependency d that is in the map: None is empty.
read(d) == IF entry[d] = "Some" THEN value[d] ELSE {}

startAnew(d) == entry[d] # "None"

\* get_maybe_recursive finds no entry for d.
start(d) == entry[d] = "absent"

\* get_maybe_recursive(k): insert None, call the closure; todo_ is what the
\* callers have yet to ask for.
Compute(k, todo_) ==
    /\ entry' = [entry EXCEPT ![k] = "None"]
    /\ value' = [value EXCEPT ![k] = graph.own[k]]
    /\ todo' = [todo_ EXCEPT ![k] = deps(k)]
    /\ stack' = Append(stack, k)

\* A request from outside.
Query(k) ==
    /\ stack = <<>>
    /\ start(k)
    /\ Compute(k, todo)
    /\ asked' = asked \cup {k}
    /\ UNCHANGED graph

\* A request from outside that the map answers.
Hit(k) ==
    /\ stack = <<>>
    /\ ~start(k)
    /\ asked' = asked \cup {k}
    /\ UNCHANGED <<graph, entry, value, stack, todo>>

\* The innermost computation asks for dependency d.
Ask(d) ==
    /\ stack # <<>>
    /\ d \in todo[top]
    /\ LET rest == [todo EXCEPT ![top] = @ \ {d}]
       IN  IF start(d)
           THEN Compute(d, rest)
           ELSE /\ value' = [value EXCEPT ![top] = @ \cup read(d)]
                /\ todo' = rest
                /\ UNCHANGED <<entry, stack>>
    /\ UNCHANGED <<graph, asked>>

\* The mutant of Return: the caller's set is left as it was.
ReturnDrops ==
    /\ stack # <<>>
    /\ todo[top] = {}
    /\ entry' = [entry EXCEPT ![top] = "Some"]
    /\ stack' = SubSeq(stack, 1, Len(stack) - 1)
    /\ UNCHANGED <<graph, value, todo, asked>>

\* The innermost computation is complete: its value is inserted as Some, and
\* the computation that asked for it extends its own set with it.
Return ==
    /\ stack # <<>>
    /\ todo[top] = {}
    /\ entry' = [entry EXCEPT ![top] = "Some"]
    /\ stack' = SubSeq(stack, 1, Len(stack) - 1)
    /\ value' = IF Len(stack) = 1 THEN value
                ELSE [value EXCEPT ![stack[Len(stack) - 1]] = @ \cup value[top]]
    /\ UNCHANGED <<graph, todo, asked>>

Computing == (\E k \in Key : Ask(k)) \/ Return

Next == Computing \/ \E k \in Key : Query(k) \/ Hit(k)

Spec == Init /\ [][Next]_vars

-----------------------------------------------------------------------------
TypeOK ==
    /\ graph \in Graph
    /\ entry \in [Key -> {"absent", "None", "Some"}]
    /\ value \in [Key -> SUBSET Elem]
    /\ stack \in Seq(Key)
    /\ todo \in [Key -> SUBSET Key]
    /\ asked \subseteq Key

DependsOn(a, b) == Reaches(Key, graph.deps, a, b)

\* The value k should have: what any key it depends on contributes.
Transitive(k) == UNION {graph.own[d] : d \in {d \in Key : DependsOn(k, d)}}

\* k depends on a key that depends on itself.
ReachesCycle(k) ==
    \E c \in Key : DependsOn(k, c) /\ \E d \in deps(c) : DependsOn(d, c)

(***************************************************************************)
(* No set, cached or being collected, ever holds an element that is not    *)
(* transitively there: nothing is inlined or typed for an imagined marker. *)
(***************************************************************************)
CacheSound == \A k \in Key : value[k] \subseteq Transitive(k)

(***************************************************************************)
(* The answer cached for a key that does not depend on a recursive one is  *)
(* complete, in whatever order and under whatever computations it was      *)
(* obtained.                                                               *)
(***************************************************************************)
ExactOffCycles ==
    \A k \in Key : entry[k] = "Some" /\ ~ReachesCycle(k) => value[k] = Transitive(k)

(***************************************************************************)
(* The first request ever made is answered completely even when it runs    *)
(* into a cycle: what an inner computation missed, the outer one collects. *)
(***************************************************************************)
FirstAnswerExact ==
    \A k \in Key : asked = {k} /\ stack = <<>> => value[k] = Transitive(k)

(***************************************************************************)
(* What may be relied upon: an answer is complete for a key that depends   *)
(* on no recursive one, and for the first key that is asked for; answers   *)
(* after that may lack what a cycle kept from them.                        *)
(***************************************************************************)
AnswersExact == ExactOffCycles /\ FirstAnswerExact

(***************************************************************************)
(* A computation is never started for a key that is being computed: the    *)
(* recursion of the analyser is bounded by the size of the program.        *)
(***************************************************************************)
NoReentry == \A i, j \in 1 .. Len(stack) : stack[i] = stack[j] => i = j

(***************************************************************************)
(* An answer that was given out does not change: the database returns      *)
(* references into the map, and judgements based on them are not revised.  *)
(***************************************************************************)
AnswersFinal ==
    [][\A k \in Key : entry[k] = "Some" =>
          entry'[k] = "Some" /\ value'[k] = value[k]]_vars
=============================================================================
