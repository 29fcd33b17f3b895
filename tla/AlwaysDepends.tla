---------------------------- MODULE AlwaysDepends ----------------------------
(***************************************************************************)
(* always_depends and dfs_helper (paralegal-spdg, traverse.rs): does a     *)
(* node always depend on a target?  The search goes against the data       *)
(* edges, and every recursive call gets a discovered set of its own, a     *)
(* clone of its caller's; only the calls of the outermost level share one. *)
(* Edges may be tentative: the update they stand for might not happen.     *)
(*                                                                         *)
(* The incoming edges of a node come in the order they were added: any.    *)
(***************************************************************************)
EXTENDS Naturals, Sequences, Spdg

CONSTANT Node

Edge == [source : Node, target : Node, kind : EdgeKind, tentative : BOOLEAN]

VARIABLES
    graph,
    start, target,  \* the arguments
    stack,          \* the calls under way, dfs_helper's after always_depends'
    answer          \* {}, or what always_depends returned

depends_vars == <<graph, start, target, stack, answer>>

\* edges_directed(node, Incoming).
incoming(g, n) == {e \in g : e.target = n}

\* A call on n that has discovered D and has yet to look at the edges in todo.
call(g, n, D) ==
    [node |-> n, discovered |-> D, todo |-> incoming(g, n), tentative |-> FALSE, any |-> FALSE]

NothingAsked ==
    /\ graph = {}
    /\ target = CHOOSE n \in Node : TRUE
    /\ start = target
    /\ stack = <<>>
    /\ answer = {}

\* always_depends(s, t) is called on the graph g.
Ask(g, s, t) ==
    /\ stack = <<>>
    /\ graph' = g
    /\ start' = s /\ target' = t
    /\ stack' = IF s = t THEN <<>> ELSE <<call(g, s, {s})>>
    /\ answer' = IF s = t THEN {TRUE} ELSE {}

top == stack[Len(stack)]
callers == SubSeq(stack, 1, Len(stack) - 1)

-----------------------------------------------------------------------------
\* The mutant of skipped: a node is searched again.
skippedControl(e) == e.kind = "Control"

\* Control edges, and edges from a node discovered already, are passed over.
skipped(e) == e.kind = "Control" \/ e.source \in top.discovered

Skip(e) ==
    /\ stack # <<>> /\ e \in top.todo
    /\ skipped(e)
    /\ stack' = Append(callers, [top EXCEPT !.todo = @ \ {e}])
    /\ UNCHANGED <<graph, start, target, answer>>

\* results.push(res).
results(f, res) == [f EXCEPT !.any = @ \/ res]

\* Calls s whose innermost one got res from a recursive call: it returns at once
\* if res is true and no edge it looked at was tentative.  {} when all return.
given(s, res) ==
    LET pass[k \in Nat] ==
            IF k = 0 THEN <<>>
            ELSE IF res /\ ~s[k].tentative THEN pass[k - 1]
            ELSE Append(SubSeq(s, 1, k - 1), results(s[k], res))
    IN  pass[Len(s)]

\* The result goes back to the calls s, and out of always_depends if all return.
Pass(s, res) ==
    /\ stack' = given(s, res)
    /\ answer' = IF given(s, res) = <<>> THEN {res} ELSE {}
    /\ UNCHANGED <<graph, start, target>>

\* The caller's frame when dfs_helper is called along e.  The outermost level
\* passes its own discovered set, into which the helper inserts its node.
calling(e) ==
    [top EXCEPT !.todo = @ \ {e}, !.tentative = @ \/ e.tentative,
                !.discovered = IF Len(stack) = 1 THEN @ \cup {e.source} ELSE @]

\* dfs_helper(e.source): it returns at once at the target.
Call(e) ==
    /\ stack # <<>> /\ e \in top.todo
    /\ ~skipped(e)
    /\ LET suspended == Append(callers, calling(e))
       IN  IF e.source = target THEN Pass(suspended, TRUE)
           ELSE /\ stack' = Append(suspended,
                                   call(graph, e.source, top.discovered \cup {e.source}))
                /\ UNCHANGED <<graph, start, target, answer>>

\* All edges were looked at: any result counts, tentative or not.
Return ==
    /\ stack # <<>> /\ top.todo = {}
    /\ Pass(callers, top.any)

SearchStep == (\E e \in Edge : Skip(e) \/ Call(e)) \/ Return

-----------------------------------------------------------------------------
(***************************************************************************)
(* No call searches a node that one of its callers searches: the recursion *)
(* is at most as deep as the graph has nodes, cycles or not.               *)
(***************************************************************************)
NoNodeTwice == \A i, j \in DOMAIN stack : stack[i].node = stack[j].node => i = j

\* What n being in the set S follows from: a definite edge from S, or tentative edges
\* that all lead from S.
Leads(g, S, n) ==
    LET data == {e \in incoming(g, n) : e.kind = "Data"}
    IN  \/ \E e \in data : ~e.tentative /\ e.source \in S
        \/ /\ \E e \in data : e.tentative
           /\ \A e \in data : e.tentative => e.source \in S

\* n always depends on t: it is in each set that holds t and what follows.
Always(g, n, t) ==
    \A S \in SUBSET Node :
        t \in S /\ (\A m \in Node : Leads(g, S, m) => m \in S) => n \in S

(***************************************************************************)
(* "if there are 2 tentative incoming edges - from Node A and B- both A    *)
(* and B must individually be connected to target" (traverse.rs 186): the  *)
(* answer is yes only if the node always depends on the target.            *)
(***************************************************************************)
AlwaysRight == answer = {TRUE} => Always(graph, start, target)
=============================================================================
