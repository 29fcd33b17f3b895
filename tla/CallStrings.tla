----------------------------- MODULE CallStrings -----------------------------
(***************************************************************************)
(* Call strings (flowistry_pdg/src/pdg.rs): where in the call graph an     *)
(* instruction is.  A call string is the locations of the calls on the way *)
(* from an entry point, then the location itself, its leaf.  It is never   *)
(* empty, and interned: equal strings are the same.                        *)
(***************************************************************************)
EXTENDS Naturals, Sequences

CONSTANTS Fn, None, Start, End

\* RichLocation: an instruction of a body, or a point before or after all of them.
is_real(l) == l \notin {Start, End}

GlobalLocation(f, l) == [function |-> f, location |-> l]

single(loc) == <<loc>>
leaf(cs) == cs[Len(cs)]
root(cs) == Head(cs)
is_at_root(cs) == Len(cs) = 1
push(cs, loc) == Append(cs, loc)
push_front(cs, loc) == <<loc>> \o cs

\* The call string of the call of the function that the leaf is in.
caller(cs) == IF Len(cs) = 1 THEN None ELSE SubSeq(cs, 1, Len(cs) - 1)

\* The calls on the way to the leaf.
callers(cs) == SubSeq(cs, 1, Len(cs) - 1)

\* All that occurs in a call string.
locations(cs) == {cs[i] : i \in DOMAIN cs}
functions(cs) == {cs[i].function : i \in DOMAIN cs}

-----------------------------------------------------------------------------
\* Nodes and edges of dependence graphs (graph.rs).  Spans, kinds and
\* tentativeness play no part here; PdgConstruction says why.
Operand == <<"Operand", 0>>
Argument(i) == <<"Argument", i>>
Assign == <<"Assign", 0>>
Return == <<"Return", 0>>
MutArg(i) == <<"MutArg", i>>

DepNode(p, cs) == [place |-> p, at |-> cs]
DepEdge(n, o, cs, src, tgt) ==
    [from |-> n, to |-> o, at |-> cs, source_use |-> src, target_use |-> tgt]

EmptyGraph == [nodes |-> {}, edges |-> {}]

\* mentioned_call_string, and the nodes that only edges have.
nodes_of(g) == g.nodes \cup UNION {{e.from, e.to} : e \in g.edges}
mentioned_call_string(g) == {n.at : n \in nodes_of(g)} \cup {e.at : e \in g.edges}

push_node(n, loc) == [n EXCEPT !.at = push_front(n.at, loc)]

\* push_call_string_root: the graph as it is seen from a call at loc.
push_call_string_root(g, loc) ==
    [nodes |-> {push_node(n, loc) : n \in g.nodes},
     edges |-> {[e EXCEPT !.from = push_node(@, loc), !.to = push_node(@, loc),
                          !.at = push_front(@, loc)] : e \in g.edges}]
=============================================================================
