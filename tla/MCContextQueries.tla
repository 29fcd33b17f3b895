-------------------------- MODULE MCContextQueries --------------------------
(***************************************************************************)
(* Questions for TLC, in families.  For a query on flows the control edges *)
(* of a graph lead from each node to the next, and its data edges are any  *)
(* set; for one on dependence two of three nodes are joined by a definite  *)
(* data edge, a tentative one or only a control edge, in each direction.   *)
(*                                                                         *)
(* The index is built of all data graphs over four nodes without self      *)
(* edges (a self edge sets a bit the diagonal already has).  Four nodes    *)
(* are the fewest with which one pass may leave a row incomplete, as for   *)
(* the path n1, n4, n2, n3.                                                *)
(***************************************************************************)
EXTENDS ContextQueries

CONSTANTS n1, n2, n3, n4, c1, c2

Loopless(V) == {p \in V \X V : p[1] # p[2]}
Chain == {<<n1, n2>>, <<n2, n3>>, <<n3, n1>>}
Graph(data, control) == [k \in EdgeKind |-> IF k = "Data" THEN data ELSE control]
Ring == {<<n1, n2>>, <<n2, n3>>, <<n3, n4>>, <<n4, n1>>}
Small == {Graph(d, Chain) : d \in SUBSET Loopless({n1, n2, n3})}

AskFor(kind, G, F, T) ==
    [kind : {kind}, spdg : G, sel : EdgeSelection, use_index : {FALSE},
     same_controller : {TRUE}, from : F, to : T, sources : {{}}]

Clusters == {{}, {n1}, {n1, n2}}

FlowsToQueries ==
    {[q EXCEPT !.use_index = c[1], !.same_controller = c[2]] :
        q \in AskFor("flows_to", Small, Clusters, {{}, {n1}, {n2}, {n2, n3}}),
        c \in {<<FALSE, FALSE>>, <<FALSE, TRUE>>, <<TRUE, TRUE>>}}

InfluenceQueries ==
    {[q EXCEPT !.kind = k, !.use_index = i] :
        q \in AskFor("influencers", Small, Clusters, {{}}),
        k \in {"influencers", "influencees"}, i \in BOOLEAN}

\* The row of n1 is read from the index of every graph.
Indexed == {Graph(d, Ring) : d \in SUBSET Loopless(Node)}
IndexQueries ==
    {[q EXCEPT !.sel = "Data", !.use_index = TRUE] :
        q \in AskFor("influencees", Indexed, {{n1}}, {{}})}

Control == {Graph(d, c) : d \in SUBSET Loopless({n1, n2, n3}),
                          c \in SUBSET {<<n1, n2>>, <<n2, n3>>, <<n2, n4>>}}
CtrlQueries ==
    {[q EXCEPT !.sel = "Both", !.same_controller = s] :
        q \in AskFor("has_ctrl_influence", Control, {{n1}, {n1, n2}}, {{n3}, {n3, n4}}), s \in BOOLEAN}

IndexedCtrlQueries ==
    {[q EXCEPT !.sel = "Both", !.use_index = TRUE] :
        q \in AskFor("has_ctrl_influence", Control, {{n1}}, {{n3}, {n3, n4}})}

\* Four nodes: two ways of the same length, and a longer one.
PathQueries ==
    {[q EXCEPT !.sel = "Data"] :
        q \in AskFor("shortest_path", {Graph(d, Chain) : d \in SUBSET Loopless(Node)},
                  {{n1}}, {{n1}, {n4}})}

CyclicPathQueries ==
    {[q EXCEPT !.same_controller = s] :
        q \in AskFor("shortest_path",
                  {Graph(d, Chain) : d \in SUBSET ({n1, n2, n3} \X {n1, n2, n3})},
                  {{n1}}, {{n3}}),
        s \in BOOLEAN}

RootQueries ==
    {[q EXCEPT !.sources = S] :
        q \in AskFor("roots", {Graph(d, Chain) : d \in SUBSET ({n1, n2, n3} \X {n1, n2, n3})},
                  {{}}, {{}}),
        S \in {{n1, n2, n3}, {n1, n3}, {n2}, {}}}

WhereQueries == AskFor("roots_where", Small, SUBSET {n1, n2, n3}, {{}})

MCQueries ==
    UNION {FlowsToQueries, InfluenceQueries, IndexQueries, CtrlQueries, IndexedCtrlQueries,
           PathQueries, CyclicPathQueries, RootQueries, WhereQueries}

-----------------------------------------------------------------------------
\* Two sources, two sinks and no sink, in two controllers with different graphs.
FlowExamples ==
    [kind : {"any_flows"},
     spdg : {(c1 :> Graph(d, Chain)) @@ (c2 :> Graph({<<n2, n1>>}, Chain)) :
                d \in SUBSET Loopless({n1, n2, n3})},
     sel : {"Data", "Control"}, use_index : BOOLEAN,
     from : {<<<<c1, n1>>, <<c1, n2>>>>, <<<<c2, n2>>, <<c1, n3>>>>},
     to : {<<>>, <<<<c1, n3>>, <<c2, n1>>>>, <<<<c2, n3>>, <<c1, n2>>, <<c1, n1>>>>}]

Joined(kind, tentative, P) ==
    {[source |-> p[1], target |-> p[2], kind |-> kind, tentative |-> tentative] : p \in P}

DependenceGraphs ==
    {Joined("Data", FALSE, (Loopless({n1, n2, n3}) \cap S) \ T) \cup Joined("Data", TRUE, T)
         \cup Joined("Control", FALSE, Loopless({n1, n2, n3}) \ (S \cup T))
         \cup Joined("Data", FALSE, I) :
        S \in SUBSET Loopless({n1, n2, n3}), T \in SUBSET Loopless({n1, n2, n3}),
        I \in {{}, {<<n1, n1>>}}}

\* One influencer that is a cluster, and several in order.
DependenceExamples ==
    {[kind |-> "any_dependence", graph |-> (c1 :> g @@ c2 :> {}),
      from |-> Global(<<c1, n1>>), influencers |-> i] :
        g \in DependenceGraphs,
        i \in {<<Global(<<c1, n1>>)>>, <<Global(<<c1, n2>>), Global(<<c1, n3>>)>>,
               <<Global(<<c2, n1>>), Global(<<c1, n3>>)>>}} \cup
    {[kind |-> "any_dependence", graph |-> (c1 :> Joined("Data", FALSE, Chain) @@ c2 :> {}),
      from |-> [controller |-> c1, nodes |-> f], influencers |-> <<[controller |-> c1, nodes |-> i]>>] :
        f \in {<<>>, <<n1, n2>>}, i \in {<<>>, <<n4, n3>>, <<n3, n4>>}}

MCQuestions ==
    UNION {{[kind |-> "query", query |-> q] : q \in MCQueries}, FlowExamples, DependenceExamples}

-----------------------------------------------------------------------------
\* n1 has two tentative edges, of which one comes from n2.
TentativeQuestion ==
    {[kind |-> "any_dependence",
      graph |-> (c1 :> Joined("Data", TRUE, {<<n2, n1>>, <<n3, n1>>}) @@ c2 :> {}),
      from |-> Global(<<c1, n1>>), influencers |-> <<Global(<<c1, n2>>)>>]}
=============================================================================
