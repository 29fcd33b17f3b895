---------------------------- MODULE PolicyContext ----------------------------
(***************************************************************************)
(* What a policy looks up in a program description that was written        *)
(* (paralegal-policy, context.rs): Context::new builds the index of        *)
(* markers, and the lookups go through it and the SPDGs.                   *)
(*                                                                         *)
(* A type that is marked has every marker.                                 *)
(***************************************************************************)
EXTENDS SpdgGeneration

GlobalNode(t, n) == [controller |-> t, node |-> n]

all_nodes_for_ctrl(t) == {GlobalNode(t, n) : n \in spdgs[t].nodes}

all_nodes == UNION {all_nodes_for_ctrl(t) : t \in DOMAIN spdgs}

\* NodeExt::types, has_type, and Context::srcs_with_type.
type_assigns_of(g) == type_assigns(g.controller, g.node)
has_type(g, ty) == ty \in type_assigns_of(g)
srcs_with_type(t, ty) == {g \in all_nodes_for_ctrl(t) : has_type(g, ty)}

\* The mutant of build_index_on_markers: the types are not chained to the nodes.
build_index_on_markersNodes(m) ==
    [nodes |-> UNION {{GlobalNode(t, n) : n \in {n \in spdgs[t].nodes : m \in spdgs[t].markers[n]}} :
                        t \in DOMAIN spdgs},
     types |-> {}]

\* build_index_on_markers: the targets of a marker.
build_index_on_markers(m) ==
    [nodes |-> UNION {{GlobalNode(t, n) : n \in {n \in spdgs[t].nodes : m \in spdgs[t].markers[n]}} :
                        t \in DOMAIN spdgs},
     types |-> description.type_info]

marked_nodes(m) == build_index_on_markers(m).nodes

nodes_marked_via_type(m) ==
    UNION {UNION {srcs_with_type(t, ty) : t \in DOMAIN spdgs} : ty \in build_index_on_markers(m).types}

nodes_marked_any_way(m) == marked_nodes(m) \cup nodes_marked_via_type(m)

\* has_marker.  A marker without targets is warned of, and no node has it.
has_marker(g, m) ==
    \/ g \in build_index_on_markers(m).nodes
    \/ type_assigns_of(g) \cap build_index_on_markers(m).types # {}

consuming_call_sites(g) == {e.at : e \in out_edges(spdgs[g.controller], g.node)}

\* inputs_of and outputs_of: the controller is the root of the call string.
inputs_of(cs) ==
    LET t == root(cs).function
    IN  {GlobalNode(t, e.from) : e \in {e \in spdgs[t].edges : e.at = cs}}

outputs_of(cs) ==
    LET t == root(cs).function
    IN  {GlobalNode(t, e.to) : e \in {e \in spdgs[t].edges : e.at = cs}}

-----------------------------------------------------------------------------
\* The type of a node's base place, as the program declares it.
declared_type(n) == program.ty[leaf(n.at).function][n.place.local]

\* What is known to go amiss on the way: see MarkersRight, place_type and
\* NodeTypesRight.
marked_amiss(g) ==
    \/ captured(g.node) \/ into_future_of(spdgs[g.controller], g.node)
    \/ place_type(g.controller, g.node) = {}
    \/ T!Recursive(declared_type(g.node))
    \/ types.kind[declared_type(g.node)] = "Alias"

(***************************************************************************)
(* From the source to the policy: a node has a marker, for has_marker and  *)
(* for the lookup by marker, exactly when the program marks a function     *)
(* that the node is an argument or the result of, or a type inside the     *)
(* node's.  And a call site that consumes a node has it among its inputs   *)
(* and something among its outputs.                                        *)
(***************************************************************************)
LookupsRight ==
    phase = "written" =>
        \A g \in all_nodes :
            /\ \A m \in Marker :
                /\ has_marker(g, m) <=> g \in nodes_marked_any_way(m)
                /\ ~marked_amiss(g) =>
                    (has_marker(g, m) <=>
                        \/ m \in markers_of(spdgs[g.controller], g.node)
                        \/ T!MarkedSubtypes(declared_type(g.node)) # {})
            /\ \A cs \in consuming_call_sites(g) : g \in inputs_of(cs) /\ outputs_of(cs) # {}
=============================================================================
