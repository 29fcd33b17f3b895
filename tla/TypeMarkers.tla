----------------------------- MODULE TypeMarkers -----------------------------
(***************************************************************************)
(* MarkerCtx::deep_type_markers (ann/db.rs) and the nodes that ask for it  *)
(* (GraphConverter::handle_node_types, ana/graph_converter.rs): a node of  *)
(* the dependence graph is of every marked type that its place's type has  *)
(* somewhere inside, and the markers of those types become the node's.     *)
(*                                                                         *)
(* A marked definition is named by its type: generic arguments matter only *)
(* in that they are parts.                                                 *)
(***************************************************************************)
EXTENDS Naturals, Sequences, Reachability

CONSTANTS
    Ty,             \* the types of the program's places
    Node,           \* nodes, told by the type of the base place and if there are projections
    TypeSystems     \* what a program may declare

\* "Compound" types are tuples, arrays, slices, pointers and references, "Leaf"
\* all that deep_type_markers does not look into.
TypeSystem ==
    [kind : [Ty -> {"Adt", "Compound", "Alias", "Leaf"}],
     parts : SUBSET (Ty \X Ty),     \* fields of all variants, elements, pointees
     marked : SUBSET Ty]            \* combined_markers is not empty

VARIABLES
    types,                                      \* the declared types
    graph, entry, value, stack, todo, asked,    \* MarkerDatabase::type_markers
    node,       \* the node being handled, {} when there is none
    handled,    \* the nodes make_spdg_impl is through with
    node_types  \* GraphConverter::types: node -> its marked types

cache == <<graph, entry, value, stack, todo, asked>>
vars == <<types, cache, node, handled, node_types>>

\* shallow_type_markers: only named types carry markers.
shallow_type_markers(t) ==
    IF t \in types.marked /\ types.kind[t] \in {"Adt", "Alias"} THEN {t} ELSE {}

\* The closure of deep_type_markers: an alias is given up on, a named or a
\* compound type has the markers of its parts.
own(ts, t) == IF t \in ts.marked /\ ts.kind[t] = "Adt" THEN {t} ELSE {}

\* The mutant of looked_into: containers hide what they hold.
looked_intoAdt(ts, t) == ts.kind[t] = "Adt"

looked_into(ts, t) == ts.kind[t] \in {"Adt", "Compound"}

type_graph(ts) ==
    [own |-> [t \in Ty |-> own(ts, t)],
     deps |-> {e \in ts.parts : looked_into(ts, e[1])}]

Cache == INSTANCE RecursiveCache WITH
    Key <- Ty, Elem <- Ty, Inputs <- {type_graph(ts) : ts \in TypeSystems}

NothingHandled ==
    /\ graph = type_graph(types)
    /\ Cache!Empty
    /\ node = {}
    /\ handled = {}
    /\ node_types = [n \in Node |-> {}]

\* make_spdg_impl comes to a node.
HandleNode(n) ==
    /\ node = {}
    /\ n \notin handled
    /\ node' = {n}
    /\ UNCHANGED <<types, cache, handled, node_types>>

\* type_is_marked(.., deep) for a type that is not cached yet.
Request(n) ==
    /\ n \in node
    /\ Cache!Query(n.ty)
    /\ UNCHANGED <<types, node, handled, node_types>>

Compute ==
    /\ Cache!Computing
    /\ UNCHANGED <<types, node, handled, node_types>>

\* handle_node_types: the deep types of the base place, and the shallow types
\* of its projections, for which determine_place_type takes the base place too.
node_types_of(n) ==
    Cache!read(n.ty) \cup (IF n.projected THEN shallow_type_markers(n.ty) ELSE {})

\* The types of the node are registered.
Register(n) ==
    /\ n \in node /\ stack = <<>>
    /\ entry[n.ty] = "Some"
    /\ node_types' = [node_types EXCEPT ![n] = node_types_of(n)]
    /\ handled' = handled \cup {n}
    /\ node' = {}
    /\ UNCHANGED <<types, cache>>

-----------------------------------------------------------------------------
\* The relation "has inside", which an unresolved alias keeps to itself.
HasInside == CutAfter(types.parts, {t \in Ty : types.kind[t] \in {"Alias", "Leaf"}})

\* The marked named types inside t, t included.
MarkedSubtypes(t) ==
    {s \in types.marked : types.kind[s] = "Adt" /\ Reaches(Ty, HasInside, t, s)}

Recursive(t) ==
    \E s \in Ty : Reaches(Ty, HasInside, t, s) /\
        \E p \in Successors(Ty, HasInside, s) : Reaches(Ty, HasInside, p, s)

(***************************************************************************)
(* "Return the (sub)types of this type that are marked." (type_is_marked,  *)
(* graph_converter.rs): a node is of no type that is not inside its own,   *)
(* or is the alias itself; and of all marked types inside its own when     *)
(* none of them is recursive, whichever types were asked for before.       *)
(***************************************************************************)
NodeTypesRight ==
    /\ \A n \in Node :
          node_types[n] \subseteq MarkedSubtypes(n.ty) \cup shallow_type_markers(n.ty)
    /\ \A n \in handled :
          ~Recursive(n.ty) => MarkedSubtypes(n.ty) \subseteq node_types[n]
=============================================================================
