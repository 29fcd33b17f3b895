--------------------------- MODULE SpdgGeneration ---------------------------
(***************************************************************************)
(* From the annotated functions of a crate to the program description that *)
(* policies are checked on: CollectingVisitor (discover.rs), SPDGGenerator *)
(* (ana/mod.rs), GraphConverter (ana/graph_converter.rs) and the driver's  *)
(* after_analysis (lib.rs).  For one target after the other the dependence *)
(* graph is constructed (PdgConstruction), its nodes are given their       *)
(* markers and endpoints, and their types are asked of the marker database *)
(* (TypeMarkers), whose cache all targets share.                           *)
(***************************************************************************)
EXTENDS PdgConstruction, FiniteSets

CONSTANTS Marker, Ty, TypeSystems

VARIABLES
    queue,          \* the targets still to be handled
    phase,          \* "construct", "types", "describe", and then how it ended
    spdgs,          \* target -> its SPDG, as far as it is there
    known_def_ids,
    description,    \* the ProgramDescription
    types, type_graph, type_entry, type_value, type_stack, type_todo, type_asked,
    type_node, type_handled, node_types     \* the variables of TypeMarkers

type_cache ==
    <<type_graph, type_entry, type_value, type_stack, type_todo, type_asked,
      type_node, type_handled, node_types>>
vars == <<program, construction_vars, queue, phase, spdgs, known_def_ids, description,
          types, type_cache>>

TyNode == [ty : Ty, projected : BOOLEAN]

T == INSTANCE TypeMarkers WITH
    Node <- TyNode, graph <- type_graph, entry <- type_entry, value <- type_value,
    stack <- type_stack, todo <- type_todo, asked <- type_asked, node <- type_node,
    handled <- type_handled

ASSUME TypeSystemsAssumption == TypeSystems \subseteq T!TypeSystem


target == Head(queue)

-----------------------------------------------------------------------------
(***************************************************************************)
(* Discovery: visit_fn for every function, in the order of the crate.      *)
(***************************************************************************)
\* The mutant of should_analyze_function: methods are passed over.
should_analyze_functionItem(p, f) == f \in p.analyze /\ p.parent[f] = None

should_analyze_function(p, f) == f \in p.analyze

functions_to_analyze(p) == SelectSeq(p.crate, LAMBDA f : should_analyze_function(p, f))

\* What is analyzed is a function, and what has a parent, and what that is.
ASSUME CrateAssumption ==
    \A p \in Programs : functions_to_analyze(p) \in Seq(Fn) /\ p.parent \in [Fn -> Fn \cup {None}]

-----------------------------------------------------------------------------
(***************************************************************************)
(* The markers of a node (node_annotations).                               *)
(***************************************************************************)
Annotation(m, on_return, on_argument) ==
    [marker |-> m, on_return |-> on_return, on_argument |-> on_argument]

get_parent(f) == program.parent[f]

\* defid_rewrite: the markers of a generator are those of its async function.
async_fns_of(f) == {g \in program.async : generator(g) = f}
defid_rewrite(f) == IF async_fns_of(f) = {} THEN f ELSE CHOOSE g \in async_fns_of(f) : TRUE
combined_markers(f) == program.annotations[defid_rewrite(f)]

\* The annotations of a function and of the trait's method that it implements.
annotations(f) ==
    combined_markers(f) \cup
    (IF get_parent(f) = None THEN {} ELSE combined_markers(get_parent(f)))

on_return(f) == {a.marker : a \in {a \in annotations(f) : a.on_return}}
on_argument(f, i) == {a.marker : a \in {a \in annotations(f) : i \in a.on_argument}}

\* The call at a location, {} if there is none.
calls_at(loc) ==
    IF is_real(loc.location) /\ loc.location \in DOMAIN code(loc.function)
    THEN {i \in {code(loc.function)[loc.location]} : i.op = "call"} ELSE {}

\* The function that a call's annotations are looked up for.  A closure that is called
\* through a shim resolves to the shim, which has the id of FnOnce::call_once.
called(c) == IF c.callee = None \/ c.shim THEN c.def ELSE c.callee

in_edges(g, n) == {e \in g.edges : e.to = n}
out_edges(g, n) == {e \in g.edges : e.from = n}

\* The mutant of needs_return_markers: what has no inputs is no return value.
needs_return_markersFed(g, n) ==
    \E e \in in_edges(g, n) : e.at = n.at /\ e.target_use = Return

needs_return_markers(g, n) ==
    \/ in_edges(g, n) = {}
    \/ \E e \in in_edges(g, n) : e.at = n.at /\ e.target_use = Return

node_annotations(g, n) ==
    LET at == leaf(n.at)
        f == at.function
    IN  CASE at.location = Start /\ is_arg(f, n.place) -> on_argument(f, n.place.local - 1)
          [] at.location = End /\ n.place.local = RETURN_PLACE -> on_return(f)
          [] OTHER -> UNION {
                (IF needs_return_markers(g, n) THEN on_return(called(c)) ELSE {}) \cup
                UNION {on_argument(called(c), e.source_use[2]) :
                        e \in {e \in out_edges(g, n) : e.source_use[1] = "Argument"}} :
                c \in calls_at(at)}

\* The functions that annotations were looked up for.
looked_up(n) ==
    LET at == leaf(n.at)
        f == IF \/ at.location = Start /\ is_arg(at.function, n.place)
                \/ at.location = End /\ n.place.local = RETURN_PLACE
             THEN {at.function}
             ELSE {called(c) : c \in calls_at(at)}
    IN  f \cup ({get_parent(h) : h \in f} \ {None})

\* try_as_root: the body of an async entry point is one call below it.
try_as_root(t, cs) ==
    IF determine_async(t) /\ Len(cs) = 2 THEN {cs[2]}
    ELSE IF is_at_root(cs) THEN {leaf(cs)} ELSE {}

root_nodes(t, g, location) ==
    {n \in nodes_of(g) : \E l \in try_as_root(t, n.at) : l.location = location}

\* determine_place_type: what matters is the base place.  The locals of functions that
\* an async entry point calls are taken for its own captured arguments.
place_type(t, n) ==
    IF determine_async(t) /\ n.place.local = 1 /\ Len(n.at) = 3 /\ n.place.projection = <<>>
    THEN {} ELSE {program.ty[leaf(n.at).function][n.place.local]}

\* What handle_node_types asks for.
ty_nodes(t, n) ==
    {[ty |-> ty, projected |-> n.place.projection # <<>>] : ty \in place_type(t, n)}

\* The mutant of resolve_internal: stubs are not applied.
resolve_internalUnstubbed(cs) ==
    LET i == code(leaf(cs).function)[leaf(cs).location]
    IN  IF i.op = "assign" THEN i.rvalue.def ELSE called(i)

\* CallStringResolver::resolve_internal: the function called, or made a future of, at cs.
resolve_internal(cs) ==
    LET i == code(leaf(cs).function)[leaf(cs).location]
    IN  CASE i.op = "assign" -> i.rvalue.def
          [] i.op = "call" /\ program.stub[i.def] # None -> program.stub[i.def]
          [] OTHER -> called(i)

\* CallStringResolver::resolve: the function that cs is in, found from its caller.
resolve(t, cs) ==
    IF is_at_root(cs) \/ (Len(cs) = 2 /\ determine_async(t)) THEN leaf(cs).function
    ELSE resolve_internal(callers(cs))

SPDG(t, g) ==
    [nodes |-> nodes_of(g), edges |-> g.edges,
     markers |-> [n \in nodes_of(g) |-> node_annotations(g, n)],
     arguments |-> root_nodes(t, g, Start),
     return_ |-> root_nodes(t, g, End)]

type_assigns(t, n) == UNION {node_types[y] : y \in ty_nodes(t, n)}

-----------------------------------------------------------------------------
NoDescription == [instruction_info |-> {}, def_info |-> {}, type_info |-> {}]

NothingGenerated ==
    /\ NothingConstructed
    /\ T!NothingHandled
    /\ queue = functions_to_analyze(program)
    /\ phase = "construct"
    /\ spdgs = [t \in {} |-> {}]
    /\ known_def_ids = {}
    /\ description = NoDescription

Init == program \in Programs /\ types \in TypeSystems /\ NothingGenerated

generation == <<queue, spdgs, known_def_ids, description>>

\* new_with_flowistry asks for the target's graph.
StartTarget ==
    /\ phase = "construct" /\ queue # <<>>
    /\ ConstructRoot(root_of(target))
    /\ UNCHANGED <<generation, phase, types, type_cache>>

\* A step of the construction.  A panic ends the program.
ConstructStep ==
    /\ phase = "construct"
    /\ ConstructionStep
    /\ phase' = IF panicked' THEN "panicked" ELSE phase
    /\ UNCHANGED <<generation, types, type_cache>>

\* make_spdg_impl registers every node with its annotations and every edge.
Convert ==
    /\ phase = "construct" /\ queue # <<>> /\ stack = <<>>
    /\ entry[root_of(target)] = "Some"
    /\ LET g == construct_graph(target)
       IN  /\ spdgs' = [t \in DOMAIN spdgs \cup {target} |->
                            IF t = target THEN SPDG(t, g) ELSE spdgs[t]]
           /\ known_def_ids' = known_def_ids \cup UNION {looked_up(n) : n \in nodes_of(g)}
    /\ phase' = "types"
    /\ UNCHANGED <<program, construction_vars, queue, description, types, type_cache>>

asked_types == UNION {ty_nodes(target, n) : n \in spdgs[target].nodes}

\* The types of the nodes, by way of the marker database.
TypeStep ==
    /\ phase = "types"
    /\ T!Compute \/ \E y \in asked_types : T!HandleNode(y) \/ T!Request(y) \/ T!Register(y)
    /\ UNCHANGED <<program, construction_vars, generation, phase>>

\* The SPDG of the target is complete.
FinishTarget ==
    /\ phase = "types" /\ asked_types \subseteq type_handled
    /\ known_def_ids' = known_def_ids \cup UNION {node_types[y] : y \in asked_types}
    /\ queue' = Tail(queue)
    /\ phase' = IF Tail(queue) = <<>> THEN "describe" ELSE "construct"
    /\ UNCHANGED <<program, construction_vars, spdgs, description, types, type_cache>>

\* collect_instruction_info: every location of a call string.
collect_instruction_info ==
    UNION {UNION {locations(cs) : cs \in mentioned_call_string(spdgs[t])} : t \in DOMAIN spdgs}

\* make_program_description; the driver writes it unless an error was reported.
Describe ==
    /\ phase = "describe" \/ (phase = "construct" /\ queue = <<>>)
    /\ LET instructions == collect_instruction_info
       IN  description' =
            [instruction_info |-> instructions,
             def_info |-> known_def_ids \cup {l.function : l \in instructions} \cup types.marked,
             type_info |-> types.marked]
    /\ phase' = IF errors THEN "aborted" ELSE "written"
    /\ UNCHANGED <<program, construction_vars, queue, spdgs, known_def_ids, types, type_cache>>

Ended == phase \in {"written", "aborted", "panicked"}

\* The process is gone.
Exit == Ended /\ UNCHANGED vars

Next == StartTarget \/ ConstructStep \/ Convert \/ TypeStep \/ FinishTarget \/ Describe \/ Exit

(***************************************************************************)
(* One thread runs until it is done: weak fairness of all steps, with the  *)
(* condition under which one is enabled written out, which is that the     *)
(* program has not ended.                                                  *)
(***************************************************************************)
Fairness == []<>Ended \/ []<><<Next>>_vars

Spec == Init /\ [][Next]_vars /\ Fairness

-----------------------------------------------------------------------------

\* Whether the call at cs is inlined in a graph: then there is something below it.
is_inlined(g, cs) ==
    \E n \in nodes_of(g) : Len(n.at) > Len(cs) /\ \A i \in DOMAIN cs : n.at[i] = cs[i]

\* The calls of the desugaring of async functions are assignments.
stands_in(f, c) ==
    /\ c.callee # None
    /\ c.callee \in approximated \/ (is_async(c.callee) /\ on_inline(f, c) # "Skip")

\* What the program says of a node: the functions whose return value it is, and the
\* functions and argument numbers for which it is the argument of a call.
returns_of(g, n) ==
    LET at == leaf(n.at)
    IN  {f \in {at.function} : at.location = End /\ n.place.local = RETURN_PLACE} \cup
        {called(c) : c \in {c \in calls_at(at) :
            IF is_inlined(g, n.at) THEN n.place.local = c.dest.local ELSE n.place = c.dest}}

\* A generator has captured what its async function was called with.
parameter_of(n) ==
    IF async_fns_of(leaf(n.at).function) = {} THEN {n.place.local - 1}
    ELSE {i \in 0 .. 9 : n.place.projection # <<>> /\ Head(n.place.projection) = Field(i)}

arguments_of(g, n) ==
    LET at == leaf(n.at)
    IN  {at.function} \X (IF at.location = Start THEN parameter_of(n) ELSE {}) \cup
        UNION {{<<called(c), i - 1>> : i \in {i \in DOMAIN c.args : c.args[i] = n.place}} :
                c \in {c \in calls_at(at) : ~is_inlined(g, n.at) /\ ~stands_in(at.function, c)}}

markers_of(g, n) ==
    (UNION {on_return(f) : f \in returns_of(g, n)}) \cup
    (UNION {on_argument(a[1], a[2]) : a \in arguments_of(g, n)})

\* What an async function was given.
captured(n) == leaf(n.at).location = Start /\ async_fns_of(leaf(n.at).function) # {}

\* A value that goes into the future of an async call.
into_future_of(g, n) ==
    \E e \in out_edges(g, n) : \E c \in calls_at(leaf(e.at)) : stands_in(leaf(e.at).function, c)

(***************************************************************************)
(* The markers of a node are those of the functions that it is a return    *)
(* value or an argument of, be they its own or their trait's: none is lost *)
(* or invented on the way through inlining and the edges they are told by. *)
(* What async functions are given is left to ArgumentMarkersRight, and so  *)
(* is what more than the right markers the values in a future get.         *)
(***************************************************************************)
MarkersRight ==
    \A t \in DOMAIN spdgs : \A n \in {n \in spdgs[t].nodes : ~captured(n)} :
        /\ markers_of(spdgs[t], n) \subseteq spdgs[t].markers[n]
        /\ into_future_of(spdgs[t], n) \/ spdgs[t].markers[n] \subseteq markers_of(spdgs[t], n)

(***************************************************************************)
(* "The annotation should apply to these arguments" (MarkerAnnotation,     *)
(* paralegal-spdg/src/lib.rs): the markers of arguments are on the nodes   *)
(* that are those arguments, of a target or of a call, and on no other.    *)
(***************************************************************************)
ArgumentMarkersRight ==
    \A t \in DOMAIN spdgs : \A n \in spdgs[t].nodes :
        spdgs[t].markers[n] = markers_of(spdgs[t], n)

\* The last call on the way to cs is one of a closure through a shim.
through_shim(cs) ==
    Len(cs) > 1 /\ \E c \in calls_at(leaf(callers(cs))) : c.shim

(***************************************************************************)
(* The call strings of a graph are real (CallStringsReal), those of an     *)
(* SPDG start in its target, which is how policies find the SPDG again,    *)
(* and the resolver finds "return.def_id() == cs.leaf().function"          *)
(* (CallStringResolver::resolve), if no shim is passed through.            *)
(***************************************************************************)
CallStringsResolve ==
    /\ CallStringsReal
    /\ \A t \in DOMAIN spdgs : \A cs \in mentioned_call_string(spdgs[t]) :
        /\ root(cs).function = t
        /\ through_shim(cs) \/ resolve(t, cs) = leaf(cs).function

\* A policy looks up the instruction of every node and edge, the definition of every
\* function and type it comes across, and the functions of the markers.
needs_info(s) ==
    UNION {locations(cs) : cs \in mentioned_call_string(s)}

(***************************************************************************)
(* A written description has all that a policy can look up: the            *)
(* instructions at all call strings, the definitions of their functions,   *)
(* of the types of the nodes and of some function behind each marker, and  *)
(* every type that is assigned is described (type_info_sanity_check).      *)
(* It has every target's SPDG, and no reported error goes unnoticed.       *)
(***************************************************************************)
DescriptionComplete ==
    phase = "written" =>
        /\ ~\E f \in built : \E l \in calls(f) : reported(f, code(f)[l])
        /\ DOMAIN spdgs = program.analyze
        /\ \A t \in DOMAIN spdgs :
            /\ needs_info(spdgs[t]) \subseteq description.instruction_info
            /\ {l.function : l \in needs_info(spdgs[t])} \subseteq description.def_info
            /\ \A n \in spdgs[t].nodes :
                /\ type_assigns(t, n) \subseteq description.type_info \cap description.def_info
                /\ \A m \in spdgs[t].markers[n] : \E f \in description.def_info \cap Fn :
                        \E a \in combined_markers(f) : a.marker = m

\* A body that mutates nothing, such as an endless loop.
mutates_nothing(f) == code(f) = <<>>

(***************************************************************************)
(* The analysis of every program ends: recursion, through whatever call,   *)
(* async function or stub, is cut, and the types of every node are found.  *)
(* It ends with a description, or without one if an error was reported or  *)
(* some body mutates nothing.                                              *)
(***************************************************************************)
Generated ==
    <>(\/ phase \in {"written", "aborted"}
       \/ phase = "panicked" /\ \E f \in Fn : entry[f] = "None" /\ mutates_nothing(f))

\* Also across targets (TypeMarkers).
NodeTypesRight == T!NodeTypesRight
=============================================================================
