--------------------------- MODULE PdgConstruction ---------------------------
(***************************************************************************)
(* MemoPdgConstructor (flowistry_pdg_construction/construct.rs and         *)
(* local_analysis.rs): the dependence graph of a function has the graphs   *)
(* of the functions it calls inlined.  The graph of a function is built    *)
(* once, when a first call asks for it; a call to a function whose graph   *)
(* is still being built is recursive and approximated instead.             *)
(*                                                                         *)
(* Bodies have no branches, one reference at a time and no boxes: control  *)
(* flow, aliasing and tentativeness are the subject of LocalAnalysis, this *)
(* module is about calls.  Generic arguments are left out, a function is   *)
(* an instance of itself; of a call that cannot be resolved it is known    *)
(* whether some of them are dynamic.                                       *)
(***************************************************************************)
EXTENDS AsyncSupport, Reachability, FiniteSets

CONSTANT Programs

\* Bodies are sequences of instructions; what is called or replaces it, and what the
\* future of an async function runs, are functions.
ASSUME ProgramsAssumption ==
    \A p \in Programs :
        /\ p.stub \in [Fn -> Fn \cup {None}]
        /\ DOMAIN p.code = Fn
        /\ \A f \in Fn : /\ Len(p.code[f]) \in Nat
                         /\ DOMAIN p.code[f] = 1 .. Len(p.code[f])
                         /\ \A l \in DOMAIN p.code[f] :
                                p.code[f][l].op = "call" =>
                                    /\ p.code[f][l].callee \in Fn \cup {None}
                                    /\ p.code[f][l].def \in Fn
        /\ \A f \in p.async \cup p.async_trait : generator_of(p.code[f]) \in Fn

ASSUME NoneAssumption == None \notin Fn

\* No instruction is where a body starts or ends.
ASSUME LocationsAssumption ==
    /\ Start # End
    /\ \A p \in Programs : \A f \in Fn : \A l \in DOMAIN p.code[f] : is_real(l)

VARIABLES
    program,    \* the analysed program and the judge's opinion of it
    entry,      \* pdg_cache: function -> is it in the map, as None or as Some?
    pdg,        \* pdg_cache: the graphs
    stack,      \* the LocalAnalysis under way, innermost last
    errors,     \* an error was reported (Session::span_err)
    panicked    \* check_invariants found a graph without nodes

construction_vars == <<entry, pdg, stack, errors, panicked>>

code(f) == program.code[f]
top == stack[Len(stack)]
is_arg(f, p) == p.local \in 1 .. program.argc[f]

\* TyCtxt::asyncness; functions of #[async_trait] are not async themselves.
is_async(f) == f \in program.async
determine_async(f) == f \in program.async \cup program.async_trait

(***************************************************************************)
(* What becomes of a call.                                                 *)
(***************************************************************************)
classify_call_kind(f, c) ==
    CASE c.shim -> [kind |-> "Indirect", once_shim |-> TRUE]
      [] ~c.shim /\ c.poll -> find_async_args(code(f), c.args)
      [] ~c.shim /\ ~c.poll /\ c.callee \in program.closure ->
            [kind |-> "Indirect", once_shim |-> FALSE]
      [] OTHER -> [kind |-> "Direct"]

\* InlineJudge::should_inline, as MarkerReachability has it: for the poll of an async
\* function the judge is asked about that function.
marker_target(kind, c) ==
    IF kind.kind = "AsyncPoll" /\ kind.parent # None THEN kind.parent ELSE c.callee

\* Stub::apply fails if a closure were to take the place of other arguments.
applies(c) == program.stub[c.callee] \in program.closure => Len(c.args) = 1

\* MyCallback::on_inline.
on_inline(f, c) ==
    LET kind == classify_call_kind(f, c)
        t == marker_target(kind, c)
    IN  CASE program.stub[t] # None /\ kind.kind # "AsyncPoll" /\ applies(c) -> "Replace"
          [] program.stub[t] # None /\ ~(kind.kind # "AsyncPoll" /\ applies(c)) -> "Skip"
          [] program.stub[t] = None /\ t \in program.skip -> "Skip"
          [] OTHER -> "NoSkip"

approximated == program.new_unchecked \cup program.into_future

\* Calls that cannot be resolved, and stubs that do not fit, are reported, and the call
\* is approximated; with dynamic generic arguments there is only a warning.
reported(f, c) ==
    IF c.callee = None THEN ~c.dynamic
    ELSE /\ c.callee \notin approximated
         /\ program.stub[c.callee] # None /\ ~c.poll /\ ~applies(c)

\* The function whose graph determine_call_handling asks for, if it comes to that.
wanted(f, c) ==
    IF \/ c.callee = None
       \/ c.callee \in approximated \cup program.virtual
       \/ is_async(c.callee)
       \/ on_inline(f, c) = "Skip"
    THEN None
    ELSE IF on_inline(f, c) = "Replace" THEN program.stub[c.callee] ELSE c.callee

\* The mutant of determine_call_handling: only what the target itself calls is inlined.
determine_call_handlingShallow(f, c) ==
    CASE wanted(f, c) # None /\ entry[wanted(f, c)] = "Some" /\ Len(stack) = 1 -> "Ready"
      [] c.callee # None /\ c.callee \in approximated -> "ApproxAsyncSM"
      [] c.callee # None /\ is_async(c.callee) /\ on_inline(f, c) # "Skip" -> "ApproxAsyncFn"
      [] OTHER -> "None"

\* determine_call_handling, once the wanted graph was asked for: "None" is a call that
\* is approximated by its signature.
determine_call_handling(f, c) ==
    CASE wanted(f, c) # None /\ entry[wanted(f, c)] = "Some" -> "Ready"
      [] c.callee # None /\ c.callee \in approximated -> "ApproxAsyncSM"
      [] c.callee # None /\ is_async(c.callee) /\ on_inline(f, c) # "Skip" -> "ApproxAsyncFn"
      [] OTHER -> "None"

calling_convention(f, c) ==
    CASE on_inline(f, c) # "Replace" -> from_call_kind(classify_call_kind(f, c), c.args)
      [] on_inline(f, c) = "Replace" /\ program.stub[c.callee] \in program.closure ->
            Indirect(FALSE, c.args[1], c.args[1])
      [] OTHER -> Direct(c.args)

\* PlaceTranslator: stubs make translations imprecise.
translated(f, c, child) ==
    translate_to_parent(calling_convention(f, c), c.dest, on_inline(f, c) # "Replace", child)

-----------------------------------------------------------------------------
(***************************************************************************)
(* The state of a LocalAnalysis: the nodes of the last mutations.          *)
(***************************************************************************)
is_indirect(p) == \E i \in DOMAIN p.projection : p.projection[i] = Deref
refs_in_projection(p) ==
    {Place(p.local, SubSeq(p.projection, 1, i - 1)) :
        i \in {i \in DOMAIN p.projection : p.projection[i] = Deref}}

\* Arguments behind references are compared by their local only.
is_conflict(f, place, alias) ==
    IF is_indirect(place) /\ is_arg(f, place) THEN place.local = alias.local
    ELSE Conflict(place, alias)

\* find_data_inputs: where the value of a place may come from.
find_data_inputs(f, state, input) ==
    UNION {{n \in state : is_conflict(f, n.place, alias)} \cup
           (IF is_arg(f, alias) THEN {DepNode(alias, single(GlobalLocation(f, Start)))} ELSE {}) :
              alias \in UNION {aliases(code(f), p) : p \in {input} \cup refs_in_projection(input)}}

find_outputs(f, p, at) == {DepNode(q, at) : q \in aliases(code(f), p)}

\* apply_mutation, for all that an instruction mutates.
apply_mutation(f, state, ps, at) ==
    LET outputs == UNION {find_outputs(f, p, at) : p \in ps}
    IN  {n \in state : \A o \in outputs : n.place # o.place} \cup outputs

\* The edges from the inputs of a mutation to the nodes of what it mutates.
data_edges(f, state, m, at) ==
    UNION {{DepEdge(n, o, at, i[2], m.reason) :
                n \in find_data_inputs(f, state, i[1]), o \in find_outputs(f, m.mutated, at)} :
            i \in m.inputs}

\* The mutant of register_mutation: what has no inputs gets no node.
register_mutationFed(f, state, mutations, at) ==
    LET edges == UNION {data_edges(f, state, m, at) : m \in mutations}
    IN  [nodes |-> {e.to : e \in edges}, edges |-> edges]

\* The graph that register_mutation_with_tentativeness makes of mutations.
register_mutation(f, state, mutations, at) ==
    [nodes |-> UNION {find_outputs(f, m.mutated, at) : m \in mutations},
     edges |-> UNION {data_edges(f, state, m, at) : m \in mutations}]

Join(g, h) == [nodes |-> g.nodes \cup h.nodes, edges |-> g.edges \cup h.edges]

-----------------------------------------------------------------------------
(***************************************************************************)
(* Inlining (handle_as_inline, handle_call).                               *)
(***************************************************************************)
\* as_arg: the nodes of a graph that a caller has places for.
parentable(f, n, location) ==
    n.at = single(GlobalLocation(f, location)) /\ n.place.local \in 0 .. program.argc[f]
parentable_srcs(f) == {n \in {e.from : e \in pdg[f].edges} : parentable(f, n, Start)}
parentable_dsts(f) == {n \in {e.to : e \in pdg[f].edges} : parentable(f, n, End)}

\* TargetUse of what a function returns or leaves in its arguments.
returned_as(p) == IF p.local = RETURN_PLACE THEN Return ELSE MutArg(p.local - 1)

\* What an inlined call mutates, by node of the child.
mutated_by(f, c) ==
    UNION {{d} \X translated(f, c, d.place) : d \in parentable_dsts(wanted(f, c))}

\* The child's graph, with edges into its arguments and out of its results.
handle_as_inline(f, c, state, at) ==
    LET child == push_call_string_root(pdg[wanted(f, c)], leaf(at))
        into == UNION {UNION {{s} \X find_data_inputs(f, state, p) :
                                p \in translated(f, c, s.place)} :
                            s \in parentable_srcs(wanted(f, c))}
        out == UNION {{d[1]} \X find_outputs(f, d[2], at) : d \in mutated_by(f, c)}
    IN  [nodes |-> child.nodes \cup {d[2] : d \in out}
            \cup {push_node(s, leaf(at)) :
                    s \in {s \in parentable_srcs(wanted(f, c)) : translated(f, c, s.place) # {}}},
         edges |-> child.edges
            \cup {DepEdge(d[2], push_node(d[1], leaf(at)), at, Operand, Assign) : d \in into}
            \cup {DepEdge(push_node(d[1], leaf(at)), d[2], at, Operand, returned_as(d[1].place)) :
                    d \in out}]

\* The assignment that stands for a call of the desugaring of async functions.
approximation(f, c) ==
    CASE determine_call_handling(f, c) = "ApproxAsyncFn" -> Tuple(c.args)
      [] c.callee \in program.new_unchecked -> approximate_new_unchecked(c.args)
      [] OTHER -> approximate_into_future(c.args, c.fields)

\* The places that an instruction mutates (apply_statement_effect, handle_call).
effect(f, i) ==
    CASE i.op = "assign" -> {m.mutated : m \in visit_assign(i.dest, i.rvalue)}
      [] i.op = "call" /\ determine_call_handling(f, i) = "Ready" ->
            {d[2] : d \in mutated_by(f, i)}
      [] i.op = "call" /\ determine_call_handling(f, i) = "None" -> places(i.args) \cup {i.dest}
      [] OTHER -> {m.mutated : m \in visit_assign(i.dest, approximation(f, i))}

\* What an instruction adds to the graph.  Calls that are not inlined are visited before
\* and after their effect; the assignment that stands for an async call is registered
\* too, but its call is not taken for inlined.
visited(f, i, state, at) ==
    LET after == apply_mutation(f, state, effect(f, i), at)
        modular == Join(register_mutation(f, state, combine_before(i.args), at),
                        register_mutation(f, after, combine_after(i.args, i.dest), at))
    IN  CASE i.op = "assign" -> register_mutation(f, state, visit_assign(i.dest, i.rvalue), at)
          [] i.op = "call" /\ determine_call_handling(f, i) = "Ready" ->
                handle_as_inline(f, i, state, at)
          [] i.op = "call" /\ determine_call_handling(f, i) = "None" -> modular
          [] OTHER -> Join(modular, register_mutation(f, state,
                                        visit_assign(i.dest, approximation(f, i)), at))

\* construct_partial_with_tentativeness: what is returned or left in arguments flows to the end.
returns(f, state) ==
    LET ret == single(GlobalLocation(f, Len(code(f)) + 1))
        end == single(GlobalLocation(f, End))
    IN  {DepEdge(n, DepNode(n.place, end), ret, Operand, returned_as(n.place)) :
            n \in {n \in state : n.place.local \in 0 .. program.argc[f]}}

-----------------------------------------------------------------------------

\* LocalAnalysis::new.  The analysis first iterates to the fixpoint, which straight-line
\* code has after one pass, and then visits the instructions.
Frame(f) ==
    [fn |-> f, pass |-> "iterate", at |-> 1, state |-> {}, graph |-> EmptyGraph, handled |-> <<>>]

instruction(fr) == code(fr.fn)[fr.at]
at_end(fr) == fr.at > Len(code(fr.fn))
here(fr) == single(GlobalLocation(fr.fn, fr.at))

\* The mutant of asks: callees are constructed when their calls are visited.
asksLate(fr) ==
    fr.pass = "visit" /\ ~at_end(fr) /\ instruction(fr).op = "call"
        /\ wanted(fr.fn, instruction(fr)) # None
        /\ entry[wanted(fr.fn, instruction(fr))] = "absent"

\* The graph that the instruction waits for.
asks(fr) ==
    ~at_end(fr) /\ instruction(fr).op = "call" /\ wanted(fr.fn, instruction(fr)) # None
        /\ entry[wanted(fr.fn, instruction(fr))] = "absent"

NothingConstructed ==
    /\ entry = [f \in Fn |-> "absent"]
    /\ pdg = [f \in Fn |-> EmptyGraph]
    /\ stack = <<>>
    /\ errors = FALSE
    /\ panicked = FALSE

\* get_maybe_recursive finds nothing: insert None, compute.
Construct(f) ==
    /\ entry' = [entry EXCEPT ![f] = "None"]
    /\ stack' = Append(stack, Frame(f))
    /\ UNCHANGED <<program, pdg, errors, panicked>>

\* The mutant of ConstructRoot: the cache is not asked.
ConstructRootAnew(f) == stack = <<>> /\ ~panicked /\ Construct(f)

\* A target of the analysis.
ConstructRoot(f) == stack = <<>> /\ ~panicked /\ entry[f] = "absent" /\ Construct(f)

ConstructCallee ==
    /\ stack # <<>> /\ ~panicked
    /\ asks(top)
    /\ Construct(wanted(top.fn, instruction(top)))

\* One instruction of a pass.
Advance(fr) == stack' = [stack EXCEPT ![Len(stack)] = fr]

Busy == stack # <<>> /\ ~panicked /\ ~asks(top)

mutate(fr) ==
    [fr EXCEPT !.state = apply_mutation(fr.fn, @, effect(fr.fn, instruction(fr)), here(fr)),
               !.at = @ + 1]

handling(fr) ==
    IF instruction(fr).op = "call" THEN determine_call_handling(fr.fn, instruction(fr)) ELSE "None"

Iterate ==
    /\ Busy /\ top.pass = "iterate" /\ ~at_end(top)
    /\ Advance([mutate(top) EXCEPT !.handled = Append(@, handling(top))])
    /\ errors' = (errors \/ (instruction(top).op = "call" /\ reported(top.fn, instruction(top))))
    /\ UNCHANGED <<program, entry, pdg, panicked>>

\* visit_reachable_with starts over.
Fixpoint ==
    /\ Busy /\ top.pass = "iterate" /\ at_end(top)
    /\ Advance([top EXCEPT !.pass = "visit", !.at = 1, !.state = {}])
    /\ UNCHANGED <<program, entry, pdg, errors, panicked>>

Visit ==
    /\ Busy /\ top.pass = "visit" /\ ~at_end(top)
    /\ Advance([mutate(top) EXCEPT
            !.graph = Join(@, visited(top.fn, instruction(top), top.state, here(top)))])
    /\ UNCHANGED <<program, entry, pdg, errors, panicked>>

\* construct_for: the graph is checked and goes to the cache.
Finish ==
    /\ Busy /\ top.pass = "visit" /\ at_end(top)
    /\ IF top.graph.nodes = {}
       THEN panicked' = TRUE /\ UNCHANGED <<entry, pdg, stack>>
       ELSE /\ pdg' = [pdg EXCEPT ![top.fn] =
                        [top.graph EXCEPT !.edges = @ \cup returns(top.fn, top.state)]]
            /\ entry' = [entry EXCEPT ![top.fn] = "Some"]
            /\ stack' = SubSeq(stack, 1, Len(stack) - 1)
            /\ UNCHANGED panicked
    /\ UNCHANGED <<program, errors>>

ConstructionStep == ConstructCallee \/ Iterate \/ Fixpoint \/ Visit \/ Finish

\* construct_graph: an async function is its generator's body, bound where it is.
generator(f) == generator_of(code(f))
root_of(f) == IF determine_async(f) THEN generator(f) ELSE f
construct_graph(f) ==
    IF determine_async(f)
    THEN push_call_string_root(pdg[generator(f)], GlobalLocation(f, generator_loc(code(f))))
    ELSE pdg[f]

-----------------------------------------------------------------------------
built == {f \in Fn : entry[f] = "Some"}

\* The calls of a body.
calls(f) == {l \in DOMAIN code(f) : code(f)[l].op = "call"}

\* The calls that the analyser wants to follow.
call_graph ==
    {e \in Fn \X Fn : \E l \in calls(e[1]) : wanted(e[1], code(e[1])[l]) = e[2]}

(***************************************************************************)
(* Whether a call is inlined is determined four times, when the analysis   *)
(* iterates and when it visits the call, before and after its effect, and  *)
(* the cache fills in between.  All agree, or the state would have         *)
(* mutations that the graph has no nodes for.                              *)
(***************************************************************************)
HandlingStable ==
    \A i \in DOMAIN stack :
        stack[i].pass = "visit" =>
            \A l \in calls(stack[i].fn) :
                determine_call_handling(stack[i].fn, code(stack[i].fn)[l]) = stack[i].handled[l]

\* A call string that the calls of the program lead to.
IsCallString(f, cs) ==
    /\ root(cs).function = f
    /\ \A i \in 1 .. Len(cs) - 1 :
        /\ cs[i].location \in calls(cs[i].function)
        /\ wanted(cs[i].function, code(cs[i].function)[cs[i].location]) = cs[i + 1].function
    /\ Cardinality(functions(cs)) = Len(cs)

(***************************************************************************)
(* check_invariants (construct.rs) and more: a call string of a graph      *)
(* starts in the graph's function, each of its calls is one that the       *)
(* analyser follows to the next function, and none is under way twice.     *)
(***************************************************************************)
CallStringsReal ==
    \A f \in built : \A cs \in mentioned_call_string(pdg[f]) : IsCallString(f, cs)

(***************************************************************************)
(* A call whose function does not lead back to the caller is inlined, with *)
(* the callee's whole graph, whatever was being built when it was built    *)
(* and in whichever order the targets came.  Only recursion is cut.        *)
(***************************************************************************)
InlinedUnlessRecursive ==
    \A f \in built : \A l \in calls(f) :
        LET w == wanted(f, code(f)[l])
        IN  w # None /\ ~Reaches(Fn, call_graph, w, f) =>
                /\ w \in built
                /\ LET child == push_call_string_root(pdg[w], GlobalLocation(f, l))
                   IN  nodes_of(child) \subseteq nodes_of(pdg[f]) /\ child.edges \subseteq pdg[f].edges

(***************************************************************************)
(* "Each (LocalDefId, GenericArgs) pair is guaranteed to be constructed    *)
(* only once." (construct.rs:50)  Graphs are handed out by reference, so   *)
(* none may change or be made again.                                       *)
(***************************************************************************)
ConstructedOnce ==
    [][\A f \in Fn : /\ entry[f] = "Some" => entry'[f] = "Some" /\ pdg'[f] = pdg[f]
                     /\ entry[f] = "None" => entry'[f] # "absent"]_construction_vars
=============================================================================
