---------------------------- MODULE LocalAnalysis ----------------------------
(***************************************************************************)
(* The dependence graph of one function body (local_analysis.rs and the    *)
(* ResultsVisitor of construct.rs).  A forward dataflow analysis finds for *)
(* every location where each place was last mutated; a second pass over    *)
(* the body turns every mutation into nodes and edges; a third connects    *)
(* what callers can see to the end of the body; the graph is checked.      *)
(*                                                                         *)
(* What rustc and Flowistry say of places (aliases, conflicts, references  *)
(* on the way to a place, what an argument reaches) is given.  A statement *)
(* is the set of mutations its visitor reports; the graph of a function    *)
(* that is inlined is the flows from its start to its end.  Spans, types,  *)
(* uses of nodes and generics are left out.                                *)
(***************************************************************************)
EXTENDS Naturals, Sequences, FiniteSets, Reachability, PlacesDistinct

CONSTANTS
    Arg,            \* places of arguments
    Exposed,        \* places of arguments and of the return value
    Aliases,        \* PlaceInfo::aliases: [Place -> SUBSET Place]
    Refs,           \* refs_in_projection: [Place -> SUBSET Place]
    Conflicts,      \* <<mutated place, place that is read>>
    Reachable,      \* reachable_values with Mutability::Not: [Place -> Seq(Place)]
    ReachableMut,   \* and with Mutability::Mut: [Place -> SUBSET Place]
    Block, Entry,
    None, Start, End,
    Bodies

Mutation == [mutated : Place, inputs : Seq(Place)]

\* A statement, or the terminator a block ends with.  A call is inlined with
\* the graph of its callee: what it reads and writes of the caller's, and which
\* of these are joined; "maybe" are the writes that only some of its paths make.
\* Or it is approximated by given mutations (a function that desugaring of async
\* brings in, the creation of a future), or neither.
Instruction ==
    [kind : {"statement", "goto", "return"}, mutations : SUBSET Mutation]
    \cup [kind : {"switch"}, discr : Place \cup {None}]
    \cup [kind : {"call"}, handling : {"ready"}, reads : SUBSET Place,
          writes : SUBSET Place, flows : SUBSET (Place \X Place), maybe : SUBSET Place]
    \cup [kind : {"call"}, handling : {"approximate", "fallback"},
          mutations : SUBSET Mutation, args : Seq(Place), destination : Place]

Body ==
    [code : [Block -> Seq(Instruction) \ {<<>>}],
     cfg : SUBSET (Block \X Block),         \* edges to successors
     control : SUBSET (Block \X Block)]     \* ControlDependencies::dependent_on

ASSUME BodiesAssumption == Bodies \subseteq Body
ASSUME PlacesAssumption ==
    /\ Arg \subseteq Exposed /\ Exposed \subseteq Place
    /\ Aliases \in [Place -> SUBSET Place] /\ Refs \in [Place -> SUBSET Place]
    /\ Conflicts \subseteq Place \X Place
    /\ Reachable \in [Place -> Seq(Place)] /\ ReachableMut \in [Place -> SUBSET Place]
    /\ Entry \in Block /\ None \notin Place
ASSUME LocationsAssumption ==
    /\ {Start, End} \cap (Nat \cup (Block \X Nat)) = {}
    /\ {Start, End} \cap ((Block \X Nat) \X {Start, End}) = {}
    /\ Start # End
ASSUME FiniteAssumption == IsFiniteSet(Block) /\ IsFiniteSet(Place)

VARIABLES
    body,
    phase,      \* "iterate", "visit", "returns", then "done" or "panic"
    entry,      \* the dataflow state at the start of each block
    todo,       \* the blocks that wait in this phase
    cursor,     \* <<block, index>> of the location that is next; <<>> between blocks
    state,      \* InstructionState there: [Place -> locations of last mutation]
    nodes, edges

vars == <<body, phase, entry, todo, cursor, state, nodes, edges>>

code(b) == body.code[b]
at(l) == code(l[1])[l[2]]
terminator(b) == code(b)[Len(code(b))]
terminator_loc(b) == <<b, Len(code(b))>>

Location == UNION {{b} \X (1 .. Len(code(b))) : b \in Block}

Nowhere == [p \in Place |-> {}]

reachable_blocks == {b \in Block : Reaches(Block, body.cfg, Entry, b)}

Init ==
    /\ body \in Bodies
    /\ phase = "iterate"
    /\ entry = [b \in Block |-> Nowhere]
    /\ todo = reachable_blocks
    /\ cursor = <<>>
    /\ state = Nowhere
    /\ nodes = {} /\ edges = {}

-----------------------------------------------------------------------------
\* handle_call_with_combine_on_args: before the call each argument takes up what
\* it reaches; after it, what it reaches mutably and the destination are written.
arguments(c) == {c.args[i] : i \in DOMAIN c.args}
before(c) == {[mutated |-> a, inputs |-> Reachable[a]] : a \in arguments(c)}
after(c) ==
    {[mutated |-> p, inputs |-> c.args] :
        p \in {c.destination} \cup UNION {ReachableMut[a] \ {a} : a \in arguments(c)}}

\* The mutant of mutated: a callee's reads are taken for its writes too.
mutatedReads(c) ==
    CASE c.kind = "call" /\ c.handling = "ready" -> c.writes \cup c.reads
      [] c.kind = "call" /\ c.handling = "fallback" ->
             {m.mutated : m \in before(c) \cup after(c)}
      [] c.kind = "switch" -> {}
      [] OTHER -> {m.mutated : m \in c.mutations}

\* The places the analysis takes an instruction to mutate.
mutated(c) ==
    CASE c.kind = "call" /\ c.handling = "ready" -> c.writes
      [] c.kind = "call" /\ c.handling = "fallback" ->
             {m.mutated : m \in before(c) \cup after(c)}
      [] c.kind = "switch" -> {}
      [] OTHER -> {m.mutated : m \in c.mutations}

written(l) == UNION {Aliases[p] : p \in mutated(at(l))}

\* The mutant of apply_mutation: previous mutations are not cleared.
apply_mutationWeak(s, l) == [p \in Place |-> IF p \in written(l) THEN s[p] \cup {l} ELSE s[p]]

\* apply_mutation for every alias of every place that l mutates.
apply_mutation(s, l) == [p \in Place |-> IF p \in written(l) THEN {l} ELSE s[p]]

join(s, t) == [p \in Place |-> s[p] \cup t[p]]

-----------------------------------------------------------------------------
node(p, l) == [place |-> p, at |-> l]
\* A node of the graph of the callee at l, at its start or its end.
child(p, l, e) == [place |-> p, at |-> <<l, e>>]

\* Where what is read at p was last mutated; for an argument also the start.
find_data_inputs(s, p) ==
    UNION {(IF a \in Arg THEN {node(a, Start)} ELSE {})
           \cup UNION {{node(k, l) : l \in s[k]} : k \in {k \in Place : <<k, a>> \in Conflicts}} :
           a \in UNION {Aliases[q] : q \in {p} \cup Refs[p]}}

find_outputs(p, l) == {node(q, l) : q \in Aliases[p]}

\* What one call of register_mutation_with_tentativeness connects.  The loop over
\* its data inputs starts with one of the first place that has any.
link(s, places, outputs) ==
    LET found == [i \in DOMAIN places |-> find_data_inputs(s, places[i])]
        first == {i \in DOMAIN places : found[i] # {} /\ \A j \in 1 .. i - 1 : found[j] = {}}
    IN  [inputs |-> UNION {found[i] : i \in DOMAIN places},
         heads |-> UNION {found[i] : i \in first}, outputs |-> outputs]

register(s, M, l) == {link(s, m.inputs, find_outputs(m.mutated, l)) : m \in M}

\* The mutant of at_call: both halves of a call read the state before it.
at_callBefore(c, s, t, l) == register(s, before(c) \cup after(c), l)

\* A call that is not inlined is visited before and after its effect.
at_call(c, s, t, l) == register(s, before(c), l) \cup register(t, after(c), l)

\* handle_as_inline: the callee's start reads from the caller, which reads its end.
inlined(c, s, l) ==
    {link(s, <<p>>, {child(p, l, Start)}) : p \in c.reads}
    \cup {LET end == {child(p, l, End)}
          IN  [inputs |-> end, heads |-> end, outputs |-> find_outputs(p, l)] : p \in c.writes}

\* What is registered at l, with the states before and after it.  An approximated
\* call is then handled as one that is not inlined as well.
registered(l, s, t) ==
    LET c == at(l)
    IN  CASE c.kind = "switch" ->
                 IF c.discr = None THEN {}
                 ELSE register(s, {[mutated |-> c.discr, inputs |-> <<c.discr>>]}, l)
          [] c.kind = "call" /\ c.handling = "ready" -> inlined(c, s, l)
          [] c.kind = "call" /\ c.handling = "approximate" ->
                 register(s, c.mutations, l) \cup at_call(c, s, t, l)
          [] c.kind = "call" /\ c.handling = "fallback" -> at_call(c, s, t, l)
          [] OTHER -> register(s, c.mutations, l)

\* The mutant of queued: only the block of the location is looked at.
queuedOne(b) == {b}

\* The blocks that get into the queue of find_control_inputs.
queued(b) ==
    LET passed == {e \in body.control : terminator(e[2]).kind # "switch"}
    IN  {x \in Block : Reaches(Block, passed, b, x)}

find_control_inputs(l) ==
    {node(terminator(d).discr, terminator_loc(d)) :
        d \in {d \in Block : /\ \E x \in queued(l[1]) : <<x, d>> \in body.control
                             /\ terminator(d).kind = "switch" /\ terminator(d).discr # None}}

\* The loop over `seen`: with x first a second node is kept if it overlaps x.
\* Which x of its place comes first is up to the order of hash maps.
tentativeness(r) ==
    IF r.inputs = {} THEN {FALSE}
    ELSE {\E y \in r.inputs \ {x} : <<x.place, y.place>> \notin Distinct : x \in r.heads}

data_edges(r, t) ==
    {[from |-> n, to |-> o, kind |-> "Data", tentative |-> t] : n \in r.inputs, o \in r.outputs}
control_edges(r, l) ==
    {[from |-> n, to |-> o, kind |-> "Control", tentative |-> FALSE] :
        n \in find_control_inputs(l), o \in r.outputs}

\* The callee's graph: it has nodes of its own, for which one stands.
child_nodes(l) ==
    IF at(l).kind = "call" /\ at(l).handling = "ready" THEN {child(None, l, Start)} ELSE {}
child_edges(l) ==
    IF at(l).kind = "call" /\ at(l).handling = "ready"
    THEN {[from |-> child(f[1], l, Start), to |-> child(f[2], l, End),
           kind |-> "Data", tentative |-> FALSE] : f \in at(l).flows}
    ELSE {}

-----------------------------------------------------------------------------

\* The engine takes a block from its queue; so do the passes over the results.
Begin(b) ==
    /\ cursor = <<>> /\ b \in todo
    /\ todo' = todo \ {b}
    /\ cursor' = <<b, 1>>
    /\ state' = entry[b]
    /\ UNCHANGED <<body, phase, entry, nodes, edges>>

within_block == cursor # <<>> /\ cursor[2] <= Len(code(cursor[1]))
past_block == cursor # <<>> /\ cursor[2] > Len(code(cursor[1]))

advance ==
    /\ state' = apply_mutation(state, cursor)
    /\ cursor' = <<cursor[1], cursor[2] + 1>>
    /\ UNCHANGED <<body, phase, entry, todo>>

\* The effect of a statement or terminator.
Apply ==
    /\ phase \in {"iterate", "returns"} /\ within_block
    /\ advance
    /\ UNCHANGED <<nodes, edges>>

\* The mutant of Propagate: a successor is queued only on its first state.
PropagateOnce ==
    /\ phase = "iterate" /\ past_block
    /\ LET reached == Successors(Block, body.cfg, cursor[1])
       IN  /\ entry' = [b \in Block |-> IF b \in reached THEN join(entry[b], state) ELSE entry[b]]
           /\ todo' = todo \cup {b \in reached : entry[b] = Nowhere /\ entry'[b] # entry[b]}
    /\ cursor' = <<>>
    /\ UNCHANGED <<body, phase, state, nodes, edges>>

\* The mutant of Propagate: every successor is queued.
PropagateAlways ==
    /\ phase = "iterate" /\ past_block
    /\ LET reached == Successors(Block, body.cfg, cursor[1])
       IN  /\ entry' = [b \in Block |-> IF b \in reached THEN join(entry[b], state) ELSE entry[b]]
           /\ todo' = todo \cup reached
    /\ cursor' = <<>>
    /\ UNCHANGED <<body, phase, state, nodes, edges>>

\* The block's state is joined into its successors; those that change are queued.
Propagate ==
    /\ phase = "iterate" /\ past_block
    /\ LET reached == Successors(Block, body.cfg, cursor[1])
       IN  /\ entry' = [b \in Block |-> IF b \in reached THEN join(entry[b], state) ELSE entry[b]]
           /\ todo' = todo \cup {b \in reached : entry'[b] # entry[b]}
    /\ cursor' = <<>>
    /\ UNCHANGED <<body, phase, state, nodes, edges>>

\* register_mutation_with_tentativeness for what the instruction mutates.
Visit ==
    /\ phase = "visit" /\ within_block
    /\ advance
    /\ LET l == cursor
           R == registered(l, state, state')
       IN  /\ nodes' = nodes \cup child_nodes(l) \cup UNION {r.outputs : r \in R}
           /\ \E t \in [R -> BOOLEAN] :
                 /\ \A r \in R : t[r] \in tentativeness(r)
                 /\ edges' = edges \cup child_edges(l)
                        \cup UNION {data_edges(r, t[r]) \cup control_edges(r, l) : r \in R}

Visited ==
    /\ phase = "visit" /\ past_block
    /\ cursor' = <<>>
    /\ UNCHANGED <<body, phase, entry, todo, state, nodes, edges>>

\* At the end of a returning block, what callers can see is connected to End.
ConnectEnd ==
    /\ phase = "returns" /\ past_block
    /\ cursor' = <<>>
    /\ edges' = edges \cup
          UNION {{[from |-> node(p, l), to |-> node(p, End),
                   kind |-> "Data", tentative |-> FALSE] : l \in state[p]} : p \in Exposed}
    /\ UNCHANGED <<body, phase, entry, todo, state, nodes>>

\* iterate_to_fixpoint is done, then visit_reachable_with, then the loop over
\* all_returns; check_invariants takes the first node of the graph.
NextPhase ==
    /\ cursor = <<>> /\ todo = {}
    /\ phase \in {"iterate", "visit", "returns"}
    /\ phase' = CASE phase = "iterate" -> "visit"
                  [] phase = "visit" -> "returns"
                  [] phase = "returns" -> IF nodes = {} THEN "panic" ELSE "done"
    /\ todo' = CASE phase = "iterate" -> reachable_blocks
                 [] phase = "visit" -> {b \in Block : terminator(b).kind = "return"}
                 [] phase = "returns" -> {}
    /\ UNCHANGED <<body, entry, cursor, state, nodes, edges>>

Next ==
    \/ \E b \in Block : Begin(b)
    \/ Apply \/ Propagate \/ Visit \/ Visited \/ ConnectEnd \/ NextPhase

Spec == Init /\ [][Next]_vars /\ WF_vars(Next)

-----------------------------------------------------------------------------
Where == Location \cup {Start, End} \cup (Location \X {Start, End})
Node == [place : Place \cup {None}, at : Where]
Edge == [from : Node, to : Node, kind : {"Data", "Control"}, tentative : BOOLEAN]
State == [Place -> SUBSET Location]

TypeOK ==
    /\ body \in Bodies
    /\ phase \in {"iterate", "visit", "returns", "done", "panic"}
    /\ entry \in [Block -> State] /\ state \in State
    /\ todo \subseteq Block
    /\ cursor = <<>> \/ cursor \in Location \cup {<<b, Len(code(b)) + 1>> : b \in Block}
    /\ nodes \subseteq Node /\ edges \subseteq Edge

\* Control may pass from l to the end of its block without another mutation of k.
last_in_block(l, k) ==
    /\ k \in written(l)
    /\ \A i \in l[2] + 1 .. Len(code(l[1])) : k \notin written(<<l[1], i>>)

\* The edges between blocks that leave a block in which k is not mutated.
passing(k) ==
    {e \in body.cfg : \A i \in 1 .. Len(code(e[1])) : k \notin written(<<e[1], i>>)}

\* The mutations of k that some execution takes to the start of block b.
Arriving(b, k) ==
    {l \in Location :
        /\ l[1] \in reachable_blocks /\ last_in_block(l, k)
        /\ \E c \in Successors(Block, body.cfg, l[1]) : Reaches(Block, passing(k), c, b)}

(***************************************************************************)
(* When the engine's queue is empty, each block starts with exactly the    *)
(* locations from which some path leads to it without another mutation of  *)
(* the place: the meet over all paths, whatever the order of the queue.    *)
(***************************************************************************)
FixpointRight ==
    phase = "visit" /\ todo = reachable_blocks =>
        \A b \in Block, k \in Place : entry[b][k] = Arriving(b, k)

reachable_locations == {l \in Location : l[1] \in reachable_blocks}

(***************************************************************************)
(* The two passes over the body agree on what an instruction mutates: the  *)
(* second registers a node wherever the first has seen a mutation that the *)
(* graph refers to.                                                        *)
(***************************************************************************)
MutationsRegistered ==
    phase = "done" => \A e \in edges : e.from.at \in reachable_locations => e.from \in nodes

\* The pass over the body and its end are reached in every order of the queues.
Built == <>(phase \in {"done", "panic"})
=============================================================================
