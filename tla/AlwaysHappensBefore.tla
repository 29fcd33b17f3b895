------------------------- MODULE AlwaysHappensBefore -------------------------
(***************************************************************************)
(* Context::always_happens_before (algo/ahb.rs): for every controller that *)
(* has starting points, one depth-first search over the data edges.  It    *)
(* shares its discovered nodes between the starting points, does not go on *)
(* behind a checkpoint or a terminal, and leaves in a Tracer how it got to *)
(* each node, from which the violating paths are reported.                 *)
(*                                                                         *)
(* Controllers come in the order of a hash map, starting points as the     *)
(* policy lists them and neighbours as the graph was built: the model      *)
(* takes each in any order.  A starting point listed twice is found        *)
(* discovered the second time, so starting points are a set.  A node is    *)
(* discovered once, so the vectors of the trace hold no duplicate and are  *)
(* sets.                                                                   *)
(***************************************************************************)
EXTENDS Naturals, Sequences, FiniteSets, PathQuery

CONSTANTS
    NodeEnd,        \* NodeIndex::end(), the index of no node
    Queries         \* the calls the policy may make

ASSUME QueriesAssumption == Queries \subseteq Query
ASSUME NodeEndAssumption == NodeEnd \notin Node
ASSUME FiniteAssumption == IsFiniteSet(Controller) /\ IsFiniteSet(Node)

VARIABLES
    query,          \* the call being answered
    start_map,      \* the controllers the loop has yet to take
    ctrl_id,        \* the controller being searched
    starts,         \* its starting points the search has yet to take
    stack,          \* the nodes dfs_visitor is active for, innermost last
    neighbors,      \* node -> the neighbours its loop has yet to yield
    discovered,     \* the nodes of ctrl_id discovered so far
    tree,           \* Tracer::tree
    reached,        \* the Trace: a number, or a set of node sequences
    checkpointed,   \* the checkpoints met
    pc,             \* "search" or "done"
    emitted         \* the diagnostics of report

search == <<start_map, ctrl_id, starts, stack, neighbors, discovered>>
found == <<tree, reached, checkpointed>>
vars == <<query, search, found, pc, emitted>>

is_checkpoint(n) == <<ctrl_id, n>> \in query.checkpoint
is_terminal(n) == <<ctrl_id, n>> \in query.terminal

Init ==
    /\ query \in Queries
    /\ start_map = {c \in Controller : local(query.starts, c) # {}}
    /\ ctrl_id \in Controller
    /\ starts = {} /\ stack = <<>> /\ discovered = {}
    /\ neighbors = [n \in Node |-> {}]
    /\ tree = [n \in Node |-> NodeEnd]
    /\ reached = IF query.level = "None" THEN 0 ELSE {}
    /\ checkpointed = {}
    /\ pc = "search"
    /\ emitted = {}

-----------------------------------------------------------------------------

\* Tracer::new: every starting point is its own origin.  (Without tracing the
\* code allocates no tree; the one kept here is never read then.)
new_tree(S) == [n \in Node |-> IF n \in S THEN n ELSE NodeEnd]

\* The mutant of edge: both tracing levels remember the predecessor.
edgeFull(from, to) ==
    IF query.level = "None" THEN tree ELSE [tree EXCEPT ![to] = from]

\* Tracer::edge.
edge(from, to) ==
    CASE query.level = "None" -> tree
      [] query.level = "StartAndEnd" -> [tree EXCEPT ![to] = tree[from]]
      [] query.level = "Full" -> [tree EXCEPT ![to] = from]

\* The nodes from n up tree t to the node that is its own origin.
path_up(t, n) ==
    LET climb[k \in Nat] ==
            IF k = 0 THEN <<n>>
            ELSE LET p == climb[k - 1]
                     node == p[Len(p)]
                 IN  IF t[node] = node THEN p ELSE Append(p, t[node])
    IN  climb[Cardinality(Node)]

\* Tracer::terminal, with the tree t the last edge left behind.
terminal(t, n) ==
    CASE query.level = "None" -> reached + 1
      [] query.level = "StartAndEnd" ->
            reached \cup {<< <<ctrl_id, n>>, <<ctrl_id, t[n]>> >>}
      [] query.level = "Full" ->
            LET p == path_up(t, n)
            IN  reached \cup {[k \in DOMAIN p |-> <<ctrl_id, p[k]>>]}

\* How the visitor answers DfsEvent::Discover of n; "no" is Control::Continue.
stop_at(n) ==
    IF is_checkpoint(n) THEN "checkpoint" ELSE IF is_terminal(n) THEN "terminal" ELSE "no"

(***************************************************************************)
(* n is discovered with tree t: a checkpoint or a terminal ends the path,  *)
(* any other node is searched.  todo are the neighbours still to come of   *)
(* the nodes already active.                                               *)
(***************************************************************************)
discover(t, n, todo) ==
    /\ discovered' = discovered \cup {n}
    /\ tree' = t
    /\ checkpointed' =
           checkpointed \cup (IF stop_at(n) = "checkpoint" THEN {<<ctrl_id, n>>} ELSE {})
    /\ reached' = IF stop_at(n) = "terminal" THEN terminal(t, n) ELSE reached
    /\ IF stop_at(n) = "no"
       THEN /\ stack' = Append(stack, n)
            /\ neighbors' = [todo EXCEPT ![n] =
                   Successors(Node, filter_graph(query.spdg[ctrl_id], "Data"), n)]
       ELSE stack' = stack /\ neighbors' = todo

\* The mutant of NextController: all controllers share one set of discovered nodes.
NextControllerShares(c) ==
    /\ pc = "search" /\ stack = <<>> /\ starts = {}
    /\ c \in start_map
    /\ start_map' = start_map \ {c}
    /\ ctrl_id' = c
    /\ starts' = local(query.starts, c)
    /\ tree' = [n \in Node |-> IF n \in starts' THEN n ELSE NodeEnd]
    /\ UNCHANGED <<query, stack, neighbors, discovered, reached, checkpointed, pc, emitted>>

\* The loop over start_map takes controller c: a new search with a new tracer.
NextController(c) ==
    /\ pc = "search" /\ stack = <<>> /\ starts = {}
    /\ c \in start_map
    /\ start_map' = start_map \ {c}
    /\ ctrl_id' = c
    /\ starts' = local(query.starts, c)
    /\ discovered' = {}
    /\ tree' = new_tree(local(query.starts, c))
    /\ UNCHANGED <<query, stack, neighbors, reached, checkpointed, pc, emitted>>

\* depth_first_search takes starting point n.
NextStart(n) ==
    /\ pc = "search" /\ stack = <<>>
    /\ n \in starts
    /\ starts' = starts \ {n}
    /\ IF n \in discovered
       THEN UNCHANGED <<stack, neighbors, discovered, found>>
       ELSE discover(tree, n, neighbors)
    /\ UNCHANGED <<query, start_map, ctrl_id, pc, emitted>>

\* dfs_visitor of the innermost active node yields neighbour n.
NextNeighbor(n) ==
    /\ stack # <<>>
    /\ LET from == stack[Len(stack)]
           todo == [neighbors EXCEPT ![from] = @ \ {n}]
       IN  /\ n \in neighbors[from]
           /\ IF n \in discovered
              THEN neighbors' = todo /\ UNCHANGED <<stack, discovered, found>>
              ELSE discover(edge(from, n), n, todo)
    /\ UNCHANGED <<query, start_map, ctrl_id, starts, pc, emitted>>

\* dfs_visitor returns from a node whose neighbours are all yielded.
Finish ==
    /\ stack # <<>>
    /\ neighbors[stack[Len(stack)]] = {}
    /\ stack' = SubSeq(stack, 1, Len(stack) - 1)
    /\ UNCHANGED <<query, start_map, ctrl_id, starts, neighbors, discovered,
                   found, pc, emitted>>

\* always_happens_before returns.
Return ==
    /\ pc = "search" /\ stack = <<>> /\ starts = {} /\ start_map = {}
    /\ pc' = "done"
    /\ UNCHANGED <<query, search, found, emitted>>

-----------------------------------------------------------------------------
\* Trace::len.
len == IF query.level = "None" THEN reached ELSE Cardinality(reached)

holds == len = 0

is_vacuousCheckpointed == checkpointed = {}

is_vacuous == checkpointed = {} /\ len = 0

\* Trace::emit: one error for the number of paths, or one for each trace.
emit ==
    {<<"error", r>> : r \in IF query.level = "None" THEN {<<reached>>} ELSE reached}

\* AlwaysHappensBefore::report.
Report ==
    /\ pc = "done"
    /\ emitted' =
           (IF query.starts = {} THEN {<<"warning", "Started with 0 nodes.">>} ELSE {})
           \cup (IF is_vacuous THEN {<<"warning", "Is vacuously true.">>} ELSE {})
           \cup (IF holds THEN {} ELSE emit)
    /\ UNCHANGED <<query, search, found, pc>>

Search ==
    \/ \E c \in Controller : NextController(c)
    \/ \E n \in Node : NextStart(n) \/ NextNeighbor(n)
    \/ Finish
    \/ Return

Next == Search \/ Report

Spec == Init /\ [][Next]_vars /\ WF_vars(Search)

-----------------------------------------------------------------------------
Path == Seq(GlobalNode)

\* p is a chain of data edges of one controller, last node first, that starts
\* at a starting point, ends at its first terminal and meets no checkpoint.
ViolatingPath(p) ==
    /\ p[1] \in query.terminal
    /\ p[Len(p)] \in query.starts
    /\ \A k \in 1 .. Len(p) : p[k] \notin query.checkpoint
    /\ \A k \in 2 .. Len(p) :
          /\ p[k] \notin query.terminal
          /\ p[k][1] = p[1][1]
          /\ <<p[k][2], p[k - 1][2]>> \in filter_graph(query.spdg[p[1][1]], "Data")

\* t is a terminal that starting point s violates the property with.
ViolatingEnds(t, s) ==
    /\ t \in query.terminal \ query.checkpoint
    /\ s \in query.starts
    /\ s[1] = t[1]
    /\ Reaches(Node, DataUpTo(query, query.checkpoint, t[1]), s[2], t[2])

(***************************************************************************)
(* A reported trace is real, at every moment of the search: with full      *)
(* tracing the nodes named are a path of data edges that violates the      *)
(* property, otherwise the start and end named are joined by one.  The     *)
(* tree the traces are read from is shared by all starting points and      *)
(* rewritten on every tree edge.                                           *)
(***************************************************************************)
TracesReal ==
    /\ query.level = "Full" => \A p \in reached : ViolatingPath(p)
    /\ query.level = "StartAndEnd" => \A p \in reached : ViolatingEnds(p[1], p[2])

\* The nodes of G the search comes to, stopping at checkpoints and terminals.
Met(G) ==
    {g \in G : g[2] \in ReachedUpTo(query, query.checkpoint \cup query.terminal, g[1])}

(***************************************************************************)
(* The search meets every checkpoint and every unblessed terminal that is  *)
(* the first stop of some path, and counts it once, however many starting  *)
(* points and paths lead to it and whatever the order of the search.       *)
(***************************************************************************)
MeetsEveryStop ==
    pc = "done" =>
        /\ checkpointed = Met(query.checkpoint)
        /\ len = Cardinality(Met(query.terminal \ query.checkpoint))

(***************************************************************************)
(* always_happens_before implements HappensBefore: it answers once, and    *)
(* eventually; the answer is right and stays; report fails the policy      *)
(* exactly when the property does not hold.                                *)
(***************************************************************************)
HB == INSTANCE HappensBefore WITH
    answer <- IF pc = "done" THEN {[holds |-> holds, vacuous |-> is_vacuous]} ELSE {},
    failed <- \E d \in emitted : d[1] = "error"

Implements == HB!Spec
=============================================================================
