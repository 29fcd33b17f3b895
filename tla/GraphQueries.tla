---------------------------- MODULE GraphQueries ----------------------------
(***************************************************************************)
(* The queries a policy makes on one SPDG (paralegal-policy, context.rs):  *)
(* flows_to, influencers, influencees, has_ctrl_influence, shortest_path,  *)
(* roots and roots_where, each as the traversal of petgraph it runs.       *)
(*                                                                         *)
(* A query runs from its call to its answer.  A depth-first search may     *)
(* discover what it can reach in any order.  A breadth-first search keeps  *)
(* its queue and takes the neighbours of one node in any order.  The index *)
(* of flows is the relation FlowsToIndex shows build to compute.  Clusters *)
(* are sets: a node listed twice is discovered once.                       *)
(***************************************************************************)
EXTENDS Naturals, Sequences, FiniteSets, SequencesExt, Spdg

CONSTANTS
    Node,       \* the nodes of the controller's graph
    None        \* no node

Kind == {"flows_to", "has_ctrl_influence", "influencers", "influencees",
         "shortest_path", "roots", "roots_where"}

\* from and to are the nodes of the arguments; a cluster may be empty
\* (siblings, inputs_of).  The predicate of roots_where is in from.
\* shortest_path is between two nodes.
Query ==
    {q \in [kind : Kind, spdg : SPDGsOver(Node), sel : EdgeSelection, use_index : BOOLEAN,
            same_controller : BOOLEAN,     \* do both arguments name one controller?
            from : SUBSET Node, to : SUBSET Node,
            sources : SUBSET Node] :       \* the nodes at a function call or a start
        q.kind = "shortest_path" => \E a, b \in Node : q.from = {a} /\ q.to = {b}}

ASSUME NoneAssumption == None \notin Node
ASSUME FiniteAssumption == IsFiniteSet(Node)

VARIABLES
    query,
    phase,      \* "ask", "search" (DFS), "bfs", "topo", "collected" or "done"
    stage,      \* has_ctrl_influence: 1, then 2 when it looks further
    edges,      \* the edges of the graph adaptor that is traversed
    todo,       \* DFS: the starting points and neighbours known so far
    queue,      \* BFS: its queue
    discovered, \* the nodes visited; ordered, for a Topo
    ancestors,  \* shortest_path: how a node was reached
    root_like,  \* roots: the nodes passed over that have no source before them
    out,        \* the nodes collected
    answer      \* "none", "yes", "no", "nodes" (in out) or "panic"

traversal == <<edges, todo, queue, discovered>>
query_vars == <<query, phase, stage, traversal, ancestors, root_like, out, answer>>

\* What build_flows_to gives for the graph of the query.
index(n) == {m \in Node : Reaches(Node, filter_graph(query.spdg, "Data"), n, m)}

NoQuery == [kind |-> "none"]

NothingAsked ==
    /\ query = NoQuery
    /\ phase = "done"
    /\ stage = 1
    /\ edges = {} /\ todo = {} /\ queue = <<>> /\ discovered = {}
    /\ ancestors = [n \in Node |-> None]
    /\ root_like = {}
    /\ out = <<>>
    /\ answer = "none"

\* A query is called, when no other is under way.
Ask(q) ==
    /\ phase = "done"
    /\ query' = q
    /\ phase' = "ask"
    /\ stage' = 1
    /\ edges' = {} /\ todo' = {} /\ queue' = <<>> /\ discovered' = {}
    /\ ancestors' = [n \in Node |-> None]
    /\ root_like' = {}
    /\ out' = <<>>
    /\ answer' = "none"

-----------------------------------------------------------------------------
Return(a) == phase' = "done" /\ answer' = a

\* flows_to has its answer; has_ctrl_influence goes on after the first "no".
Answer(yes) ==
    IF query.kind = "has_ctrl_influence" /\ stage = 1 /\ ~yes
    THEN phase' = "ask" /\ stage' = 2 /\ UNCHANGED answer
    ELSE Return(IF yes THEN "yes" ELSE "no") /\ UNCHANGED stage

\* The mutant of is_indexed: the index answers every selection with data edges.
is_indexedUses(sel) == query.use_index /\ sel # "Control"

\* edge_type.is_data() with an index.
is_indexed(sel) == query.use_index /\ sel = "Data"

\* NodeQueries::flows_to from the cluster S, up to the search of generic_flows_to.
flows_to(S, sel) ==
    /\ IF is_indexed(sel) \/ ~query.same_controller \/ S = {} \/ query.to = {}
       THEN /\ Answer(/\ is_indexed(sel) /\ query.same_controller
                      /\ \E n \in S : index(n) \cap query.to # {})
            /\ UNCHANGED traversal
       ELSE /\ phase' = "search"
            /\ edges' = filter_graph(query.spdg, sel)
            /\ todo' = S /\ queue' = <<>> /\ discovered' = {}
            /\ UNCHANGED <<stage, answer>>
    /\ UNCHANGED <<query, ancestors, root_like, out>>

\* bfs_iter, or Bfs::new, over the relation R.
bfs_iter(R) ==
    /\ phase' = "bfs"
    /\ edges' = R
    /\ queue' = SetToSeq(query.from) /\ discovered' = query.from
    /\ UNCHANGED <<query, stage, todo, ancestors, root_like, out, answer>>

AskFlowsTo ==
    /\ phase = "ask" /\ query.kind = "flows_to"
    /\ flows_to(query.from, query.sel)

AskInfluencers ==
    /\ phase = "ask" /\ query.kind = "influencers"
    /\ bfs_iter(Reversed(filter_graph(query.spdg, query.sel)))

\* NodeQueries::influencees.  With the index it is one row after the other.
influencees(sel) ==
    IF is_indexed(sel)
    THEN /\ out' = FlattenSeq([i \in 1 .. Cardinality(query.from) |->
                                 SetToSeq(index(SetToSeq(query.from)[i]))])
         /\ phase' = "collected"
         /\ UNCHANGED <<query, stage, traversal, ancestors, root_like, answer>>
    ELSE bfs_iter(filter_graph(query.spdg, sel))

AskInfluencees ==
    /\ phase = "ask" /\ query.kind = "influencees"
    /\ influencees(query.sel)

\* has_ctrl_influence: direct control influence; else the data influencees.
AskCtrlInfluence ==
    /\ phase = "ask" /\ query.kind = "has_ctrl_influence"
    /\ IF stage = 1 THEN flows_to(query.from, "Control") ELSE influencees("Data")

\* shortest_path searches against the edges.
AskShortestPath ==
    /\ phase = "ask" /\ query.kind = "shortest_path"
    /\ IF query.same_controller
       THEN bfs_iter(Reversed(filter_graph(query.spdg, query.sel)))
       ELSE Return("no") /\ UNCHANGED <<query, stage, traversal, ancestors, root_like, out>>

AskRoots ==
    /\ phase = "ask" /\ query.kind = "roots"
    /\ phase' = "topo"
    /\ edges' = filter_graph(query.spdg, query.sel)
    /\ UNCHANGED <<query, stage, todo, queue, discovered, ancestors, root_like, out, answer>>

\* predecessors follows edges of both kinds, one step.
AskRootsWhere ==
    /\ phase = "ask" /\ query.kind = "roots_where"
    /\ Return("nodes")
    /\ out' = SetToSeq({n \in query.from :
          Successors(Node, Reversed(filter_graph(query.spdg, "Both")), n)
              \cap query.from = {}})
    /\ UNCHANGED <<query, stage, traversal, ancestors, root_like>>

-----------------------------------------------------------------------------
\* depth_first_search discovers n, and breaks at a target.
Discover(n) ==
    /\ phase = "search"
    /\ n \in todo \ discovered
    /\ discovered' = discovered \cup {n}
    /\ todo' = todo \cup Successors(Node, edges, n)
    /\ IF n \in query.to THEN Answer(TRUE) ELSE UNCHANGED <<phase, stage, answer>>
    /\ UNCHANGED <<query, edges, queue, ancestors, root_like, out>>

NotFound ==
    /\ phase = "search"
    /\ todo \subseteq discovered
    /\ Answer(FALSE)
    /\ UNCHANGED <<query, traversal, ancestors, root_like, out>>

\* The loop of shortest_path over the neighbours of n: entry(m).or_insert(n).
\* (The code leaves it at the target; what it would enter after that is not read.)
reach(n, new) ==
    [m \in Node |-> IF m \in new /\ m # n /\ ancestors[m] = None THEN n ELSE ancestors[m]]

\* The mutant of enqueue: last in, first out.
enqueueFirst(s) == s \o Tail(queue)

enqueue(s) == Tail(queue) \o s

\* Bfs::next yields n, after its undiscovered neighbours were put into the queue.
Yield(n) ==
    /\ phase = "bfs" /\ queue # <<>> /\ n = Head(queue)
    /\ LET nodes == Successors(Node, edges, n)
       IN  /\ \E s \in SetToSeqs(nodes \ discovered) : queue' = enqueue(s)
           /\ discovered' = discovered \cup nodes
           /\ IF query.kind = "shortest_path"
              THEN /\ ancestors' = reach(n, nodes)
                   /\ phase' = IF nodes \cap query.to # {} THEN "collected" ELSE "bfs"
                   /\ UNCHANGED out
              ELSE out' = Append(out, n) /\ UNCHANGED <<ancestors, phase>>
    /\ UNCHANGED <<query, stage, edges, todo, root_like, answer>>

\* The queue of the Bfs is empty; shortest_path has not found its target.
Exhausted ==
    /\ phase = "bfs" /\ queue = <<>>
    /\ IF query.kind = "shortest_path" THEN Return("no")
       ELSE phase' = "collected" /\ UNCHANGED answer
    /\ UNCHANGED <<query, stage, traversal, ancestors, root_like, out>>

\* std::iter::successors from the target up the ancestors.
path_from(to, self) ==
    LET up[k \in Nat] ==
            IF k = 0 THEN <<to>>
            ELSE LET p == up[k - 1]
                     n == ancestors[p[Len(p)]]
                 IN  IF n \in {None, self} THEN p ELSE Append(p, n)
    IN  up[Cardinality(Node)]

\* The collected nodes are the answer, or the cluster has_ctrl_influence goes on
\* with; try_from_iter makes no cluster of no nodes, and unwrap panics.
Collected ==
    /\ phase = "collected"
    /\ CASE query.kind = "has_ctrl_influence" ->
              IF out = <<>>
              THEN /\ Return("panic")
                   /\ UNCHANGED <<query, stage, traversal, ancestors, root_like, out>>
              ELSE flows_to(ToSet(out), "Control")
         [] query.kind = "shortest_path" ->
              /\ Return("nodes")
              /\ \E self \in query.from, to \in query.to : out' = path_from(to, self)
              /\ UNCHANGED <<query, stage, traversal, ancestors, root_like>>
         [] OTHER ->
              /\ Return("nodes")
              /\ UNCHANGED <<query, stage, traversal, ancestors, root_like, out>>

\* Topo::next yields n once all its predecessors were yielded.
Ordered(n) ==
    /\ phase = "topo"
    /\ n \notin discovered
    /\ Successors(Node, Reversed(edges), n) \subseteq discovered
    /\ discovered' = discovered \cup {n}
    /\ IF ~(Successors(Node, Reversed(edges), n) \subseteq root_like)
       THEN UNCHANGED <<root_like, out>>
       ELSE IF n \in query.sources
       THEN out' = Append(out, n) /\ UNCHANGED root_like
       ELSE root_like' = root_like \cup {n} /\ UNCHANGED out
    /\ UNCHANGED <<query, phase, stage, edges, todo, queue, ancestors, answer>>

\* Mutants of OrderedAll: the order ends at the first source; it has all nodes.
OrderedAllFirst ==
    /\ phase = "topo"
    /\ out # <<>>
    /\ Return("nodes")
    /\ UNCHANGED <<query, stage, traversal, ancestors, root_like, out>>
OrderedAllNodes ==
    /\ phase = "topo"
    /\ discovered = Node
    /\ Return("nodes")
    /\ UNCHANGED <<query, stage, traversal, ancestors, root_like, out>>

\* Nodes on a cycle, or behind one, are never ordered.
OrderedAll ==
    /\ phase = "topo"
    /\ \A n \in Node \ discovered :
          ~(Successors(Node, Reversed(edges), n) \subseteq discovered)
    /\ Return("nodes")
    /\ UNCHANGED <<query, stage, traversal, ancestors, root_like, out>>

QueryStep ==
    \/ AskFlowsTo \/ AskInfluencers \/ AskInfluencees \/ AskCtrlInfluence
    \/ AskShortestPath \/ AskRoots \/ AskRootsWhere
    \/ \E n \in Node : Discover(n) \/ Yield(n) \/ Ordered(n)
    \/ NotFound \/ Exhausted \/ Collected \/ OrderedAll

-----------------------------------------------------------------------------
Is(kind) == phase = "done" /\ query.kind = kind

\* The query's selection has a path from a to b; a cycle through n.
Flows(a, b) == Reaches(Node, filter_graph(query.spdg, query.sel), a, b)
OnCycle(n) == \E m \in Node : <<n, m>> \in filter_graph(query.spdg, query.sel) /\ Flows(m, n)

Means(sel, a, b) == Reaches(Node, filter_graph(query.spdg, sel), a, b)

\* "direct control flow influence from influencer to sink, or there is some node which
\* is data-flow influenced by `influencer` and has direct control flow influence"
CtrlInfluenceMeaning ==
    /\ query.same_controller
    /\ \E n \in Node : /\ \E a \in query.from : Means("Data", a, n)
                       /\ \E b \in query.to : n # b /\ Means("Control", n, b)

(***************************************************************************)
(* flows_to is true if a node of the source cluster has a path of selected *)
(* edges to another node, one of the sink cluster, and not without such a  *)
(* path unless a node is in both; influencers and influencees yield        *)
(* exactly the other nodes of which flows_to says so, each once but for    *)
(* those that several nodes of the cluster have in the index.  The index   *)
(* changes no answer: use_flows_to_index is a policy's choice.             *)
(* has_ctrl_influence means what its documentation says, for arguments     *)
(* that are not empty.                                                     *)
(*                                                                         *)
(* Left out is what becomes of a node and itself: "Nodes do not flow to    *)
(* themselves", and influencers "Does not return the input node", but in   *)
(* the code they do, and it does.  So has_ctrl_influence may also say yes  *)
(* of a target that has no influence but that of data.                     *)
(***************************************************************************)
FlowsRight ==
    /\ Is("flows_to") =>
          LET flow == /\ query.same_controller
                      /\ \E a \in query.from, b \in query.to : a # b /\ Flows(a, b)
          IN  /\ flow => answer = "yes"
              /\ answer = "yes" =>
                    flow \/ (query.same_controller /\ query.from \cap query.to # {})
    /\ Is("influencers") \/ Is("influencees") =>
          \A i, j \in DOMAIN out : out[i] = out[j] =>
              i = j \/ (is_indexed(query.sel) /\ Cardinality(query.from) > 1)
    /\ Is("influencers") =>
          ToSet(out) \ query.from = {n \in Node \ query.from : \E b \in query.from : Flows(n, b)}
    /\ Is("influencees") =>
          ToSet(out) \ query.from = {n \in Node \ query.from : \E a \in query.from : Flows(a, n)}
    /\ Is("has_ctrl_influence") /\ query.from # {} =>
          /\ CtrlInfluenceMeaning => answer = "yes"
          /\ answer = "yes" =>
                \/ CtrlInfluenceMeaning
                \/ /\ query.same_controller
                   /\ \E a \in query.from, b \in query.to : Means("Data", a, b)

\* The least number of selected edges from a to b, at least one; 0 if none.
Distance(a, b) ==
    LET R == filter_graph(query.spdg, query.sel)
        within[k \in Nat] ==
            IF k = 0 THEN {a} ELSE UNION {Successors(Node, R, n) : n \in within[k - 1]}
        lengths == {k \in 1 .. Cardinality(Node) : b \in within[k]}
    IN  IF lengths = {} THEN 0 ELSE CHOOSE k \in lengths : \A j \in lengths : k <= j

(***************************************************************************)
(* shortest_path returns a path exactly when there is one; it starts at    *)
(* the target, follows selected edges to the node asked for, and no path   *)
(* has fewer of them.  The ancestors are entered for nodes that another    *)
(* branch of the search reached as well.                                   *)
(***************************************************************************)
ShortestPathRight ==
    Is("shortest_path") =>
        \A self \in query.from, to \in query.to :
            /\ (IF answer = "nodes" THEN Len(out) ELSE 0) =
                  IF query.same_controller THEN Distance(to, self) ELSE 0
            /\ out # <<>> =>
                  LET p == Append(out, self)
                  IN  /\ p[1] = to
                      /\ \A i \in 1 .. Len(out) :
                            <<p[i], p[i + 1]>> \in filter_graph(query.spdg, query.sel)

(***************************************************************************)
(* roots yields every source (call or start) that nothing flows to, and    *)
(* nothing that another source or a cycle flows to, in whatever            *)
(* topological order the nodes come.                                       *)
(*                                                                         *)
(* The documentation has it yield all nodes without influencers.  Left out *)
(* are those that are no source, which the code passes over, and sources   *)
(* that only other nodes flow to, which it yields.                         *)
(***************************************************************************)
RootsRight ==
    Is("roots") =>
        /\ \A n \in query.sources :
              ~OnCycle(n) /\ (\A m \in Node : Flows(m, n) => m = n) => n \in ToSet(out)
        /\ \A n \in ToSet(out) : \A m \in Node :
              Flows(m, n) => ~OnCycle(m) /\ (m \in query.sources => m = n)
=============================================================================
