---------------------------- MODULE PolicyQueries ----------------------------
(***************************************************************************)
(* What a policy asks of its Context (paralegal-policy, context.rs): one   *)
(* query on a graph, or any_flows and any_dependence, which put one query  *)
(* after the other, for each pair of nodes in order, until an answer is    *)
(* yes.  Queries on flows are GraphQueries, those on dependence            *)
(* AlwaysDepends.                                                          *)
(***************************************************************************)
EXTENDS GraphQueries

CONSTANTS Controller, Questions

VARIABLES
    asked,      \* the question
    tried,      \* how many pairs of it were put as a query
    example,    \* {}, or the pair that is returned
    turn,       \* "pick", "search" or "done"
    graph, start, target, stack, depends    \* the variables of AlwaysDepends

D == INSTANCE AlwaysDepends WITH answer <- depends

asked_vars == <<asked, tried, example, turn>>
depends_vars == <<graph, start, target, stack, depends>>
vars == <<asked_vars, query_vars, depends_vars>>

GlobalNode == Controller \X Node

\* A cluster is never empty when it comes from a GlobalNode.
Cluster == [controller : Controller, nodes : Seq(Node)]
Global(c) == [controller |-> c[1], nodes |-> <<c[2]>>]

\* The arguments are sequences: what is tried first is found first.
Question ==
    [kind : {"query"}, query : Query] \cup
    [kind : {"any_flows"}, spdg : [Controller -> SPDGsOver(Node)], sel : EdgeSelection,
     use_index : BOOLEAN, from : Seq(GlobalNode), to : Seq(GlobalNode)] \cup
    [kind : {"any_dependence"}, graph : [Controller -> SUBSET D!Edge],
     from : Cluster, influencers : Seq(Cluster)]

ASSUME QuestionsAssumption == Questions \subseteq Question

\* What find_map goes through, and what it goes through for each of these.
outer(q) == CASE q.kind = "query" -> <<q>>
              [] q.kind = "any_flows" -> q.from
              [] q.kind = "any_dependence" -> q.influencers
inner(q) == CASE q.kind = "query" -> <<q>>
              [] q.kind = "any_flows" -> q.to
              [] q.kind = "any_dependence" -> <<q.from>>

\* The mutant of pairs: the outer sequence is gone through for each of the inner.
pairsSwapped(q) ==
    LET n == Len(outer(q))
    IN  [i \in 1 .. n * Len(inner(q)) |->
            <<outer(q)[((i - 1) % n) + 1], inner(q)[((i - 1) \div n) + 1]>>]

pairs(q) ==
    LET n == Len(inner(q))
    IN  [i \in 1 .. Len(outer(q)) * n |->
            <<outer(q)[((i - 1) \div n) + 1], inner(q)[((i - 1) % n) + 1]>>]

\* flows_to for one pair.
FlowQuery(q, p) ==
    [kind |-> "flows_to", spdg |-> q.spdg[p[1][1]], sel |-> q.sel, use_index |-> q.use_index,
     same_controller |-> p[1][1] = p[2][1], from |-> {p[1][2]}, to |-> {p[2][2]}, sources |-> {}]

Init ==
    /\ asked \in Questions
    /\ tried = 0
    /\ example = {}
    /\ turn = "pick"
    /\ NothingAsked
    /\ D!NothingAsked

\* NodeQueries::always_depends: of clusters, it looks at the first nodes only.
always_depends(influencer, self) ==
    IF influencer.controller # self.controller \/ influencer.nodes = <<>> \/ self.nodes = <<>>
    THEN turn' = "pick" /\ UNCHANGED depends_vars
    ELSE turn' = "search" /\ D!Ask(asked.graph[self.controller], Head(self.nodes), Head(influencer.nodes))

\* The next query.
Pick ==
    /\ turn = "pick" /\ tried < Len(pairs(asked))
    /\ tried' = tried + 1
    /\ LET p == pairs(asked)[tried']
       IN  CASE asked.kind = "query" -> Ask(asked.query) /\ turn' = "search" /\ UNCHANGED depends_vars
             [] asked.kind = "any_flows" ->
                    Ask(FlowQuery(asked, p)) /\ turn' = "search" /\ UNCHANGED depends_vars
             [] OTHER -> always_depends(p[1], p[2]) /\ UNCHANGED query_vars
    /\ UNCHANGED <<asked, example>>

\* A step of the search for its answer.
Search ==
    /\ turn = "search"
    /\ IF asked.kind = "any_dependence"
       THEN D!SearchStep /\ UNCHANGED query_vars
       ELSE QueryStep /\ UNCHANGED depends_vars
    /\ UNCHANGED asked_vars

\* The query was answered; then_some, or on to the next.
Answered ==
    /\ turn = "search"
    /\ IF asked.kind = "any_dependence" THEN depends # {} ELSE phase = "done"
    /\ IF IF asked.kind = "any_dependence" THEN depends = {TRUE} ELSE answer = "yes"
       THEN example' = {pairs(asked)[tried]} /\ turn' = "done"
       ELSE turn' = "pick" /\ UNCHANGED example
    /\ UNCHANGED <<asked, tried, query_vars, depends_vars>>

\* No pair is left.
NoneLeft ==
    /\ turn = "pick" /\ tried = Len(pairs(asked))
    /\ turn' = "done"
    /\ UNCHANGED <<asked, tried, example, query_vars, depends_vars>>

Next == Pick \/ Search \/ Answered \/ NoneLeft

\* A call of the Context returns once it is made: its thread runs on.
Spec == Init /\ [][Next]_vars /\ WF_vars(Next)

-----------------------------------------------------------------------------
\* The recursion of always_depends is bounded, and what it should mean (AlwaysDepends).
NoNodeTwice == D!NoNodeTwice
AlwaysRight == D!AlwaysRight

\* The definite and tentative data edges of a graph.
DataEdges(g) == {<<e.source, e.target>> : e \in {e \in g : e.kind = "Data"}}

\* There is a path for one pair; of clusters, the first nodes count.
Related(x, y) ==
    IF asked.kind = "any_flows"
    THEN x[1] = y[1] /\ Reaches(Node, filter_graph(asked.spdg[x[1]], asked.sel), x[2], y[2])
    ELSE /\ x.controller = y.controller /\ x.nodes # <<>> /\ y.nodes # <<>>
         /\ Reaches(Node, DataEdges(asked.graph[x.controller]), Head(x.nodes), Head(y.nodes))

\* What the documentation says a pair is found by: "Nodes do not flow to themselves",
\* and "A always depends on" an influencer.
Promised(x, y) ==
    IF asked.kind = "any_flows"
    THEN x # y /\ Related(x, y)
    ELSE /\ x.controller = y.controller /\ x.nodes # <<>> /\ y.nodes # <<>>
         /\ D!Always(asked.graph[x.controller], Head(y.nodes), Head(x.nodes))

(***************************************************************************)
(* any_flows and any_dependence pass over no pair they promise, over all   *)
(* controllers, with the index and without it: what they return is the     *)
(* pair of the first source with the first sink, or one that comes before  *)
(* it in that order; and there is a path for what they return.             *)
(*                                                                         *)
(* A pair that is not promised may be returned: a node with itself, and    *)
(* one with a path of tentative edges; AlwaysRight is about the latter.    *)
(***************************************************************************)
FirstExample ==
    turn = "done" /\ asked.kind # "query" =>
        LET pair(i) == <<outer(asked)[i[1]], inner(asked)[i[2]]>>
            indices == (DOMAIN outer(asked)) \X (DOMAIN inner(asked))
            promised == {i \in indices : Promised(pair(i)[1], pair(i)[2])}
        IN  \/ example = {} /\ promised = {}
            \/ \E i \in indices :
                  /\ example = {pair(i)}
                  /\ Related(pair(i)[1], pair(i)[2])
                  /\ \A j \in promised : i[1] < j[1] \/ (i[1] = j[1] /\ i[2] <= j[2])

(***************************************************************************)
(* Every query and every question is answered, on graphs with cycles too.  *)
(***************************************************************************)
AllAnswered == <>(turn = "done")
=============================================================================
