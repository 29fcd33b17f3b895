------------------------------ MODULE PathQuery ------------------------------
(***************************************************************************)
(* The question a policy puts to Context::always_happens_before, and what  *)
(* its answer means in terms of paths.                                     *)
(***************************************************************************)
EXTENDS Spdg

CONSTANTS
    Controller,     \* the controllers of the program description
    Node            \* the node indices of a controller's graph

GlobalNode == Controller \X Node

TraceLevel == {"None", "StartAndEnd", "Full"}

\* A call: the graphs, the starting points, the nodes the caller's closures
\* accept as checkpoint and as terminal, and Config::always_happens_before_tracing.
Query ==
    [spdg : [Controller -> SPDGsOver(Node)], starts : SUBSET GlobalNode,
     checkpoint : SUBSET GlobalNode, terminal : SUBSET GlobalNode,
     level : TraceLevel]

\* The nodes of controller c in the set G of global nodes.
local(G, c) == {n \in Node : <<c, n>> \in G}

\* The data edges of controller c that a path which ends at Stop may take.
DataUpTo(q, Stop, c) ==
    CutAfter(filter_graph(q.spdg[c], "Data"), local(Stop, c))

\* The nodes of c that some starting point reaches without going on behind Stop.
ReachedUpTo(q, Stop, c) ==
    {t \in Node : \E s \in local(q.starts, c) :
                      Reaches(Node, DataUpTo(q, Stop, c), s, t)}

\* A data flow path from a starting point to a terminal passes no checkpoint.
Violated(q) ==
    \E c \in Controller :
        ReachedUpTo(q, q.checkpoint, c) \cap local(q.terminal \ q.checkpoint, c) # {}

\* No starting point reaches a terminal or a checkpoint at all.
Vacuous(q) ==
    \A c \in Controller :
        ReachedUpTo(q, {}, c) \cap local(q.terminal \cup q.checkpoint, c) = {}
=============================================================================
