-------------------------------- MODULE Spdg --------------------------------
(***************************************************************************)
(* The semantic program dependence graph (SPDG) of one controller, as the  *)
(* graph queries of Paralegal see it: of an edge they read its end points  *)
(* and its kind, so a graph is a record with one set of node pairs per     *)
(* kind.                                                                   *)
(***************************************************************************)
EXTENDS Reachability

\* EdgeKind and EdgeSelection.
EdgeKind == {"Data", "Control"}
EdgeSelection == {"Data", "Control", "Both"}

\* All graphs whose nodes are in V.
SPDGsOver(V) == [EdgeKind -> SUBSET (V \X V)]

\* EdgeSelection::filter_graph: the edges of g whose kind sel admits.
filter_graph(g, sel) ==
    IF sel = "Both" THEN g["Data"] \cup g["Control"] ELSE g[sel]
=============================================================================
