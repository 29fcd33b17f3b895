----------------------- MODULE MCAlwaysHappensBefore -----------------------
(***************************************************************************)
(* Queries for TLC: one controller with all the nodes, or two controllers  *)
(* with the nodes of Few.  Every pair of these nodes is joined by a data   *)
(* edge or by a control edge, so every data graph is there and a search    *)
(* that strays onto control edges goes wrong; self edges are left out.     *)
(* The starting points of a controller need one set of each size: the      *)
(* others differ by the names of the nodes.                                *)
(***************************************************************************)
EXTENDS AlwaysHappensBefore

CONSTANTS
    One, Other,     \* the controllers
    Few, Starts

ASSUME MCAssumption == Controller = {One, Other} /\ Few \subseteq Node

Loopless(S) == {p \in S \X S : p[1] # p[2]}

MCGraphs(S) ==
    {[k \in EdgeKind |-> IF k = "Data" THEN d ELSE Loopless(S) \ d] : d \in SUBSET Loopless(S)}

QueriesOver(cs, S, levels) ==
    [spdg : {g \in [Controller -> MCGraphs(S)] :
                \A c \in Controller \ cs : g[c]["Data"] = Loopless(S)},
     starts : {{g \in cs \X S : g[2] \in s[g[1]]} : s \in [cs -> {T \in Starts : T \subseteq S}]},
     checkpoint : SUBSET (cs \X S), terminal : SUBSET (cs \X S),
     level : levels]

MCQueries ==
    QueriesOver({One}, Node, {"None", "StartAndEnd", "Full"})
    \cup QueriesOver(Controller, Few, {"Full"})
=============================================================================
