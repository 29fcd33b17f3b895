--------------------------- MODULE ContextQueries ---------------------------
(***************************************************************************)
(* A Context (paralegal-policy, context.rs) from its construction to its   *)
(* answers.  If its Config says so, new computes the index of data flows,  *)
(* and nothing is asked before new returns.                                *)
(*                                                                         *)
(* build_flows_to calls build for one controller after the other: it is    *)
(* followed for one of those the question is about.                        *)
(***************************************************************************)
EXTENDS PolicyQueries, FlowsToIndex

\* NodeIndex numbers the nodes of a graph.
ASSUME NodeAssumption == Node = Row

context_vars == <<build_vars, vars>>

\* The questions of a policy whose Config sets use_flows_to_index.
use_flows_to_index(q) ==
    CASE q.kind = "query" -> q.query.use_index
      [] q.kind = "any_flows" -> q.use_index
      [] q.kind = "any_dependence" -> FALSE

\* The graphs the question is about.
graphs(q) == IF q.kind = "query" THEN {q.query.spdg} ELSE {q.spdg[c] : c \in Controller}

\* flows_to is None.
NothingBuilt ==
    /\ spdg = [k \in EdgeKind |-> {}]
    /\ data_flows_to = seeded(spdg)
    /\ changed = FALSE /\ src_idx = N /\ bits = {}
    /\ pc = "done"

ContextInit ==
    /\ Init
    /\ IF use_flows_to_index(asked) THEN spdg \in graphs(asked) /\ BuildInit ELSE NothingBuilt

\* new builds; then the question is answered.
ContextNext ==
    \/ BuildNext /\ UNCHANGED vars
    \/ pc = "done" /\ Next /\ UNCHANGED build_vars

ContextSpec ==
    ContextInit /\ [][ContextNext]_context_vars /\ WF_context_vars(ContextNext)
=============================================================================
