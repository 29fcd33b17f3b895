---------------------------- MODULE FlowsToIndex ----------------------------
(***************************************************************************)
(* CtrlFlowsTo::build (algo/flows_to.rs): the bit matrix `data_flows_to`   *)
(* that a Context computes per controller when Config::use_flows_to_index  *)
(* is set, and that answers the data queries `flows_to` and `influencees`. *)
(*                                                                         *)
(* The matrix starts as the data edges plus the diagonal.  `iterate` then  *)
(* passes over its rows until a pass sets no bit: for every bit            *)
(* `intermediate` of row `src`, row `intermediate` is or-ed into row `src`.*)
(* Row `src` is read through a transmuted shared reference while it is     *)
(* being written.  Bits that are set ahead of the iterator are therefore   *)
(* seen or missed, depending on what the compiler made of the aliasing;    *)
(* the model allows every choice.                                          *)
(***************************************************************************)
EXTENDS Naturals, Spdg

CONSTANT N      \* domain_size: spdg.graph.node_count()

Row == 0 .. N - 1

ASSUME NAssumption == N \in Nat

VARIABLES
    spdg,           \* the argument of build
    data_flows_to,  \* row -> the columns whose bit is set
    changed,        \* did this pass set a bit?
    src_idx,        \* the row of the current pass; N when the pass is over
    bits,           \* the bits iter_ones still yields for row src_idx
    pc              \* "pass" in iterate, "done" when build has returned

build_vars == <<spdg, data_flows_to, changed, src_idx, bits, pc>>

Data == filter_graph(spdg, "Data")

BuildTypeOK ==
    /\ spdg \in SPDGsOver(Row)
    /\ data_flows_to \in [Row -> SUBSET Row]
    /\ changed \in BOOLEAN
    /\ src_idx \in 0 .. N
    /\ bits \subseteq Row
    /\ pc \in {"pass", "done"}

-----------------------------------------------------------------------------
\* The mutant of seeded: edges of every kind are admitted.
seededAnyKind(g) ==
    [n \in Row |-> {n} \cup Successors(Row, filter_graph(g, "Both"), n)]

\* The matrix before iterate: every node flows to itself and along its data edges.
seeded(g) ==
    [n \in Row |-> {n} \cup Successors(Row, filter_graph(g, "Data"), n)]

BuildInit ==
    /\ spdg \in SPDGsOver(Row)
    /\ data_flows_to = seeded(spdg)
    /\ changed = FALSE
    /\ src_idx = 0
    /\ bits = IF N = 0 THEN {} ELSE data_flows_to[0]
    /\ pc = "pass"

\* Mutants of grows: a set bit reported only on the diagonal; always reported.
growsDiagonal(i) == ~(data_flows_to[i] \cap {src_idx} \subseteq data_flows_to[src_idx])
growsAlways(i) == TRUE

\* The inner loop over row i has a bit to set in row src_idx.
grows(i) == ~(data_flows_to[i] \subseteq data_flows_to[src_idx])

\* One intermediate_idx: row i is or-ed into row src_idx.
Visit(i) ==
    /\ pc = "pass"
    /\ i \in bits
    /\ \A j \in bits : i <= j
    /\ data_flows_to' = [data_flows_to EXCEPT ![src_idx] = @ \cup data_flows_to[i]]
    /\ changed' = (changed \/ grows(i))
    /\ \E seen \in SUBSET {j \in data_flows_to[i] \ data_flows_to[src_idx] : j > i} :
            bits' = (bits \ {i}) \cup seen
    /\ UNCHANGED <<spdg, src_idx, pc>>

row_left(i) == i < N

\* iter_ones of row src_idx is exhausted.
NextRow ==
    /\ pc = "pass"
    /\ row_left(src_idx)
    /\ bits = {}
    /\ src_idx' = src_idx + 1
    /\ bits' = IF src_idx + 1 < N THEN data_flows_to[src_idx + 1] ELSE {}
    /\ UNCHANGED <<spdg, data_flows_to, changed, pc>>

\* The pass is over: once more if it set a bit, else build returns.
EndPass ==
    /\ pc = "pass"
    /\ src_idx = N
    /\ IF changed
       THEN /\ src_idx' = 0
            /\ bits' = IF N = 0 THEN {} ELSE data_flows_to[0]
            /\ UNCHANGED pc
       ELSE /\ pc' = "done"
            /\ UNCHANGED <<src_idx, bits>>
    /\ changed' = FALSE
    /\ UNCHANGED <<spdg, data_flows_to>>

BuildNext == (\E i \in Row : Visit(i)) \/ NextRow \/ EndPass

BuildSpec == BuildInit /\ [][BuildNext]_build_vars /\ WF_build_vars(BuildNext)

-----------------------------------------------------------------------------
(***************************************************************************)
(* At every moment of the computation a set bit stands for a path of data  *)
(* edges, so an index query never reports a flow that does not exist.      *)
(***************************************************************************)
IndexSound ==
    \A a \in Row : \A b \in data_flows_to[a] : Reaches(Row, Data, a, b)

(***************************************************************************)
(* When build returns, every path of data edges has its bit, whatever the  *)
(* aliased iterators saw: no flow is missed by a policy that uses the      *)
(* index instead of a depth-first search.                                  *)
(***************************************************************************)
IndexComplete ==
    pc = "done" =>
        \A a, b \in Row : Reaches(Row, Data, a, b) => b \in data_flows_to[a]

(***************************************************************************)
(* build returns: the passes reach a fixed point.                          *)
(***************************************************************************)
Terminates == <>(pc = "done")
=============================================================================
