---------------------------- MODULE Reachability ----------------------------
(***************************************************************************)
(* Paths in a relation R over a set V, without a recursive definition.     *)
(***************************************************************************)

\* The targets of x's outgoing edges in the relation R over V.
Successors(V, R, x) == {y \in V : <<x, y>> \in R}

\* R with its edges reversed.
Reversed(R) == {<<p[2], p[1]>> : p \in R}

\* R without the edges that leave a node of Stop.
CutAfter(R, Stop) == {p \in R : p[1] \notin Stop}

\* No edge of R leads out of T.
ClosedUnder(V, R, T) == \A x \in T, y \in V : <<x, y>> \in R => y \in T

(***************************************************************************)
(* There is a path, possibly empty, from a to b in the relation R over V:  *)
(* no set of nodes that has a and is closed under R leaves b out.  This is *)
(* the reflexive transitive closure without a recursive definition.        *)
(***************************************************************************)
Reaches(V, R, a, b) ==
    \A T \in SUBSET V : a \in T /\ ClosedUnder(V, R, T) => b \in T

\* What R leads to from A, which are nodes of V as all targets in R are: what is
\* next is added until there is nothing else.
ReachedFrom(V, R, A) ==
    LET more[T \in SUBSET V] ==
            LET next == T \cup {p[2] : p \in {p \in R : p[1] \in T}}
            IN  IF next = T THEN T ELSE more[next]
    IN  more[A]
=============================================================================
