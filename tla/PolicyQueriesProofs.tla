-------------------------- MODULE PolicyQueriesProofs --------------------------
(***************************************************************************)
(* What a policy asks of its Context is answered rightly, for every finite *)
(* graph, every order of a traversal and any number of questions.          *)
(*                                                                         *)
(* CtrlFlowsTo::build computes exactly the reflexive transitive closure of *)
(* the data edges, for every graph and whatever the aliased row iterators  *)
(* see of the bits set ahead of them.  Every row stays between the seeded  *)
(* row and the true set of reachable nodes; a pass that has not set a bit  *)
(* so far leaves the rows behind it closed; the pass that ends build has   *)
(* set none, so every row is closed and holds everything its node reaches. *)
(*                                                                         *)
(* The queries: PolicyInv says of each phase what its traversal has found. *)
(*   FlowsInv     a search knows only nodes it can reach, and all that are *)
(*                next to those it visited; a collection has each node     *)
(*                once, in its output or its queue                         *)
(*   RootsInv     what flows to an ordered node is ordered, on no cycle,   *)
(*                and was classified by the sources that flow to it        *)
(*   ShortestInv  the queue is ordered by depth; an ancestor was yielded,  *)
(*                one level less deep; so the ways up are shortest paths   *)
(*   DependsInv   if the target is reached, some call under way still has  *)
(*                an edge that leads to it outside what it has discovered  *)
(*   AskedInv     no pair tried before was related; the query under way is *)
(*                that of the pair                                         *)
(* FlowsExact and RootsExact say exactly what the code answers, of which   *)
(* FlowsRight and RootsRight are what the documentation says; ContextInv   *)
(* joins the index and the queries.                                        *)
(* Reachability and depth are the definitions of Reachability and of paths *)
(* of a length; the functions that petgraph's loops amount to are defined  *)
(* by recursion, which RecursionExists justifies.                          *)
(***************************************************************************)
EXTENDS ContextQueries, SequenceTheorems, FiniteSetTheorems, WellFoundedInduction, TLAPS

-----------------------------------------------------------------------------
\* build starts with variables of their types.
LEMMA BuildInitType == BuildInit => BuildTypeOK
<1> SUFFICES ASSUME BuildInit PROVE BuildTypeOK
  OBVIOUS
<1>1. spdg \in SPDGsOver(Row)
  BY DEF BuildInit
<1>2. data_flows_to \in [Row -> SUBSET Row]
  BY DEF BuildInit, seeded, Successors
<1>3. bits \subseteq Row
  BY <1>2, NAssumption DEF BuildInit, Row
<1>4. src_idx \in 0 .. N
  BY NAssumption DEF BuildInit
<1> QED BY <1>1, <1>2, <1>3, <1>4 DEF BuildInit, BuildTypeOK

\* No step of iterate takes a variable out of its type, src_idx included.
LEMMA BuildTypeStep == BuildTypeOK /\ [BuildNext]_build_vars => BuildTypeOK'
<1> SUFFICES ASSUME BuildTypeOK, [BuildNext]_build_vars PROVE BuildTypeOK'
  OBVIOUS
<1> USE NAssumption
<1>1. ASSUME NEW i \in Row, Visit(i) PROVE BuildTypeOK'
  <2>1. data_flows_to' \in [Row -> SUBSET Row]
    BY <1>1 DEF BuildTypeOK, Visit
  <2>2. bits' \subseteq Row
    BY <1>1 DEF BuildTypeOK, Visit
  <2>3. changed' \in BOOLEAN
    BY <1>1 DEF BuildTypeOK, Visit, grows
  <2> QED BY <1>1, <2>1, <2>2, <2>3 DEF BuildTypeOK, Visit
<1>2. CASE NextRow
  <2>1. src_idx' \in 0 .. N
    BY <1>2 DEF BuildTypeOK, NextRow, row_left
  <2>2. bits' \subseteq Row
    BY <1>2 DEF BuildTypeOK, NextRow, row_left, Row
  <2> QED BY <1>2, <2>1, <2>2 DEF BuildTypeOK, NextRow
<1>3. CASE EndPass
  <2>1. src_idx' \in 0 .. N
    BY <1>3 DEF BuildTypeOK, EndPass
  <2>2. bits' \subseteq Row
    <3>1. N # 0 => 0 \in Row
      BY DEF Row
    <3>2. bits' = {} \/ bits' = bits \/ (N # 0 /\ bits' = data_flows_to[0])
      BY <1>3 DEF EndPass
    <3> QED BY <3>1, <3>2 DEF BuildTypeOK
  <2> QED BY <1>3, <2>1, <2>2 DEF BuildTypeOK, EndPass
<1>4. CASE UNCHANGED build_vars
  BY <1>4 DEF BuildTypeOK, build_vars
<1> QED BY <1>1, <1>2, <1>3, <1>4 DEF BuildNext

(***************************************************************************)
(* The variables keep their types: rows stay sets of node indices, the row *)
(* index stays within the matrix.                                          *)
(***************************************************************************)
THEOREM BuildTyping == BuildSpec => []BuildTypeOK
  BY BuildInitType, BuildTypeStep, PTL DEF BuildSpec

-----------------------------------------------------------------------------
(***************************************************************************)
(* The inductive invariant.  The iterator yields set bits of its own row;  *)
(* set bits are paths; seeded bits stay set.                               *)
(***************************************************************************)
BitsInRow == \A i \in bits : src_idx < N /\ i \in data_flows_to[src_idx]

SeedKept == \A a \in Row : seeded(spdg)[a] \subseteq data_flows_to[a]

\* Or-ing the row of any bit of row s into row s sets nothing.
RowClosed(s) == \A i \in data_flows_to[s] : data_flows_to[i] \subseteq data_flows_to[s]

\* While a pass has set no bit, what it has visited is closed.
QuietPass ==
    pc = "pass" /\ ~changed =>
        /\ \A s \in Row : s < src_idx => RowClosed(s)
        /\ src_idx < N =>
              \A i \in data_flows_to[src_idx] \ bits :
                  data_flows_to[i] \subseteq data_flows_to[src_idx]

DoneClosed == pc = "done" => \A s \in Row : RowClosed(s)

BuildInv == BuildTypeOK /\ BitsInRow /\ IndexSound /\ SeedKept /\ QuietPass /\ DoneClosed

(***************************************************************************)
(* BuildInit establishes the invariant: a seeded bit is the diagonal or an edge.*)
(***************************************************************************)
LEMMA BuildInitInv == BuildInit => BuildInv
<1> SUFFICES ASSUME BuildInit PROVE BuildInv
  OBVIOUS
<1> USE NAssumption
<1>1. BuildTypeOK
  BY BuildInitType
<1>2. BitsInRow
  BY DEF BuildInit, BitsInRow
<1>3. IndexSound
  <2> SUFFICES ASSUME NEW a \in Row, NEW b \in data_flows_to[a]
               PROVE  Reaches(Row, Data, a, b)
    BY DEF IndexSound
  <2>1. b \in Row /\ (b = a \/ <<a, b>> \in Data)
    BY DEF BuildInit, seeded, Successors, Data
  <2> QED BY <2>1 DEF Reaches, ClosedUnder
<1>4. SeedKept
  BY DEF BuildInit, SeedKept
<1>5. QuietPass
  BY DEF BuildInit, QuietPass, Row
<1>6. DoneClosed
  BY DEF BuildInit, DoneClosed
<1> QED BY <1>1, <1>2, <1>3, <1>4, <1>5, <1>6 DEF BuildInv

(***************************************************************************)
(* Or-ing one row into another preserves the invariant: the paths of the   *)
(* two rows compose, and when no bit is set nothing changes at all.        *)
(***************************************************************************)
LEMMA VisitInv ==
    ASSUME BuildInv, NEW i \in Row, Visit(i)
    PROVE  BuildInv'
<1> USE NAssumption
<1>0. BuildTypeOK /\ BitsInRow /\ IndexSound /\ SeedKept /\ QuietPass /\ DoneClosed
  BY DEF BuildInv
<1>1. BuildTypeOK'
  BY <1>0, BuildTypeStep DEF BuildNext
<1>2. i \in data_flows_to[src_idx] /\ src_idx \in Row
  BY <1>0 DEF Visit, BitsInRow, BuildTypeOK, Row
<1>3. \A s \in Row : data_flows_to'[s] =
          IF s = src_idx THEN data_flows_to[s] \cup data_flows_to[i] ELSE data_flows_to[s]
  BY <1>0 DEF Visit, BuildTypeOK
<1>4. Data' = Data /\ src_idx' = src_idx /\ spdg' = spdg /\ pc' = pc /\ pc = "pass"
  BY DEF Visit, Data
<1>5. BitsInRow'
  <2> SUFFICES ASSUME NEW j \in bits' PROVE src_idx < N /\ j \in data_flows_to'[src_idx]
    BY <1>4 DEF BitsInRow
  <2>1. j \in bits \/ j \in data_flows_to[i]
    BY DEF Visit
  <2>2. src_idx < N
    BY <1>2 DEF Row
  <2>3. j \in data_flows_to[src_idx] \/ j \in data_flows_to[i]
    BY <2>1, <1>0 DEF BitsInRow
  <2>4. data_flows_to'[src_idx] = data_flows_to[src_idx] \cup data_flows_to[i]
    BY <1>2, <1>3
  <2> QED BY <2>2, <2>3, <2>4
<1>6. IndexSound'
  <2> SUFFICES ASSUME NEW a \in Row, NEW b \in data_flows_to'[a]
               PROVE  Reaches(Row, Data, a, b)
    BY <1>4 DEF IndexSound
  <2>1. CASE b \in data_flows_to[a]
    BY <2>1, <1>0 DEF IndexSound
  <2>2. CASE b \notin data_flows_to[a]
    <3>1. a = src_idx /\ b \in data_flows_to[i] /\ b \in Row
      BY <2>2, <1>3, <1>0 DEF BuildTypeOK
    <3>2. Reaches(Row, Data, a, i) /\ Reaches(Row, Data, i, b)
      BY <3>1, <1>0, <1>2 DEF IndexSound
    <3> QED BY <3>1, <3>2 DEF Reaches
  <2> QED BY <2>1, <2>2
<1>7. SeedKept'
  BY <1>0, <1>3, <1>4 DEF SeedKept
<1>8. QuietPass'
  <2> SUFFICES ASSUME ~changed' PROVE QuietPass'
    BY DEF QuietPass
  <2>1. ~changed /\ data_flows_to[i] \subseteq data_flows_to[src_idx]
    BY DEF Visit, grows
  <2>2. data_flows_to' = data_flows_to
    <3>1. \A s \in Row : data_flows_to'[s] = data_flows_to[s]
      BY <2>1, <1>3
    <3>2. /\ data_flows_to \in [Row -> SUBSET Row]
          /\ data_flows_to' \in [Row -> SUBSET Row]
      BY <1>0, <1>1 DEF BuildTypeOK
    <3> QED BY <3>1, <3>2
  <2>3. bits' = bits \ {i}
    BY <2>1 DEF Visit
  <2>4. \A s \in Row : s < src_idx => RowClosed(s)
    BY <2>1, <1>0, <1>4 DEF QuietPass
  <2>5. \A j \in data_flows_to[src_idx] \ bits' :
            data_flows_to[j] \subseteq data_flows_to[src_idx]
    BY <2>1, <2>3, <1>0, <1>2, <1>4 DEF QuietPass, Row
  <2> QED BY <2>2, <2>4, <2>5, <1>4 DEF QuietPass, RowClosed
<1>9. DoneClosed'
  BY <1>4 DEF DoneClosed
<1> QED BY <1>1, <1>5, <1>6, <1>7, <1>8, <1>9 DEF BuildInv

(***************************************************************************)
(* A row whose iterator is exhausted in a quiet pass is closed.            *)
(***************************************************************************)
LEMMA NextRowInv ==
    ASSUME BuildInv, NextRow
    PROVE  BuildInv'
<1> USE NAssumption
<1>0. BuildTypeOK /\ BitsInRow /\ IndexSound /\ SeedKept /\ QuietPass /\ DoneClosed
  BY DEF BuildInv
<1>1. BuildTypeOK'
  BY <1>0, BuildTypeStep DEF BuildNext
<1>2. /\ Data' = Data /\ spdg' = spdg /\ data_flows_to' = data_flows_to
      /\ changed' = changed /\ pc' = pc
  BY DEF NextRow, Data
<1>3. src_idx \in Row /\ src_idx' = src_idx + 1
  BY <1>0 DEF NextRow, row_left, BuildTypeOK, Row
<1>4. BitsInRow'
  BY <1>2, <1>3 DEF BitsInRow, NextRow, row_left
<1>5. IndexSound' /\ SeedKept'
  BY <1>0, <1>2 DEF IndexSound, SeedKept
<1>6. QuietPass'
  <2> SUFFICES ASSUME pc = "pass", ~changed PROVE QuietPass'
    BY <1>2 DEF QuietPass
  <2>1. RowClosed(src_idx)
    BY <1>0, <1>3 DEF QuietPass, NextRow, RowClosed, row_left
  <2>2. \A s \in Row : s < src_idx' => RowClosed(s)
    <3> SUFFICES ASSUME NEW s \in Row, s < src_idx' PROVE RowClosed(s)
      OBVIOUS
    <3>1. s < src_idx \/ s = src_idx
      BY <1>3 DEF Row
    <3> QED BY <3>1, <2>1, <1>0 DEF QuietPass
  <2>3. src_idx' < N => bits' = data_flows_to'[src_idx']
    BY <1>2 DEF NextRow
  <2> QED BY <2>2, <2>3, <1>2 DEF QuietPass, RowClosed
<1>7. DoneClosed'
  BY <1>0, <1>2 DEF DoneClosed, RowClosed
<1> QED BY <1>1, <1>4, <1>5, <1>6, <1>7 DEF BuildInv

(***************************************************************************)
(* The end of a quiet pass leaves every row closed.                        *)
(***************************************************************************)
LEMMA EndPassInv ==
    ASSUME BuildInv, EndPass
    PROVE  BuildInv'
<1> USE NAssumption
<1>0. BuildTypeOK /\ BitsInRow /\ IndexSound /\ SeedKept /\ QuietPass /\ DoneClosed
  BY DEF BuildInv
<1>1. BuildTypeOK'
  BY <1>0, BuildTypeStep DEF BuildNext
<1>2. Data' = Data /\ spdg' = spdg /\ data_flows_to' = data_flows_to
  BY DEF EndPass, Data
<1>3. BitsInRow'
  BY <1>0, <1>2 DEF BitsInRow, EndPass
<1>4. IndexSound' /\ SeedKept'
  BY <1>0, <1>2 DEF IndexSound, SeedKept
<1>5. QuietPass'
  BY <1>2 DEF QuietPass, EndPass, Row
<1>6. DoneClosed'
  <2>1. CASE changed
    BY <2>1 DEF EndPass, DoneClosed
  <2>2. CASE ~changed
    <3>1. \A s \in Row : s < src_idx
      BY DEF EndPass, Row
    <3> QED BY <3>1, <2>2, <1>0, <1>2 DEF EndPass, QuietPass, DoneClosed, RowClosed
  <2> QED BY <2>1, <2>2
<1> QED BY <1>1, <1>3, <1>4, <1>5, <1>6 DEF BuildInv

LEMMA BuildStep == BuildInv /\ [BuildNext]_build_vars => BuildInv'
<1> SUFFICES ASSUME BuildInv, [BuildNext]_build_vars PROVE BuildInv'
  OBVIOUS
<1>1. CASE UNCHANGED build_vars
  <2>1. Data' = Data
    BY <1>1 DEF build_vars, Data
  <2> QED BY <1>1, <2>1 DEF build_vars, BuildInv, BuildTypeOK, BitsInRow, IndexSound, SeedKept,
                            QuietPass, DoneClosed, RowClosed
<1> QED BY <1>1, VisitInv, NextRowInv, EndPassInv DEF BuildNext

(***************************************************************************)
(* The invariant holds in every state of every execution of build.         *)
(***************************************************************************)
THEOREM BuildInvariance == BuildSpec => []BuildInv
  BY BuildInitInv, BuildStep, PTL DEF BuildSpec

(***************************************************************************)
(* No bit of the matrix ever stands for a flow that does not exist.        *)
(***************************************************************************)
THEOREM Soundness == BuildSpec => []IndexSound
<1>1. BuildInv => IndexSound
  BY DEF BuildInv
<1> QED BY <1>1, BuildInvariance, PTL

\* Closed rows that hold their seed hold all that is reached.
LEMMA BuildInvComplete == BuildInv => IndexComplete
<1> SUFFICES ASSUME BuildInv, pc = "done", NEW a \in Row, NEW b \in Row,
                    Reaches(Row, Data, a, b)
             PROVE  b \in data_flows_to[a]
  BY DEF IndexComplete
<1>1. BuildTypeOK /\ SeedKept /\ RowClosed(a)
  BY DEF BuildInv, DoneClosed
<1>2. \A n \in Row : n \in data_flows_to[n]
  BY <1>1 DEF SeedKept, seeded
<1>3. ClosedUnder(Row, Data, data_flows_to[a])
  <2> SUFFICES ASSUME NEW x \in data_flows_to[a], NEW y \in Row, <<x, y>> \in Data
               PROVE  y \in data_flows_to[a]
    BY DEF ClosedUnder
  <2>1. x \in Row
    BY <1>1 DEF BuildTypeOK
  <2>2. y \in data_flows_to[x]
    BY <1>1, <2>1 DEF SeedKept, seeded, Successors, Data
  <2> QED BY <1>1, <2>2 DEF RowClosed
<1>4. data_flows_to[a] \in SUBSET Row
  BY <1>1 DEF BuildTypeOK
<1> QED BY <1>2, <1>3, <1>4 DEF Reaches

(***************************************************************************)
(* When build returns, the bit of every existing flow is set.              *)
(***************************************************************************)
THEOREM Completeness == BuildSpec => []IndexComplete
  BY BuildInvComplete, BuildInvariance, PTL

-----------------------------------------------------------------------------
(***************************************************************************)
(* Paths.                                                                  *)
(***************************************************************************)
\* The empty path leads from a node to itself.
LEMMA ReachesRefl ==
    ASSUME NEW V, NEW R, NEW a \in V
    PROVE  Reaches(V, R, a, a)
  BY DEF Reaches

\* A path may be followed by a path.
LEMMA ReachesTrans ==
    ASSUME NEW V, NEW R, NEW a \in V, NEW b \in V, NEW c \in V,
           Reaches(V, R, a, b), Reaches(V, R, b, c)
    PROVE  Reaches(V, R, a, c)
  BY DEF Reaches

\* A path may begin with an edge, or end with one.
LEMMA ReachesStep ==
    ASSUME NEW V, NEW R, NEW a \in V, NEW b \in V, NEW c \in V
    PROVE  /\ <<a, b>> \in R => Reaches(V, R, a, b)
           /\ <<a, b>> \in R /\ Reaches(V, R, b, c) => Reaches(V, R, a, c)
           /\ Reaches(V, R, a, b) /\ <<b, c>> \in R => Reaches(V, R, a, c)
  BY DEF Reaches, ClosedUnder

\* A closed set of nodes that holds a holds everything a reaches.
LEMMA ClosedHoldsReached ==
    ASSUME NEW V, NEW R, NEW T \in SUBSET V, NEW a \in T, NEW b,
           ClosedUnder(V, R, T), Reaches(V, R, a, b)
    PROVE  b \in T
  BY DEF Reaches

\* A path is empty or begins with an edge, or rather ends with one.
LEMMA FirstEdge ==
    ASSUME NEW V, NEW R, NEW a \in V, NEW b \in V, Reaches(V, R, a, b), a # b
    PROVE  \E m \in V : <<a, m>> \in R /\ Reaches(V, R, m, b)
<1> DEFINE T == {x \in V : x = a \/ \E m \in V : <<a, m>> \in R /\ Reaches(V, R, m, x)}
<1>1. ASSUME NEW x \in T, NEW y \in V, <<x, y>> \in R PROVE y \in T
  <2>1. CASE x = a
    BY <1>1, <2>1, ReachesRefl
  <2>2. CASE \E m \in V : <<a, m>> \in R /\ Reaches(V, R, m, x)
    BY <1>1, <2>2, ReachesStep
  <2> QED BY <2>1, <2>2
<1>2. ClosedUnder(V, R, T) /\ a \in T /\ T \in SUBSET V
  BY <1>1 DEF ClosedUnder
<1> HIDE DEF T
<1>3. b \in T
  BY <1>2, ClosedHoldsReached
<1> QED BY <1>3 DEF T

LEMMA LastEdge ==
    ASSUME NEW V, NEW R, NEW a \in V, NEW b \in V, Reaches(V, R, a, b), a # b
    PROVE  \E m \in V : Reaches(V, R, a, m) /\ <<m, b>> \in R
<1> DEFINE T == {x \in V : x = a \/ \E m \in V : Reaches(V, R, a, m) /\ <<m, x>> \in R}
<1>1. ASSUME NEW x \in T, NEW y \in V, <<x, y>> \in R PROVE y \in T
  <2>1. Reaches(V, R, a, x)
    BY <1>1, ReachesRefl, ReachesStep
  <2> QED BY <1>1, <2>1
<1>2. ClosedUnder(V, R, T) /\ a \in T /\ T \in SUBSET V
  BY <1>1 DEF ClosedUnder
<1> HIDE DEF T
<1>3. b \in T
  BY <1>2, ClosedHoldsReached
<1> QED BY <1>3 DEF T

\* Against the edges, a path leads back.
LEMMA ReversedEdge ==
    ASSUME NEW V, NEW R \in SUBSET (V \X V), NEW a \in V, NEW b \in V
    PROVE  /\ Reversed(R) \in SUBSET (V \X V)
           /\ <<a, b>> \in Reversed(R) <=> <<b, a>> \in R
<1>1. \A p \in R : p \in V \X V /\ p = <<p[1], p[2]>> /\ p[1] \in V /\ p[2] \in V
  OBVIOUS
<1>2. \A q \in Reversed(R) : \E p \in R : q = <<p[2], p[1]>>
  BY DEF Reversed
<1>3. <<b, a>> \in R => <<a, b>> \in Reversed(R)
  BY DEF Reversed
<1> QED BY <1>1, <1>2, <1>3

LEMMA ReachesReversed ==
    ASSUME NEW V, NEW R \in SUBSET (V \X V), NEW a \in V, NEW b \in V
    PROVE  Reaches(V, Reversed(R), a, b) <=> Reaches(V, R, b, a)
<1>1. ASSUME NEW Q \in SUBSET (V \X V), NEW x \in V, NEW y \in V, Reaches(V, Reversed(Q), x, y)
      PROVE  Reaches(V, Q, y, x)
  <2> DEFINE T == {z \in V : Reaches(V, Q, z, x)}
  <2>1. ASSUME NEW u \in T, NEW z \in V, <<u, z>> \in Reversed(Q) PROVE z \in T
    <3>1. <<z, u>> \in Q
      BY <2>1, ReversedEdge
    <3> QED BY <2>1, <3>1, ReachesStep
  <2>2. ClosedUnder(V, Reversed(Q), T) /\ x \in T /\ T \in SUBSET V
    BY <2>1, ReachesRefl DEF ClosedUnder
  <2> HIDE DEF T
  <2>3. y \in T
    BY <1>1, <2>2, ClosedHoldsReached
  <2> QED BY <2>3 DEF T
<1>2. ASSUME NEW u \in V, NEW z \in V, <<u, z>> \in R
      PROVE  <<u, z>> \in Reversed(Reversed(R))
  BY <1>2, ReversedEdge
<1>3. Reaches(V, R, b, a) => Reaches(V, Reversed(Reversed(R)), b, a)
  BY <1>2 DEF Reaches, ClosedUnder
<1> QED BY <1>1, <1>3, ReversedEdge

-----------------------------------------------------------------------------
(***************************************************************************)
(* Functions that are defined by recursion on numbers.                     *)
(***************************************************************************)
\* A set of numbers that holds 0, and with a number the next one, holds all.
LEMMA Induction ==
    ASSUME NEW S, 0 \in S, \A k \in Nat : k \in S => k + 1 \in S
    PROVE  Nat \subseteq S
<1> SUFFICES ASSUME Nat \ S # {} PROVE FALSE
  OBVIOUS
<1>1. IsWellFoundedOn(OpToRel(<, Nat), Nat)
  BY NatLessThanWellFounded
<1>2. PICK k \in Nat \ S : \A y \in Nat \ S : <<y, k>> \notin OpToRel(<, Nat)
  BY <1>1, WFMin
<1>3. k # 0 /\ k - 1 \in Nat
  OBVIOUS
<1>4. k - 1 \in S
  <2>1. <<k - 1, k>> \in OpToRel(<, Nat)
    BY <1>3 DEF OpToRel
  <2> QED BY <1>2, <1>3, <2>1
<1> QED BY <1>3, <1>4, (k - 1) + 1 = k

\* f starts with a, and g makes the next value of the last.
RecursionFrom(f, a, g) == f[0] = a /\ \A k \in Nat : f[k + 1] = g[k][f[k]]

LEMMA RecursionExists ==
    ASSUME NEW S, NEW a, NEW g, a \in S, g \in [Nat -> [S -> S]]
    PROVE  \E f \in [Nat -> S] : RecursionFrom(f, a, g)
<1> DEFINE Upto(h, k) == /\ h \in [0 .. k -> S]
                         /\ h[0] = a
                         /\ \A i \in 0 .. k : i < k => h[i + 1] = g[i][h[i]]
           Some == {k \in Nat : \E h : Upto(h, k)}
           f == [k \in Nat |-> (CHOOSE x : Upto(x, k))[k]]
<1>1. 0 \in Some
  <2>1. Upto([i \in 0 .. 0 |-> a], 0)
    OBVIOUS
  <2> QED BY <2>1
<1>2. ASSUME NEW k \in Nat, k \in Some PROVE k + 1 \in Some
  <2>1. PICK h : Upto(h, k)
    BY <1>2
  <2> DEFINE h1 == [i \in 0 .. k + 1 |-> IF i = k + 1 THEN g[k][h[k]] ELSE h[i]]
  <2>2. k \in 0 .. k /\ 0 \in 0 .. k + 1 /\ 0 # k + 1 /\ k + 1 \in Nat
    OBVIOUS
  <2>3. \A i \in 0 .. k + 1 : i # k + 1 => i \in 0 .. k
    OBVIOUS
  <2>4. h1 \in [0 .. k + 1 -> S]
    BY <2>1, <2>2, <2>3
  <2>5. h1[0] = a
    BY <2>1, <2>2
  <2>6. ASSUME NEW i \in 0 .. k + 1, i < k + 1 PROVE h1[i + 1] = g[i][h1[i]]
    <3>1. i \in 0 .. k /\ i + 1 \in 0 .. k + 1 /\ (i = k \/ i < k) /\ i # k + 1
      BY <2>6
    <3>2. CASE i = k
      BY <3>1, <3>2
    <3>3. CASE i < k
      <4>1. i + 1 # k + 1
        BY <3>3
      <4> QED BY <2>1, <3>1, <3>3, <4>1
    <3> QED BY <3>1, <3>2, <3>3
  <2>7. Upto(h1, k + 1)
    BY <2>4, <2>5, <2>6
  <2> HIDE DEF h1, Upto
  <2> QED BY <2>2, <2>7
<1>3. Nat \subseteq Some
  <2> HIDE DEF Some
  <2> QED BY <1>1, <1>2, Induction
<1>4. ASSUME NEW k \in Nat PROVE Upto(CHOOSE x : Upto(x, k), k)
  <2> HIDE DEF Upto
  <2> QED BY <1>3
\* Two of them agree as far as both go.
<1>5. ASSUME NEW k \in Nat, NEW h, NEW l, Upto(h, k), Upto(l, k + 1) PROVE h[k] = l[k]
  <2> DEFINE T == {i \in Nat : i <= k => h[i] = l[i]}
  <2>1. 0 \in T
    BY <1>5
  <2>2. ASSUME NEW i \in Nat, i \in T PROVE i + 1 \in T
    <3> SUFFICES ASSUME i + 1 <= k PROVE h[i + 1] = l[i + 1]
      OBVIOUS
    <3>1. i \in 0 .. k /\ i < k /\ i \in 0 .. k + 1 /\ i < k + 1 /\ i <= k
      OBVIOUS
    <3>2. h[i] = l[i]
      BY <2>2, <3>1
    <3> QED BY <1>5, <3>1, <3>2
  <2>3. Nat \subseteq T
    <3> HIDE DEF T
    <3> QED BY <2>1, <2>2, Induction
  <2> QED BY <2>3
<1>6. f \in [Nat -> S] /\ f[0] = a
  <2>1. ASSUME NEW k \in Nat PROVE (CHOOSE x : Upto(x, k))[k] \in S
    <3> DEFINE h == CHOOSE x : Upto(x, k)
    <3>1. Upto(h, k)
      BY <1>4
    <3> HIDE DEF h
    <3>2. h[k] \in S
      BY <3>1
    <3> QED BY <3>2 DEF h
  <2>2. (CHOOSE x : Upto(x, 0))[0] = a
    <3> DEFINE h == CHOOSE x : Upto(x, 0)
    <3>1. Upto(h, 0)
      BY <1>4
    <3> HIDE DEF h
    <3>2. h[0] = a
      BY <3>1
    <3> QED BY <3>2 DEF h
  <2> HIDE DEF Upto
  <2> QED BY <2>1, <2>2
<1>7. ASSUME NEW k \in Nat PROVE f[k + 1] = g[k][f[k]]
  <2> DEFINE h == CHOOSE x : Upto(x, k)
             l == CHOOSE x : Upto(x, k + 1)
  <2>1. Upto(h, k) /\ Upto(l, k + 1) /\ k + 1 \in Nat
    <3> HIDE DEF Upto
    <3> QED BY <1>4
  <2>2. h[k] = l[k]
    <3> HIDE DEF h, l, Upto
    <3> QED BY <1>5, <2>1
  <2>3. l[k + 1] = g[k][l[k]]
    <3> HIDE DEF h, l
    <3> QED BY <2>1
  <2>4. f[k + 1] = l[k + 1] /\ f[k] = h[k]
    BY <2>1
  <2> HIDE DEF h, l, f
  <2> QED BY <2>2, <2>3, <2>4
<1> HIDE DEF f
<1>8. RecursionFrom(f, a, g)
  BY <1>6, <1>7 DEF RecursionFrom
<1> QED BY <1>6, <1>8

-----------------------------------------------------------------------------
(***************************************************************************)
(* Sequences of sets.                                                      *)
(***************************************************************************)
Once(s) == \A i, j \in DOMAIN s : s[i] = s[j] => i = j

\* A sequence as long as a finite set, of its elements, each once, has them all.
LEMMA SequenceOfSet ==
    ASSUME NEW S, IsFiniteSet(S), NEW s \in [1 .. Cardinality(S) -> S], Once(s)
    PROVE  s \in Seq(S) /\ Len(s) = Cardinality(S) /\ ToSet(s) = S
<1> DEFINE n == Cardinality(S)
<1>1. n \in Nat
  BY FS_CardinalityType
<1>2. IsFiniteSet(1 .. n) /\ Cardinality(1 .. n) = n
  <2> HIDE DEF n
  <2>1. 1 \in Int /\ n \in Int /\ (1 > n => n = 0) /\ n - 1 + 1 = n
    BY <1>1
  <2> QED BY <2>1, FS_Interval
<1>3. s \in Injection(1 .. n, S)
  BY DEF Injection, IsInjective, Once
<1>4. s \in Surjection(1 .. n, S)
  <2> HIDE DEF n
  <2>1. \A U : \A W : \A f \in Injection(U, W) : IsFiniteSet(W) =>
            (Cardinality(U) = Cardinality(W) <=> f \in Surjection(U, W))
    BY FS_Injection
  <2> QED BY <1>2, <1>3, <2>1 DEF n
<1>5. s \in Seq(S) /\ Len(s) = n /\ DOMAIN s = 1 .. n
  BY <1>1
<1>6. \A x \in S : \E i \in 1 .. n : s[i] = x
  BY <1>4 DEF Surjection
<1> QED BY <1>5, <1>6 DEF ToSet

LEMMA SetToSeqFacts ==
    ASSUME NEW S, IsFiniteSet(S)
    PROVE  /\ SetToSeq(S) \in Seq(S) /\ Len(SetToSeq(S)) = Cardinality(S)
           /\ ToSet(SetToSeq(S)) = S /\ Once(SetToSeq(S))
<1>1. ExistsBijection(1 .. Cardinality(S), S)
  BY FS_CardinalityType
<1>2. \E f \in [1 .. Cardinality(S) -> S] : IsInjective(f)
  BY <1>1 DEF ExistsBijection, Bijection, Injection
<1>3. SetToSeq(S) \in [1 .. Cardinality(S) -> S] /\ IsInjective(SetToSeq(S))
  BY <1>2 DEF SetToSeq
<1>4. Once(SetToSeq(S))
  BY <1>3 DEF IsInjective, Once
<1> QED BY <1>3, <1>4, SequenceOfSet

LEMMA SetToSeqsFacts ==
    ASSUME NEW S, IsFiniteSet(S), NEW s \in SetToSeqs(S)
    PROVE  s \in Seq(S) /\ ToSet(s) = S /\ Once(s)
<1>1. s \in [1 .. Cardinality(S) -> S] /\ Once(s)
  BY DEF SetToSeqs, Once
<1> QED BY <1>1, SequenceOfSet

LEMMA ConcatFacts ==
    ASSUME NEW S, NEW s \in Seq(S), NEW t \in Seq(S)
    PROVE  /\ s \o t \in Seq(S)
           /\ ToSet(s \o t) = ToSet(s) \cup ToSet(t)
<1>1. \A i \in DOMAIN s : i \in DOMAIN (s \o t) /\ (s \o t)[i] = s[i]
  OBVIOUS
<1>2. \A i \in DOMAIN t : Len(s) + i \in DOMAIN (s \o t) /\ (s \o t)[Len(s) + i] = t[i]
  OBVIOUS
<1>3. \A i \in DOMAIN (s \o t) :
        \/ i \in DOMAIN s /\ (s \o t)[i] = s[i]
        \/ i - Len(s) \in DOMAIN t /\ (s \o t)[i] = t[i - Len(s)]
  OBVIOUS
<1>4. \A x \in ToSet(s \o t) : x \in ToSet(s) \cup ToSet(t)
  BY <1>3 DEF ToSet
<1>5. \A x \in ToSet(s) \cup ToSet(t) : x \in ToSet(s \o t)
  BY <1>1, <1>2 DEF ToSet
<1> QED BY <1>4, <1>5

\* FlattenSeq appends one sequence after the other.
Appended(c, f, n) == \A i \in 1 .. n : c[i] = IF i = 1 THEN f[i] ELSE c[i - 1] \o f[i]

LEMMA FlattenAppends ==
    ASSUME NEW S, NEW n \in Nat \ {0}, NEW f, f \in [1 .. n -> Seq(S)]
    PROVE  \E c : FlattenSeq(f) = c[n] /\ Appended(c, f, n)
<1> DEFINE Flat(c) == c = [i \in 1 .. n |-> IF i = 1 THEN f[i] ELSE c[i - 1] \o f[i]]
           flatten == CHOOSE c : Flat(c)
<1>0. f \in Seq(Seq(S)) /\ Len(f) = n
  OBVIOUS
<1>1. FlattenSeq(f) = flatten[n]
  BY <1>0 DEF FlattenSeq
<1> DEFINE g == [k \in Nat |-> [s \in Seq(S) |-> IF k + 1 \in 1 .. n THEN s \o f[k + 1] ELSE s]]
           none == <<>>
<1>2. none \in Seq(S) /\ g \in [Nat -> [Seq(S) -> Seq(S)]]
  <2>1. \A k \in Nat : k + 1 \in 1 .. n => f[k + 1] \in Seq(S)
    OBVIOUS
  <2>2. \A s, t \in Seq(S) : s \o t \in Seq(S)
    OBVIOUS
  <2> QED BY <2>1, <2>2
<1>3. PICK e \in [Nat -> Seq(S)] : RecursionFrom(e, none, g)
  <2> HIDE DEF g, none
  <2> QED BY <1>2, RecursionExists
<1>4. e[0] = none /\ \A k \in Nat : k + 1 \in 1 .. n => e[k + 1] = e[k] \o f[k + 1]
  BY <1>3 DEF RecursionFrom
<1>5. Flat([i \in 1 .. n |-> e[i]])
  <2> DEFINE c == [i \in 1 .. n |-> e[i]]
  <2>1. ASSUME NEW i \in 1 .. n PROVE c[i] = IF i = 1 THEN f[i] ELSE c[i - 1] \o f[i]
    <3>1. i - 1 \in Nat /\ (i - 1) + 1 = i /\ e[i] = e[i - 1] \o f[i]
      <4>1. i - 1 \in Nat /\ (i - 1) + 1 = i
        OBVIOUS
      <4> QED BY <1>4, <4>1
    <3>2. CASE i = 1
      <4>1. f[1] \in Seq(S) /\ i - 1 = 0
        BY <3>2
      <4>2. none \o f[1] = f[1]
        BY <4>1
      <4> QED BY <1>4, <3>1, <3>2, <4>1, <4>2
    <3>3. CASE i # 1
      <4>1. i - 1 \in 1 .. n
        BY <3>3
      <4> QED BY <3>1, <3>3, <4>1
    <3> QED BY <3>2, <3>3
  <2> HIDE DEF c
  <2>2. c = [i \in 1 .. n |-> c[i]]
    BY DEF c
  <2>3. c = [i \in 1 .. n |-> IF i = 1 THEN f[i] ELSE c[i - 1] \o f[i]]
    BY <2>1, <2>2
  <2> QED BY <2>3 DEF c
<1>6. Flat(flatten)
  <2> HIDE DEF Flat
  <2> QED BY <1>5
<1> HIDE DEF flatten
<1>7. \A i \in 1 .. n : flatten[i] = IF i = 1 THEN f[i] ELSE flatten[i - 1] \o f[i]
  BY <1>6
<1> HIDE DEF Flat
<1>8. Appended(flatten, f, n)
  BY <1>7 DEF Appended
<1> QED BY <1>1, <1>8

LEMMA FlattenFacts ==
    ASSUME NEW S, NEW n \in Nat, NEW f, f \in [1 .. n -> Seq(S)]
    PROVE  /\ FlattenSeq(f) \in Seq(S)
           /\ \A x : x \in ToSet(FlattenSeq(f)) <=> \E i \in 1 .. n : x \in ToSet(f[i])
           /\ n = 1 => FlattenSeq(f) = f[1]
<1>1. CASE n = 0
  <2>1. FlattenSeq(f) = f /\ f = <<>> /\ 1 .. n = {}
    <3>1. f = <<>> /\ 1 .. n = {}
      BY <1>1
    <3> QED BY <3>1 DEF FlattenSeq
  <2>2. <<>> \in Seq(S) /\ ToSet(<<>>) = {}
    BY DEF ToSet
  <2> QED BY <1>1, <2>1, <2>2
<1>2. CASE n # 0
  <2>0. n \in Nat \ {0}
    BY <1>2
  <2>1. PICK c : FlattenSeq(f) = c[n] /\ Appended(c, f, n)
    BY <2>0, FlattenAppends
  <2> DEFINE Right(i) == /\ c[i] \in Seq(S)
                         /\ \A x : x \in ToSet(c[i]) <=> \E j \in 1 .. i : x \in ToSet(f[j])
             T == {k \in Nat : k \in 1 .. n => Right(k)}
  <2>2. ASSUME NEW k \in Nat, k \in 1 .. n => Right(k), k + 1 \in 1 .. n PROVE Right(k + 1)
    <3>1. c[k + 1] = IF k + 1 = 1 THEN f[k + 1] ELSE c[(k + 1) - 1] \o f[k + 1]
      BY <2>1, <2>2 DEF Appended
    <3>2. f[k + 1] \in Seq(S)
      BY <2>2
    <3>3. CASE k = 0
      <4>1. c[k + 1] = f[k + 1] /\ 1 .. k + 1 = {k + 1}
        BY <3>1, <3>3
      <4> QED BY <3>2, <4>1
    <3>4. CASE k # 0
      <4>1. k + 1 # 1 /\ (k + 1) - 1 = k /\ k \in 1 .. n
        BY <2>2, <3>4
      <4>2. c[k + 1] = c[k] \o f[k + 1]
        BY <3>1, <4>1
      <4>3. Right(k)
        BY <2>2, <4>1
      <4>4. /\ c[k + 1] \in Seq(S)
            /\ ToSet(c[k + 1]) = ToSet(c[k]) \cup ToSet(f[k + 1])
        <5>1. c[k] \in Seq(S)
          BY <4>3
        <5>2. /\ c[k] \o f[k + 1] \in Seq(S)
              /\ ToSet(c[k] \o f[k + 1]) = ToSet(c[k]) \cup ToSet(f[k + 1])
          BY <5>1, <3>2, ConcatFacts
        <5> QED BY <5>2, <4>2
      <4>5. ASSUME NEW x PROVE x \in ToSet(c[k + 1]) <=> \E j \in 1 .. k + 1 : x \in ToSet(f[j])
        <5>1. x \in ToSet(c[k + 1]) <=> x \in ToSet(c[k]) \/ x \in ToSet(f[k + 1])
          BY <4>4
        <5>2. x \in ToSet(c[k]) <=> \E j \in 1 .. k : x \in ToSet(f[j])
          BY <4>3
        <5>3. \A j \in 1 .. k + 1 : j \in 1 .. k \/ j = k + 1
          OBVIOUS
        <5>4. \A j \in 1 .. k : j \in 1 .. k + 1
          OBVIOUS
        <5>5. k + 1 \in 1 .. k + 1
          OBVIOUS
        <5> QED BY ONLY <5>1, <5>2, <5>3, <5>4, <5>5
      <4> QED BY <4>4, <4>5
    <3> QED BY <3>3, <3>4
  <2>3. 0 \in T
    OBVIOUS
  <2>4. \A k \in Nat : k \in T => k + 1 \in T
    <3> HIDE DEF Right
    <3> QED BY <2>2
  <2>5. n \in T
    <3> HIDE DEF T
    <3> QED BY <2>3, <2>4, Induction
  <2>6. n \in 1 .. n
    BY <2>0
  <2>7. Right(n)
    <3> HIDE DEF Right
    <3> QED BY <2>5, <2>6
  <2>8. n = 1 => c[n] = f[1]
    BY <2>1, <2>6 DEF Appended
  <2> QED BY <2>1, <2>7, <2>8
<1> QED BY <1>1, <1>2

\* The edges that a selection admits join nodes.
LEMMA FilterType ==
    ASSUME NEW V, NEW g \in SPDGsOver(V), NEW sel \in EdgeSelection
    PROVE  filter_graph(g, sel) \in SUBSET (V \X V)
<1>1. g["Data"] \in SUBSET (V \X V) /\ g["Control"] \in SUBSET (V \X V)
  BY DEF SPDGsOver, EdgeKind
<1> QED BY <1>1 DEF filter_graph, EdgeSelection

\* R without the edges that lead into A.
NotInto(R, A) == {p \in R : p[2] \notin A}

\* Some path ends with the first edge that leads to b.
LEMMA LastEdgeAvoiding ==
    ASSUME NEW V, NEW R, NEW a \in V, NEW b \in V, Reaches(V, R, a, b), a # b
    PROVE  \E m \in V \ {b} : <<m, b>> \in R /\ Reaches(V, NotInto(R, {b}), a, m)
<1> DEFINE T == {x \in V \ {b} : Reaches(V, NotInto(R, {b}), a, x)}
<1> SUFFICES ASSUME \A m \in T : <<m, b>> \notin R PROVE FALSE
  OBVIOUS
<1>1. a \in T
  BY ReachesRefl
<1>2. ASSUME NEW x \in T, NEW y \in V, <<x, y>> \in R PROVE y \in T
  <2>1. y # b
    BY <1>2
  <2>2. <<x, y>> \in NotInto(R, {b})
    BY <1>2, <2>1 DEF NotInto
  <2> QED BY <1>2, <2>1, <2>2, ReachesStep
<1> HIDE DEF T
<1>3. ClosedUnder(V, R, T)
  BY <1>2 DEF ClosedUnder
<1>4. b \in T
  BY <1>1, <1>3, ClosedHoldsReached DEF T
<1> QED BY <1>4 DEF T

\* A node that is reached without entering A is not in A.
LEMMA NotEntered ==
    ASSUME NEW V, NEW R, NEW A, NEW a \in V, NEW b, a \notin A,
           Reaches(V, NotInto(R, A), a, b)
    PROVE  b \notin A
<1>1. ClosedUnder(V, NotInto(R, A), V \ A)
  BY DEF ClosedUnder, NotInto
<1>2. a \in V \ A /\ V \ A \in SUBSET V
  OBVIOUS
<1>3. b \in V \ A
  BY <1>1, <1>2, ClosedHoldsReached
<1> QED BY <1>3

\* What is not reached without entering x is reached by way of x.
LEMMA ByWayOf ==
    ASSUME NEW V, NEW R, NEW a \in V, NEW b, NEW x \in V, Reaches(V, R, a, b),
           ~Reaches(V, NotInto(R, {x}), a, b)
    PROVE  Reaches(V, R, a, x)
<1> DEFINE Q == NotInto(R, {x})
           T == {z \in V : Reaches(V, Q, a, z) /\ Reaches(V, R, a, z)}
<1> SUFFICES ASSUME ~Reaches(V, R, a, x) PROVE FALSE
  OBVIOUS
<1>1. a \in T /\ T \in SUBSET V
  BY ReachesRefl
<1>2. ASSUME NEW z \in T, NEW w \in V, <<z, w>> \in R PROVE w \in T
  <2>1. Reaches(V, R, a, w)
    BY <1>2, ReachesStep
  <2>2. w # x
    BY <2>1
  <2>3. <<z, w>> \in Q
    BY <1>2, <2>2 DEF NotInto
  <2> HIDE DEF Q
  <2>4. Reaches(V, Q, a, w)
    BY <1>2, <2>3, ReachesStep
  <2> QED BY <2>1, <2>4
<1> HIDE DEF T
<1>3. ClosedUnder(V, R, T)
  BY <1>2 DEF ClosedUnder
<1>4. b \in T
  BY <1>1, <1>3, ClosedHoldsReached
<1> QED BY <1>4 DEF T

LEMMA NotIntoTwice ==
    ASSUME NEW R, NEW A, NEW B
    PROVE  NotInto(NotInto(R, A), B) = NotInto(R, A \cup B)
  BY DEF NotInto

\* Numbers have a least one.
LEMMA Least ==
    ASSUME NEW S \in SUBSET Nat, S # {}
    PROVE  \E k \in S : \A j \in S : k <= j
<1>1. IsWellFoundedOn(OpToRel(<, Nat), Nat)
  BY NatLessThanWellFounded
<1>2. PICK k \in S : \A y \in S : <<y, k>> \notin OpToRel(<, Nat)
  BY <1>1, WFMin
<1>3. \A y \in S : ~(y < k)
  BY <1>2 DEF OpToRel
<1> QED BY <1>3

\* In a finite set whose nodes all have a predecessor in it there is a cycle.
LEMMA CycleExists ==
    ASSUME NEW V, NEW R, NEW U \in SUBSET V, IsFiniteSet(U), U # {},
           \A m \in U : \E p \in U : <<p, m>> \in R
    PROVE  \E p \in U, m \in U : <<p, m>> \in R /\ Reaches(V, R, m, p)
<1> DEFINE before(m) == {p \in U : Reaches(V, R, p, m)}
           S == {Cardinality(before(m)) : m \in U}
<1>1. \A m \in U : before(m) \in SUBSET U /\ IsFiniteSet(before(m))
  BY FS_Subset
<1>2. S \in SUBSET Nat /\ S # {}
  BY <1>1, FS_CardinalityType
<1>3. PICK k \in S : \A j \in S : k <= j
  <2> HIDE DEF S
  <2> QED BY <1>2, Least
<1>4. PICK m \in U : k = Cardinality(before(m))
  OBVIOUS
<1>5. PICK p \in U : <<p, m>> \in R
  OBVIOUS
<1>6. before(p) \subseteq before(m)
  BY <1>5, ReachesStep
<1>7. Cardinality(before(m)) <= Cardinality(before(p))
  BY <1>3, <1>4
<1>8. before(m) = before(p)
  <2> HIDE DEF before
  <2>1. IsFiniteSet(before(m)) /\ before(p) \in SUBSET before(m)
    BY <1>1, <1>6
  <2>2. Cardinality(before(p)) <= Cardinality(before(m))
    BY <2>1, FS_Subset
  <2>3. Cardinality(before(p)) \in Nat /\ Cardinality(before(m)) \in Nat
    BY <1>1, FS_CardinalityType
  <2>4. Cardinality(before(p)) = Cardinality(before(m))
    BY <1>7, <2>2, <2>3
  <2> QED BY <2>1, <2>4, FS_Subset
<1>9. m \in before(m)
  BY ReachesRefl
<1> QED BY <1>5, <1>8, <1>9

-----------------------------------------------------------------------------
(***************************************************************************)
(* Walks: paths with a number of edges.                                    *)
(***************************************************************************)
Walk(V, R, a, b, k) ==
    \E f \in [0 .. k -> V] : f[0] = a /\ f[k] = b /\ \A i \in 0 .. k : i < k => <<f[i], f[i + 1]>> \in R

LEMMA WalkNone ==
    ASSUME NEW V, NEW R, NEW a \in V, NEW b \in V
    PROVE  Walk(V, R, a, b, 0) <=> a = b
<1>1. a = b => Walk(V, R, a, b, 0)
  <2> SUFFICES ASSUME a = b PROVE Walk(V, R, a, b, 0)
    OBVIOUS
  <2> DEFINE f == [i \in 0 .. 0 |-> a]
  <2>1. f \in [0 .. 0 -> V] /\ f[0] = a /\ f[0] = b /\ \A i \in 0 .. 0 : i < 0 => <<f[i], f[i + 1]>> \in R
    OBVIOUS
  <2> HIDE DEF f
  <2> QED BY <2>1 DEF Walk
<1> QED BY <1>1 DEF Walk

LEMMA WalkEdge ==
    ASSUME NEW V, NEW R, NEW a \in V, NEW b \in V, NEW k \in Nat
    PROVE  Walk(V, R, a, b, k + 1) <=> \E m \in V : Walk(V, R, a, m, k) /\ <<m, b>> \in R
<1>1. ASSUME Walk(V, R, a, b, k + 1) PROVE \E m \in V : Walk(V, R, a, m, k) /\ <<m, b>> \in R
  <2>1. PICK f \in [0 .. k + 1 -> V] : /\ f[0] = a /\ f[k + 1] = b
                                       /\ \A i \in 0 .. k + 1 : i < k + 1 => <<f[i], f[i + 1]>> \in R
    BY <1>1 DEF Walk
  <2> DEFINE g == [i \in 0 .. k |-> f[i]]
  <2>2. k \in 0 .. k + 1 /\ 0 \in 0 .. k /\ k \in 0 .. k /\ k < k + 1
    OBVIOUS
  <2>3. \A i \in 0 .. k : i \in 0 .. k + 1 /\ i < k + 1 /\ (i < k => i + 1 \in 0 .. k)
    OBVIOUS
  <2>4. g \in [0 .. k -> V] /\ g[0] = a /\ g[k] = f[k]
    BY <2>1, <2>2, <2>3
  <2>5. \A i \in 0 .. k : i < k => <<g[i], g[i + 1]>> \in R
    BY <2>1, <2>3
  <2> HIDE DEF g
  <2>6. Walk(V, R, a, f[k], k)
    BY <2>4, <2>5 DEF Walk
  <2> QED BY <2>1, <2>2, <2>6
<1>2. ASSUME NEW m \in V, Walk(V, R, a, m, k), <<m, b>> \in R PROVE Walk(V, R, a, b, k + 1)
  <2>1. PICK f \in [0 .. k -> V] : /\ f[0] = a /\ f[k] = m
                                   /\ \A i \in 0 .. k : i < k => <<f[i], f[i + 1]>> \in R
    BY <1>2 DEF Walk
  <2> DEFINE g == [i \in 0 .. k + 1 |-> IF i = k + 1 THEN b ELSE f[i]]
  <2>2. 0 \in 0 .. k + 1 /\ 0 # k + 1 /\ k + 1 \in 0 .. k + 1 /\ k \in 0 .. k + 1 /\ k # k + 1
    OBVIOUS
  <2>3. \A i \in 0 .. k + 1 : i # k + 1 => i \in 0 .. k /\ i + 1 \in 0 .. k + 1
    OBVIOUS
  <2>4. g \in [0 .. k + 1 -> V] /\ g[0] = a /\ g[k + 1] = b
    BY <2>1, <2>2, <2>3
  <2>5. ASSUME NEW i \in 0 .. k + 1, i < k + 1 PROVE <<g[i], g[i + 1]>> \in R
    <3>1. i \in 0 .. k /\ i + 1 \in 0 .. k + 1 /\ i # k + 1 /\ (i = k \/ i < k)
      BY <2>5
    <3>2. CASE i = k
      BY <1>2, <2>1, <2>2, <3>1, <3>2
    <3>3. CASE i < k
      <4>1. i + 1 # k + 1
        BY <3>3
      <4> QED BY <2>1, <3>1, <3>3, <4>1
    <3> QED BY <3>1, <3>2, <3>3
  <2> HIDE DEF g
  <2> QED BY <2>4, <2>5 DEF Walk
<1> QED BY <1>1, <1>2

\* Against the edges, a walk leads back.
LEMMA WalkReversed ==
    ASSUME NEW V, NEW R \in SUBSET (V \X V), NEW a \in V, NEW b \in V, NEW k \in Nat
    PROVE  Walk(V, Reversed(R), a, b, k) <=> Walk(V, R, b, a, k)
<1>1. ASSUME NEW P, NEW Q, \A x, y \in V : <<x, y>> \in P => <<y, x>> \in Q,
             NEW c \in V, NEW d \in V, Walk(V, P, c, d, k)
      PROVE  Walk(V, Q, d, c, k)
  <2>1. PICK f \in [0 .. k -> V] : /\ f[0] = c /\ f[k] = d
                                   /\ \A i \in 0 .. k : i < k => <<f[i], f[i + 1]>> \in P
    BY <1>1 DEF Walk
  <2> DEFINE g == [i \in 0 .. k |-> f[k - i]]
  <2>2. \A i \in 0 .. k : k - i \in 0 .. k
    OBVIOUS
  <2>3. 0 \in 0 .. k /\ k \in 0 .. k /\ k - 0 = k /\ k - k = 0
    OBVIOUS
  <2>4. g \in [0 .. k -> V] /\ g[0] = d /\ g[k] = c
    BY <2>1, <2>2, <2>3
  <2>5. ASSUME NEW i \in 0 .. k, i < k PROVE <<g[i], g[i + 1]>> \in Q
    <3>1. /\ i + 1 \in 0 .. k /\ k - (i + 1) \in 0 .. k /\ k - (i + 1) < k
          /\ (k - (i + 1)) + 1 = k - i /\ k - i \in 0 .. k
      BY <2>5
    <3>2. <<f[k - (i + 1)], f[k - i]>> \in P
      BY <2>1, <3>1
    <3>3. f[k - (i + 1)] \in V /\ f[k - i] \in V
      BY <3>1
    <3>4. g[i] = f[k - i] /\ g[i + 1] = f[k - (i + 1)]
      BY <3>1
    <3> QED BY <1>1, <3>2, <3>3, <3>4
  <2> HIDE DEF g
  <2> QED BY <2>4, <2>5 DEF Walk
<1>2. \A x, y \in V : <<x, y>> \in Reversed(R) <=> <<y, x>> \in R
  BY ReversedEdge
<1> QED BY <1>1, <1>2

\* A node is reached by a walk.
LEMMA WalkReaches ==
    ASSUME NEW V, NEW R, NEW a \in V, NEW b \in V
    PROVE  Reaches(V, R, a, b) <=> \E k \in Nat : Walk(V, R, a, b, k)
<1>1. ASSUME Reaches(V, R, a, b) PROVE \E k \in Nat : Walk(V, R, a, b, k)
  <2> DEFINE T == {x \in V : \E k \in Nat : Walk(V, R, a, x, k)}
  <2>1. a \in T
    <3>1. 0 \in Nat /\ Walk(V, R, a, a, 0)
      BY WalkNone
    <3> QED BY <3>1
  <2>2. ASSUME NEW x \in T, NEW y \in V, <<x, y>> \in R PROVE y \in T
    <3>1. PICK k \in Nat : Walk(V, R, a, x, k)
      OBVIOUS
    <3>2. Walk(V, R, a, y, k + 1)
      BY <2>2, <3>1, WalkEdge
    <3>3. k + 1 \in Nat
      OBVIOUS
    <3> QED BY <3>2, <3>3
  <2>3. ClosedUnder(V, R, T) /\ T \in SUBSET V
    BY <2>2 DEF ClosedUnder
  <2> HIDE DEF T
  <2>4. b \in T
    BY <1>1, <2>1, <2>3, ClosedHoldsReached
  <2> QED BY <2>4 DEF T
<1>2. ASSUME NEW k \in Nat, Walk(V, R, a, b, k) PROVE Reaches(V, R, a, b)
  <2> DEFINE T == {j \in Nat : \A x \in V : Walk(V, R, a, x, j) => Reaches(V, R, a, x)}
  <2>1. 0 \in T
    BY WalkNone, ReachesRefl
  <2>2. ASSUME NEW j \in Nat, j \in T PROVE j + 1 \in T
    <3> SUFFICES ASSUME NEW x \in V, Walk(V, R, a, x, j + 1) PROVE Reaches(V, R, a, x)
      OBVIOUS
    <3>1. PICK m \in V : Walk(V, R, a, m, j) /\ <<m, x>> \in R
      BY WalkEdge
    <3>2. Reaches(V, R, a, m)
      BY <2>2, <3>1
    <3> QED BY <3>1, <3>2, ReachesStep
  <2>3. k \in T
    <3> HIDE DEF T
    <3> QED BY <2>1, <2>2, Induction
  <2> QED BY <1>2, <2>3
<1> QED BY <1>1, <1>2

-----------------------------------------------------------------------------
(***************************************************************************)
(* Typing.                                                                 *)
(***************************************************************************)
Phase == {"ask", "search", "bfs", "topo", "collected", "done"}

QueryType ==
    /\ query \in Query \/ (query = NoQuery /\ phase = "done")
    /\ phase \in Phase
    /\ stage \in {1, 2}
    /\ edges \in SUBSET (Node \X Node)
    /\ todo \in SUBSET Node /\ discovered \in SUBSET Node /\ root_like \in SUBSET Node
    /\ queue \in Seq(Node) /\ out \in Seq(Node)
    /\ ancestors \in [Node -> Node \cup {None}]

\* Which query is in which phase.
Phases ==
    /\ phase = "search" => query.kind \in {"flows_to", "has_ctrl_influence"}
    /\ phase \in {"bfs", "collected"} =>
          query.kind \in {"influencers", "influencees", "has_ctrl_influence", "shortest_path"}
    /\ phase = "topo" => query.kind = "roots"
    /\ stage = 2 => query.kind = "has_ctrl_influence"
    /\ phase \in {"bfs", "collected"} /\ query.kind = "has_ctrl_influence" => stage = 2

\* What a policy may do with its queries.
QStep == (\E q \in Query : Ask(q)) \/ QueryStep \/ UNCHANGED query_vars

LEMMA QueryFields ==
    ASSUME NEW q \in Query
    PROVE  /\ q.kind \in Kind /\ q.spdg \in SPDGsOver(Node) /\ q.sel \in EdgeSelection
           /\ q.use_index \in BOOLEAN /\ q.same_controller \in BOOLEAN
           /\ q.from \in SUBSET Node /\ q.to \in SUBSET Node /\ q.sources \in SUBSET Node
           /\ IsFiniteSet(q.from)
           /\ q.kind = "shortest_path" => \E a, b \in Node : q.from = {a} /\ q.to = {b}
<1>1. /\ q.kind \in Kind /\ q.spdg \in SPDGsOver(Node) /\ q.sel \in EdgeSelection
      /\ q.use_index \in BOOLEAN /\ q.same_controller \in BOOLEAN
      /\ q.from \in SUBSET Node /\ q.to \in SUBSET Node /\ q.sources \in SUBSET Node
  BY DEF Query
<1>2. q.kind = "shortest_path" => \E a, b \in Node : q.from = {a} /\ q.to = {b}
  BY DEF Query
<1>3. IsFiniteSet(q.from)
  BY <1>1, FiniteAssumption, FS_Subset
<1> QED BY <1>1, <1>2, <1>3

LEMMA NodesFinite ==
    ASSUME NEW S \in SUBSET Node
    PROVE  IsFiniteSet(S)
  BY FiniteAssumption, FS_Subset

\* What the ways up from a node are.
Ups(up, to, self) ==
    /\ up[0] = <<to>>
    /\ \A k \in Nat :
          LET n == ancestors[up[k][Len(up[k])]]
          IN  up[k + 1] = IF n \in {None, self} THEN up[k] ELSE Append(up[k], n)

LEMMA PathFrom ==
    ASSUME ancestors \in [Node -> Node \cup {None}], NEW to \in Node, NEW self
    PROVE  \E up \in [Nat -> {p \in Seq(Node) : p # <<>>}] :
              Ups(up, to, self) /\ path_from(to, self) = up[Cardinality(Node)]
<1> DEFINE S == {p \in Seq(Node) : p # <<>>}
           next(p) == LET n == ancestors[p[Len(p)]]
                      IN  IF n \in {None, self} THEN p ELSE Append(p, n)
           Def(h) == h = [k \in Nat |-> IF k = 0 THEN <<to>> ELSE
                            LET p == h[k - 1]
                                n == ancestors[p[Len(p)]]
                            IN  IF n \in {None, self} THEN p ELSE Append(p, n)]
           g == [k \in Nat |-> [p \in S |-> next(p)]]
           a == <<to>>
           up == CHOOSE h : Def(h)
<1>1. ASSUME NEW p \in S PROVE next(p) \in S
  <2>1. Len(p) \in 1 .. Len(p) /\ p[Len(p)] \in Node
    OBVIOUS
  <2>2. ancestors[p[Len(p)]] \in Node \cup {None}
    BY <2>1
  <2> QED BY <2>2
<1>2. a \in S /\ g \in [Nat -> [S -> S]]
  <2> HIDE DEF next
  <2>1. a \in S
    OBVIOUS
  <2> HIDE DEF S
  <2> QED BY <1>1, <2>1
<1>3. PICK e \in [Nat -> S] : RecursionFrom(e, a, g)
  <2> HIDE DEF a, g, S
  <2> QED BY <1>2, RecursionExists
<1>4. \A k \in Nat : e[k + 1] = next(e[k])
  <2> HIDE DEF S, next
  <2> QED BY <1>3 DEF RecursionFrom
<1>5. Def(e)
  <2>1. ASSUME NEW k \in Nat, k # 0 PROVE e[k] = next(e[k - 1])
    <3>1. k - 1 \in Nat /\ (k - 1) + 1 = k
      BY <2>1
    <3> HIDE DEF next
    <3> QED BY <1>4, <3>1
  <2>2. e[0] = <<to>>
    BY <1>3 DEF RecursionFrom
  <2>3. e = [k \in Nat |-> e[k]]
    BY <1>3
  <2> QED BY <2>1, <2>2, <2>3
<1>6. Def(up)
  <2> HIDE DEF Def
  <2> QED BY <1>5
<1>7. path_from(to, self) = up[Cardinality(Node)]
  BY DEF path_from
<1> HIDE DEF up
<1>8. up[0] = <<to>> /\ \A k \in Nat : up[k + 1] = next(up[k])
  <2>1. up[0] = <<to>>
    BY <1>6
  <2>2. ASSUME NEW k \in Nat PROVE up[k + 1] = next(up[k])
    <3>1. k + 1 \in Nat /\ k + 1 # 0 /\ (k + 1) - 1 = k
      OBVIOUS
    <3> QED BY <1>6, <3>1
  <2> QED BY <2>1, <2>2
<1>9. up \in [Nat -> S]
  <2> DEFINE T == {k \in Nat : up[k] \in S}
  <2>1. 0 \in T
    <3> HIDE DEF S, next
    <3> QED BY <1>2, <1>8
  <2>2. \A k \in Nat : k \in T => k + 1 \in T
    <3> HIDE DEF S, next
    <3> QED BY <1>1, <1>8
  <2>3. Nat \subseteq T
    <3> HIDE DEF T
    <3> QED BY <2>1, <2>2, Induction
  <2>4. up = [k \in Nat |-> up[k]]
    BY <1>6
  <2> HIDE DEF S
  <2> QED BY <2>3, <2>4
<1>10. Ups(up, to, self)
  BY <1>8 DEF Ups
<1> QED BY <1>7, <1>9, <1>10

LEMMA InitQuery == NothingAsked => QueryType /\ Phases
  BY DEF NothingAsked, QueryType, Phases, Phase, NoQuery

\* What a step that does not ask leaves alone.
LEMMA AskType ==
    ASSUME QueryType, Phases, NEW q \in Query, Ask(q)
    PROVE  QueryType' /\ Phases'
  BY DEF Ask, QueryType, Phases, Phase

LEMMA SuccessorsType == \A R, n : Successors(Node, R, n) \in SUBSET Node
  BY DEF Successors

\* The search of flows_to is set up, or there is an answer.
LEMMA FlowsToType ==
    ASSUME QueryType, Phases, query \in Query, NEW S \in SUBSET Node,
           NEW sel \in EdgeSelection, flows_to(S, sel),
           query.kind \in {"flows_to", "has_ctrl_influence"}
    PROVE  QueryType' /\ Phases'
<1>1. filter_graph(query.spdg, sel) \in SUBSET (Node \X Node)
  BY QueryFields, FilterType
<1>2. CASE is_indexed(sel) \/ ~query.same_controller \/ S = {} \/ query.to = {}
  <2> DEFINE yes == is_indexed(sel) /\ query.same_controller /\ \E n \in S : index(n) \cap query.to # {}
  <2>1. Answer(yes) /\ UNCHANGED traversal /\ UNCHANGED <<query, ancestors, root_like, out>>
    BY <1>2 DEF flows_to
  <2> HIDE DEF yes
  <2> QED BY <2>1 DEF QueryType, Phases, Phase, Answer, Return, traversal
<1>3. CASE ~(is_indexed(sel) \/ ~query.same_controller \/ S = {} \/ query.to = {})
  <2>1. /\ phase' = "search" /\ edges' = filter_graph(query.spdg, sel)
        /\ todo' = S /\ queue' = <<>> /\ discovered' = {}
        /\ UNCHANGED <<stage, answer, query, ancestors, root_like, out>>
    BY <1>3 DEF flows_to
  <2>2. QueryType'
    BY <1>1, <2>1 DEF QueryType, Phase
  <2> QED BY <2>1, <2>2 DEF Phases
<1> QED BY <1>2, <1>3

LEMMA BfsType ==
    ASSUME QueryType, Phases, query \in Query, NEW R \in SUBSET (Node \X Node), bfs_iter(R),
           query.kind \in {"influencers", "influencees", "has_ctrl_influence", "shortest_path"},
           query.kind = "has_ctrl_influence" => stage = 2
    PROVE  QueryType' /\ Phases'
<1>1. query.from \in SUBSET Node /\ SetToSeq(query.from) \in Seq(Node)
  <2>1. SetToSeq(query.from) \in Seq(query.from) /\ query.from \in SUBSET Node
    BY QueryFields, SetToSeqFacts
  <2> QED BY <2>1
<1>2. QueryType'
  BY <1>1 DEF bfs_iter, QueryType, Phase
<1> QED BY <1>2 DEF bfs_iter, Phases

\* The rows of the index, one after the other.
LEMMA IndexedRows ==
    ASSUME query \in Query
    PROVE  LET rows == FlattenSeq([i \in 1 .. Cardinality(query.from) |->
                                      SetToSeq(index(SetToSeq(query.from)[i]))])
           IN  /\ rows \in Seq(Node)
               /\ ToSet(rows) = {m \in Node : \E a \in query.from : m \in index(a)}
               /\ Cardinality(query.from) <= 1 => Once(rows)
<1> DEFINE n == Cardinality(query.from)
           f == [i \in 1 .. n |-> SetToSeq(index(SetToSeq(query.from)[i]))]
<1>1. n \in Nat /\ IsFiniteSet(query.from)
  BY QueryFields, FS_CardinalityType
<1>2. /\ SetToSeq(query.from) \in Seq(query.from) /\ Len(SetToSeq(query.from)) = n
      /\ ToSet(SetToSeq(query.from)) = query.from
  BY <1>1, SetToSeqFacts
<1>3. ASSUME NEW a
      PROVE  /\ index(a) \in SUBSET Node
             /\ SetToSeq(index(a)) \in Seq(Node) /\ ToSet(SetToSeq(index(a))) = index(a)
             /\ Once(SetToSeq(index(a)))
  <2>1. index(a) \in SUBSET Node
    BY DEF index
  <2>2. /\ SetToSeq(index(a)) \in Seq(index(a)) /\ ToSet(SetToSeq(index(a))) = index(a)
        /\ Once(SetToSeq(index(a)))
    BY <2>1, NodesFinite, SetToSeqFacts
  <2> QED BY <2>1, <2>2
<1>4. f \in [1 .. n -> Seq(Node)]
  BY <1>3
<1>5. \A a \in query.from : \E i \in 1 .. n : a = SetToSeq(query.from)[i]
  BY <1>2 DEF ToSet
<1>6. \A i \in 1 .. n : SetToSeq(query.from)[i] \in query.from
  BY <1>2
<1>7. \A i \in 1 .. n : ToSet(f[i]) = index(SetToSeq(query.from)[i]) /\ Once(f[i])
  BY <1>3
<1> HIDE DEF f
<1>8. /\ FlattenSeq(f) \in Seq(Node)
      /\ \A x : x \in ToSet(FlattenSeq(f)) <=> \E i \in 1 .. n : x \in ToSet(f[i])
      /\ n = 1 => FlattenSeq(f) = f[1]
  <2> HIDE DEF n
  <2> QED BY <1>1, <1>4, FlattenFacts
<1>9. ToSet(FlattenSeq(f)) = {m \in Node : \E a \in query.from : m \in index(a)}
  <2>1. \A x : x \in ToSet(FlattenSeq(f)) <=> \E a \in query.from : x \in index(a)
    BY <1>5, <1>6, <1>7, <1>8
  <2>2. \A a : index(a) \in SUBSET Node
    BY <1>3
  <2> QED BY <2>1, <2>2
<1>10. n <= 1 => Once(FlattenSeq(f))
  <2>1. CASE n = 1
    <3>1. 1 \in 1 .. n
      BY <2>1
    <3> QED BY <2>1, <3>1, <1>7, <1>8
  <2>2. CASE n = 0
    <3>1. f = <<>> /\ 1 .. n = {}
      BY <2>2, <1>4
    <3>2. FlattenSeq(f) = <<>>
      BY <3>1 DEF FlattenSeq
    <3> QED BY <3>2 DEF Once
  <2> QED BY <1>1, <2>1, <2>2
<1> QED BY <1>8, <1>9, <1>10 DEF f

LEMMA InfluenceesType ==
    ASSUME QueryType, Phases, query \in Query, NEW sel \in EdgeSelection, influencees(sel),
           query.kind \in {"influencees", "has_ctrl_influence"},
           query.kind = "has_ctrl_influence" => stage = 2
    PROVE  QueryType' /\ Phases'
<1>1. CASE is_indexed(sel)
  <2> DEFINE rows == FlattenSeq([i \in 1 .. Cardinality(query.from) |->
                                      SetToSeq(index(SetToSeq(query.from)[i]))])
  <2>1. rows \in Seq(Node)
    BY IndexedRows
  <2>2. /\ out' = rows /\ phase' = "collected"
        /\ UNCHANGED <<query, stage, traversal, ancestors, root_like, answer>>
    BY <1>1 DEF influencees
  <2> HIDE DEF rows
  <2>3. QueryType'
    BY <2>1, <2>2 DEF QueryType, Phase, traversal
  <2> QED BY <2>2, <2>3 DEF Phases
<1>2. CASE ~is_indexed(sel)
  <2>1. bfs_iter(filter_graph(query.spdg, sel))
    BY <1>2 DEF influencees
  <2> QED BY <2>1, QueryFields, FilterType, BfsType
<1> QED BY <1>1, <1>2

LEMMA DiscoverType ==
    ASSUME QueryType, Phases, NEW n \in Node, Discover(n)
    PROVE  QueryType' /\ Phases'
<1>1. todo' \in SUBSET Node /\ discovered' \in SUBSET Node
  BY SuccessorsType DEF QueryType, Discover
<1>2. CASE UNCHANGED <<phase, stage>>
  BY <1>1, <1>2 DEF QueryType, Phases, Discover
<1>3. CASE ~UNCHANGED <<phase, stage>>
  <2>1. \/ phase' = "ask" /\ stage' = 2 /\ query.kind = "has_ctrl_influence"
        \/ phase' = "done" /\ UNCHANGED stage
    BY <1>3 DEF Discover, Answer, Return
  <2>2. QueryType'
    BY <1>1, <2>1 DEF QueryType, Discover, Phase
  <2> QED BY <2>1, <2>2 DEF Phases, Discover
<1> QED BY <1>2, <1>3

LEMMA NotFoundType ==
    ASSUME QueryType, Phases, NotFound
    PROVE  QueryType' /\ Phases'
  BY DEF QueryType, Phases, NotFound, Answer, Return, Phase, traversal

LEMMA YieldType ==
    ASSUME QueryType, Phases, NEW n \in Node, Yield(n)
    PROVE  QueryType' /\ Phases'
<1> DEFINE nodes == Successors(Node, edges, n)
<1>1. nodes \in SUBSET Node
  BY SuccessorsType
<1>2. PICK s \in SetToSeqs(nodes \ discovered) : queue' = enqueue(s)
  BY DEF Yield
<1>3. s \in Seq(Node)
  <2>1. IsFiniteSet(nodes \ discovered)
    BY <1>1, NodesFinite
  <2>2. s \in Seq(nodes \ discovered)
    BY <2>1, SetToSeqsFacts
  <2> QED BY <1>1, <2>2
<1>4. queue' \in Seq(Node)
  <2>1. queue \in Seq(Node) /\ queue # <<>>
    BY DEF QueryType, Yield
  <2>2. Tail(queue) \in Seq(Node)
    BY <2>1
  <2>3. Tail(queue) \o s \in Seq(Node)
    BY <1>3, <2>2
  <2> QED BY <1>2, <2>3 DEF enqueue
<1>5. discovered' \in SUBSET Node
  BY <1>1 DEF Yield, QueryType
<1>6. ancestors' \in [Node -> Node \cup {None}]
  BY DEF Yield, QueryType, reach
<1>7. out' \in Seq(Node)
  BY DEF Yield, QueryType
<1>8. phase' \in {"bfs", "collected"} /\ UNCHANGED <<query, stage, edges, todo, root_like>>
  BY DEF Yield
<1>9. QueryType'
  BY <1>4, <1>5, <1>6, <1>7, <1>8 DEF QueryType, Phase, Yield
<1> QED BY <1>8, <1>9 DEF Phases, Yield

LEMMA ExhaustedType ==
    ASSUME QueryType, Phases, Exhausted
    PROVE  QueryType' /\ Phases'
  BY DEF QueryType, Phases, Exhausted, Return, Phase, traversal

LEMMA ToSetType ==
    ASSUME NEW S, NEW s \in Seq(S)
    PROVE  ToSet(s) \in SUBSET S
  BY DEF ToSet

LEMMA CollectedType ==
    ASSUME QueryType, Phases, Collected
    PROVE  QueryType' /\ Phases'
<1>0. query \in Query /\ phase = "collected"
  BY DEF QueryType, Collected
<1>1. CASE query.kind = "has_ctrl_influence"
  <2>1. CASE out = <<>>
    <3>1. Return("panic") /\ UNCHANGED <<query, stage, traversal, ancestors, root_like, out>>
      BY <1>1, <2>1 DEF Collected
    <3> QED BY <3>1 DEF QueryType, Phases, Return, Phase, traversal
  <2>2. CASE out # <<>>
    <3>1. flows_to(ToSet(out), "Control")
      BY <1>1, <2>2 DEF Collected
    <3>2. ToSet(out) \in SUBSET Node /\ "Control" \in EdgeSelection
      BY ToSetType DEF QueryType, EdgeSelection
    <3> QED BY <1>0, <1>1, <3>1, <3>2, FlowsToType
  <2> QED BY <2>1, <2>2
<1>2. CASE query.kind = "shortest_path"
  <2>1. /\ phase' = "done" /\ UNCHANGED <<query, stage, traversal, ancestors, root_like>>
        /\ \E self \in query.from, to \in query.to : out' = path_from(to, self)
    BY <1>2 DEF Collected, Return
  <2>2. out' \in Seq(Node)
    <3>1. PICK self \in query.from, to \in query.to : out' = path_from(to, self)
      BY <2>1
    <3>2. to \in Node /\ ancestors \in [Node -> Node \cup {None}]
      BY <1>0, QueryFields DEF QueryType
    <3>3. PICK up \in [Nat -> {p \in Seq(Node) : p # <<>>}] : path_from(to, self) = up[Cardinality(Node)]
      BY <3>2, PathFrom
    <3>4. Cardinality(Node) \in Nat
      BY FiniteAssumption, FS_CardinalityType
    <3> QED BY <3>1, <3>3, <3>4
  <2>3. QueryType'
    BY <2>1, <2>2 DEF QueryType, Phase, traversal
  <2> QED BY <2>1, <2>3 DEF Phases
<1>3. CASE query.kind \notin {"has_ctrl_influence", "shortest_path"}
  <2>1. Return("nodes") /\ UNCHANGED <<query, stage, traversal, ancestors, root_like, out>>
    BY <1>3 DEF Collected
  <2> QED BY <2>1 DEF QueryType, Phases, Return, Phase, traversal
<1> QED BY <1>1, <1>2, <1>3

LEMMA OrderedType ==
    ASSUME QueryType, Phases, NEW n \in Node, Ordered(n)
    PROVE  QueryType' /\ Phases'
<1>1. out' \in Seq(Node) /\ root_like' \in SUBSET Node /\ discovered' \in SUBSET Node
  BY DEF QueryType, Ordered
<1> QED BY <1>1 DEF QueryType, Phases, Ordered

LEMMA OrderedAllType ==
    ASSUME QueryType, Phases, OrderedAll
    PROVE  QueryType' /\ Phases'
  BY DEF QueryType, Phases, OrderedAll, Return, Phase, traversal

LEMMA AskKindsType ==
    ASSUME QueryType, Phases,
           \/ AskFlowsTo \/ AskInfluencers \/ AskInfluencees \/ AskCtrlInfluence
           \/ AskShortestPath \/ AskRoots \/ AskRootsWhere
    PROVE  QueryType' /\ Phases'
<1>0. query \in Query /\ phase = "ask"
  BY DEF QueryType, AskFlowsTo, AskInfluencers, AskInfluencees, AskCtrlInfluence,
         AskShortestPath, AskRoots, AskRootsWhere
<1>a. /\ query.sel \in EdgeSelection /\ query.spdg \in SPDGsOver(Node) /\ query.from \in SUBSET Node
      /\ "Control" \in EdgeSelection /\ "Data" \in EdgeSelection
  BY <1>0, QueryFields DEF EdgeSelection
<1>b. filter_graph(query.spdg, query.sel) \in SUBSET (Node \X Node)
  BY <1>a, FilterType
<1>c. Reversed(filter_graph(query.spdg, query.sel)) \in SUBSET (Node \X Node)
  BY <1>b DEF Reversed
<1>1. CASE AskFlowsTo
  BY <1>0, <1>a, <1>1, FlowsToType DEF AskFlowsTo
<1>2. CASE AskInfluencers
  BY <1>0, <1>c, <1>2, BfsType DEF AskInfluencers
<1>3. CASE AskInfluencees
  BY <1>0, <1>a, <1>3, InfluenceesType DEF AskInfluencees
<1>4. CASE AskCtrlInfluence
  <2>1. CASE stage = 1
    BY <1>0, <1>a, <1>4, <2>1, FlowsToType DEF AskCtrlInfluence
  <2>2. CASE stage # 1
    <3>1. stage = 2
      BY <2>2 DEF QueryType
    <3> QED BY <1>0, <1>a, <1>4, <2>2, <3>1, InfluenceesType DEF AskCtrlInfluence
  <2> QED BY <2>1, <2>2
<1>5. CASE AskShortestPath
  <2>1. CASE query.same_controller
    BY <1>0, <1>c, <1>5, <2>1, BfsType DEF AskShortestPath
  <2>2. CASE ~query.same_controller
    <3>1. Return("no") /\ UNCHANGED <<query, stage, traversal, ancestors, root_like, out>>
      BY <1>5, <2>2 DEF AskShortestPath
    <3> QED BY <1>0, <3>1 DEF QueryType, Phases, Return, Phase, traversal
  <2> QED BY <2>1, <2>2
<1>6. CASE AskRoots
  BY <1>b, <1>6 DEF AskRoots, QueryType, Phases, Phase
<1>7. CASE AskRootsWhere
  <2> DEFINE S == {n \in query.from :
          Successors(Node, Reversed(filter_graph(query.spdg, "Both")), n)
              \cap query.from = {}}
  <2>1. /\ Return("nodes") /\ out' = SetToSeq(S)
        /\ UNCHANGED <<query, stage, traversal, ancestors, root_like>>
    BY <1>7 DEF AskRootsWhere
  <2>2. SetToSeq(S) \in Seq(Node)
    <3>1. S \in SUBSET Node
      BY <1>a
    <3> HIDE DEF S
    <3>2. SetToSeq(S) \in Seq(S)
      BY <3>1, NodesFinite, SetToSeqFacts
    <3> QED BY <3>1, <3>2
  <2> HIDE DEF S
  <2>3. QueryType'
    BY <1>0, <2>1, <2>2 DEF QueryType, Return, Phase, traversal
  <2> QED BY <2>1, <2>3 DEF Phases, Return
<1> QED BY <1>1, <1>2, <1>3, <1>4, <1>5, <1>6, <1>7

LEMMA QueryTypeStep ==
    ASSUME QueryType, Phases, QStep
    PROVE  QueryType' /\ Phases'
<1>1. CASE UNCHANGED query_vars
  BY <1>1 DEF query_vars, traversal, QueryType, Phases
<1>2. ASSUME NEW n \in Node, Discover(n) \/ Yield(n) \/ Ordered(n) PROVE QueryType' /\ Phases'
  BY <1>2, DiscoverType, YieldType, OrderedType
<1> QED BY <1>1, <1>2, AskType, AskKindsType, NotFoundType, ExhaustedType, CollectedType,
           OrderedAllType DEF QStep, QueryStep

\* The first element of a sequence and the others.
LEMMA HeadTail ==
    ASSUME NEW S, NEW s \in Seq(S), s # <<>>
    PROVE  /\ Head(s) \in S /\ Tail(s) \in Seq(S) /\ s[1] = Head(s)
           /\ Len(Tail(s)) = Len(s) - 1 /\ Len(s) \in Nat \ {0}
           /\ \A i \in 1 .. Len(Tail(s)) : Tail(s)[i] = s[i + 1] /\ i + 1 \in 1 .. Len(s)
           /\ ToSet(s) = {Head(s)} \cup ToSet(Tail(s))
           /\ Once(s) => Once(Tail(s)) /\ Head(s) \notin ToSet(Tail(s))
<1>1. /\ Head(s) \in S /\ Tail(s) \in Seq(S) /\ s[1] = Head(s)
      /\ Len(Tail(s)) = Len(s) - 1 /\ Len(s) \in Nat \ {0}
      /\ \A i \in 1 .. Len(Tail(s)) : Tail(s)[i] = s[i + 1] /\ i + 1 \in 1 .. Len(s)
  OBVIOUS
<1>2. \A i \in 1 .. Len(s) : i = 1 \/ (i - 1 \in 1 .. Len(Tail(s)) /\ s[i] = Tail(s)[i - 1])
  <2>1. ASSUME NEW i \in 1 .. Len(s), i # 1
        PROVE  i - 1 \in 1 .. Len(Tail(s)) /\ (i - 1) + 1 = i
    BY <1>1, <2>1
  <2> QED BY <1>1, <2>1
<1>3. DOMAIN s = 1 .. Len(s) /\ DOMAIN Tail(s) = 1 .. Len(Tail(s)) /\ 1 \in 1 .. Len(s)
  BY <1>1
<1>4. ToSet(s) = {Head(s)} \cup ToSet(Tail(s))
  <2>1. ASSUME NEW x \in ToSet(s) PROVE x = Head(s) \/ x \in ToSet(Tail(s))
    <3>1. PICK i \in 1 .. Len(s) : x = s[i]
      BY <1>3 DEF ToSet
    <3>2. i = 1 \/ (i - 1 \in DOMAIN Tail(s) /\ x = Tail(s)[i - 1])
      BY <1>2, <1>3, <3>1
    <3> QED BY <1>1, <3>1, <3>2 DEF ToSet
  <2>2. Head(s) \in ToSet(s) /\ \A x \in ToSet(Tail(s)) : x \in ToSet(s)
    BY <1>1, <1>3 DEF ToSet
  <2> QED BY <2>1, <2>2
<1>5. ASSUME Once(s) PROVE Once(Tail(s)) /\ Head(s) \notin ToSet(Tail(s))
  <2>1. ASSUME NEW i \in DOMAIN Tail(s), NEW j \in DOMAIN Tail(s), Tail(s)[i] = Tail(s)[j]
        PROVE  i = j
    <3>1. i \in Nat /\ j \in Nat /\ i + 1 \in DOMAIN s /\ j + 1 \in DOMAIN s /\ s[i + 1] = s[j + 1]
      BY <1>1, <1>3, <2>1
    <3>2. i + 1 = j + 1
      BY <1>5, <3>1 DEF Once
    <3> QED BY <3>1, <3>2
  <2>2. ASSUME NEW i \in DOMAIN Tail(s), Tail(s)[i] = Head(s) PROVE FALSE
    <3>1. i \in Nat \ {0} /\ i + 1 \in DOMAIN s /\ 1 \in DOMAIN s /\ s[i + 1] = s[1]
      BY <1>1, <1>3, <2>2
    <3>2. i + 1 = 1
      BY <1>5, <3>1 DEF Once
    <3> QED BY <3>1, <3>2
  <2> QED BY <2>1, <2>2 DEF Once, ToSet
<1> QED BY <1>1, <1>4, <1>5

\* What is appended comes once when it is new.
LEMMA ConcatOnce ==
    ASSUME NEW S, NEW s \in Seq(S), NEW t \in Seq(S), Once(s), Once(t),
           ToSet(s) \cap ToSet(t) = {}
    PROVE  Once(s \o t)
<1>1. \A i \in DOMAIN (s \o t) :
        \/ i \in DOMAIN s /\ (s \o t)[i] = s[i]
        \/ i - Len(s) \in DOMAIN t /\ (s \o t)[i] = t[i - Len(s)] /\ i \in Nat
  OBVIOUS
<1>2. \A i \in DOMAIN s, j \in DOMAIN t : s[i] # t[j]
  BY DEF ToSet
<1>3. Len(s) \in Nat
  OBVIOUS
<1> SUFFICES ASSUME NEW i \in DOMAIN (s \o t), NEW j \in DOMAIN (s \o t), (s \o t)[i] = (s \o t)[j]
             PROVE  i = j
  BY DEF Once
<1>4. CASE i \in DOMAIN s /\ (s \o t)[i] = s[i]
  BY <1>1, <1>2, <1>4 DEF Once
<1>5. CASE i - Len(s) \in DOMAIN t /\ (s \o t)[i] = t[i - Len(s)] /\ i \in Nat
  <2>1. j - Len(s) \in DOMAIN t /\ (s \o t)[j] = t[j - Len(s)] /\ j \in Nat
    BY <1>1, <1>2, <1>5
  <2>2. i - Len(s) = j - Len(s)
    BY <1>5, <2>1 DEF Once
  <2> QED BY <1>3, <1>5, <2>1, <2>2
<1> QED BY <1>1, <1>4, <1>5

LEMMA AppendFacts ==
    ASSUME NEW S, NEW s \in Seq(S), NEW x \in S
    PROVE  /\ Append(s, x) \in Seq(S) /\ ToSet(Append(s, x)) = ToSet(s) \cup {x}
           /\ Once(s) /\ x \notin ToSet(s) => Once(Append(s, x))
           /\ Append(s, x) # <<>>
<1> DEFINE t == <<x>>
<1>1. Append(s, x) = s \o t /\ t \in Seq(S) /\ Append(s, x) # <<>>
  OBVIOUS
<1>2. ToSet(t) = {x} /\ Once(t)
  <2>1. DOMAIN <<x>> = {1} /\ <<x>>[1] = x
    OBVIOUS
  <2> QED BY <2>1 DEF ToSet, Once
<1> HIDE DEF t
<1>3. s \o t \in Seq(S) /\ ToSet(s \o t) = ToSet(s) \cup {x}
  BY <1>1, <1>2, ConcatFacts
<1>4. Once(s) /\ x \notin ToSet(s) => Once(s \o t)
  BY <1>1, <1>2, ConcatOnce
<1> QED BY <1>1, <1>3, <1>4

-----------------------------------------------------------------------------
(***************************************************************************)
(* Flows: what a search or a collection has found so far.                  *)
(***************************************************************************)
Selected(sel) == filter_graph(query.spdg, sel)

\* The edges and the sources of the search for an answer.
SearchSel == IF query.kind = "has_ctrl_influence" THEN "Control" ELSE query.sel
Influenced == {n \in Node : \E a \in query.from : Means("Data", a, n)}
Sources == IF query.kind = "has_ctrl_influence" /\ stage = 2 THEN Influenced ELSE query.from

\* Everything known is reached; the neighbours of what was visited are known.
SearchInv ==
    phase = "search" =>
        /\ query.same_controller
        /\ edges = Selected(SearchSel)
        /\ Sources \subseteq todo
        /\ \A n \in todo : \E a \in Sources : Reaches(Node, edges, a, n)
        /\ \A n \in discovered : Successors(Node, edges, n) \subseteq todo
        /\ discovered \cap query.to = {}

\* The edges that a collection of nodes goes along.
CollectEdges ==
    CASE query.kind = "influencers" -> Reversed(Selected(query.sel))
      [] query.kind = "has_ctrl_influence" -> Selected("Data")
      [] OTHER -> Selected(query.sel)

\* Nodes are discovered once, and are in the queue until they are collected.
CollectInv ==
    phase = "bfs" /\ query.kind # "shortest_path" =>
        /\ edges = CollectEdges
        /\ query.from \subseteq discovered
        /\ \A n \in discovered : \E a \in query.from : Reaches(Node, edges, a, n)
        /\ discovered = ToSet(out) \cup ToSet(queue)
        /\ Once(out) /\ Once(queue) /\ ToSet(out) \cap ToSet(queue) = {}
        /\ \A n \in ToSet(out) : Successors(Node, edges, n) \subseteq discovered

\* All that is reached was collected.
Gathered ==
    /\ ToSet(out) = {n \in Node : \E a \in query.from : Reaches(Node, CollectEdges, a, n)}
    /\ Once(out) \/ (is_indexed(query.sel) /\ Cardinality(query.from) > 1)
        \/ query.kind = "has_ctrl_influence"

CollectedInv == phase = "collected" /\ query.kind # "shortest_path" => Gathered

\* Nothing is collected before a collection begins.
OutEmpty == phase = "ask" \/ (phase = "search" /\ stage = 1) => out = <<>>

\* has_ctrl_influence in the code: a target may be the node itself.
CtrlReached ==
    /\ query.same_controller
    /\ \E n \in Node : /\ \E a \in query.from : Means("Data", a, n)
                       /\ \E b \in query.to : Means("Control", n, b)

\* Exactly what is answered, of a node and itself as well.
FlowsExact ==
    /\ Is("flows_to") =>
          (answer = "yes" <=> /\ query.same_controller
                              /\ \E a \in query.from, b \in query.to : Flows(a, b))
    /\ Is("influencers") \/ Is("influencees") =>
          \A i, j \in DOMAIN out : out[i] = out[j] =>
              i = j \/ (is_indexed(query.sel) /\ Cardinality(query.from) > 1)
    /\ Is("influencers") => ToSet(out) = {n \in Node : \E b \in query.from : Flows(n, b)}
    /\ Is("influencees") => ToSet(out) = {n \in Node : \E a \in query.from : Flows(a, n)}
    /\ Is("has_ctrl_influence") /\ query.from # {} => (answer = "yes" <=> CtrlReached)

FlowsInv == SearchInv /\ CollectInv /\ CollectedInv /\ OutEmpty /\ FlowsExact

\* What "yes" has to mean.
FlowExists ==
    /\ query.same_controller
    /\ \E a \in Sources, b \in query.to : Reaches(Node, Selected(SearchSel), a, b)

LEMMA CtrlMeaning ==
    ASSUME query \in Query, query.kind = "has_ctrl_influence"
    PROVE  /\ stage = 2 => (FlowExists <=> CtrlReached)
           /\ FlowExists => CtrlReached
<1>1. query.from \in SUBSET Node /\ query.to \in SUBSET Node
  BY QueryFields
<1>2. \A n \in Node : Means("Data", n, n)
  BY ReachesRefl DEF Means
<1>3. Sources \subseteq Influenced /\ (stage = 2 => Sources = Influenced)
  BY <1>1, <1>2 DEF Sources, Influenced
<1> QED BY <1>1, <1>3 DEF FlowExists, CtrlReached, Influenced, SearchSel, Selected, Means

\* An answer is given only when it is right; a first "no" is followed up.
LEMMA AnswerFlows ==
    ASSUME QueryType, Phases, query \in Query, NEW yes \in BOOLEAN, Answer(yes),
           query.kind \in {"flows_to", "has_ctrl_influence"},
           yes <=> FlowExists, query' = query, out' = out,
           stage = 1 => out = <<>>
    PROVE  FlowsInv'
<1>1. CASE query.kind = "has_ctrl_influence" /\ stage = 1 /\ ~yes
  <2>1. phase' = "ask" /\ stage' = 2
    BY <1>1 DEF Answer
  <2> QED BY <1>1, <2>1 DEF FlowsInv, SearchInv, CollectInv, CollectedInv, OutEmpty, FlowsExact, Is
<1>2. CASE ~(query.kind = "has_ctrl_influence" /\ stage = 1 /\ ~yes)
  <2>1. phase' = "done" /\ answer' = (IF yes THEN "yes" ELSE "no") /\ stage' = stage
    BY <1>2 DEF Answer, Return
  <2>2. answer' = "yes" <=> FlowExists
    BY <2>1
  <2>3. SearchInv' /\ CollectInv' /\ CollectedInv' /\ OutEmpty'
    BY <2>1 DEF SearchInv, CollectInv, CollectedInv, OutEmpty
  <2>4. CASE query.kind = "flows_to"
    <3>1. FlowExists <=> query.same_controller /\ \E a \in query.from, b \in query.to : Flows(a, b)
      BY <2>4 DEF FlowExists, Sources, SearchSel, Selected, Flows
    <3>2. \A a, b : Flows(a, b)' <=> Flows(a, b)
      BY DEF Flows
    <3>3. FlowsExact'
      BY <2>2, <2>4, <3>1, <3>2 DEF FlowsExact, Is
    <3> QED BY <2>3, <3>3 DEF FlowsInv
  <2>5. CASE query.kind = "has_ctrl_influence"
    <3>1. FlowExists <=> CtrlReached
      <4>1. CASE stage = 2
        BY <2>5, <4>1, CtrlMeaning
      <4>2. CASE yes
        BY <2>5, <4>2, CtrlMeaning
      <4> QED BY <1>2, <2>5, <4>1, <4>2 DEF QueryType
    <3>2. CtrlReached' <=> CtrlReached
      BY DEF CtrlReached, Means
    <3>3. FlowsExact'
      BY <2>2, <2>5, <3>1, <3>2 DEF FlowsExact, Is
    <3> QED BY <2>3, <3>3 DEF FlowsInv
  <2> QED BY <2>4, <2>5
<1> QED BY <1>1, <1>2

LEMMA OtherKinds ==
    ASSUME Phases, OutEmpty, query.kind \in {"shortest_path", "roots", "roots_where"}
    PROVE  FlowsInv
  BY DEF Phases, FlowsInv, SearchInv, CollectInv, CollectedInv, FlowsExact, Is

LEMMA FlowsToFlows ==
    ASSUME QueryType, Phases, query \in Query, NEW S, NEW sel, flows_to(S, sel),
           query.kind \in {"flows_to", "has_ctrl_influence"},
           S = Sources, sel = SearchSel, stage = 1 => out = <<>>
    PROVE  FlowsInv'
<1>0. /\ query.sel \in EdgeSelection /\ query.spdg \in SPDGsOver(Node)
      /\ query.from \in SUBSET Node /\ query.to \in SUBSET Node /\ query.same_controller \in BOOLEAN
  BY QueryFields
<1>a. S \in SUBSET Node
  BY <1>0 DEF Sources, Influenced
<1>1. CASE is_indexed(sel) \/ ~query.same_controller \/ S = {} \/ query.to = {}
  <2> DEFINE yes == is_indexed(sel) /\ query.same_controller /\ \E n \in S : index(n) \cap query.to # {}
  <2>1. Answer(yes) /\ query' = query /\ out' = out
    BY <1>1 DEF flows_to
  <2>2. is_indexed(sel) => Selected(SearchSel) = filter_graph(query.spdg, "Data")
    BY DEF is_indexed, Selected
  <2>3. is_indexed(sel) =>
          \A n \in Node : index(n) \cap query.to # {} <=>
              \E b \in query.to : Reaches(Node, Selected(SearchSel), n, b)
    BY <1>0, <2>2 DEF index
  <2>4. yes <=> FlowExists
    <3>1. CASE is_indexed(sel)
      BY <1>a, <2>3, <3>1 DEF FlowExists
    <3>2. CASE ~is_indexed(sel)
      BY <1>1, <3>2 DEF FlowExists
    <3> QED BY <3>1, <3>2
  <2>5. yes \in BOOLEAN
    OBVIOUS
  <2> HIDE DEF yes
  <2> QED BY <2>1, <2>4, <2>5, AnswerFlows
<1>2. CASE ~(is_indexed(sel) \/ ~query.same_controller \/ S = {} \/ query.to = {})
  <2>1. /\ phase' = "search" /\ edges' = filter_graph(query.spdg, sel)
        /\ todo' = S /\ discovered' = {}
        /\ UNCHANGED <<stage, query, out>>
    BY <1>2 DEF flows_to
  <2>2. Sources' = S /\ Selected(SearchSel)' = edges'
    BY <2>1 DEF Sources, Influenced, Means, Selected, SearchSel
  <2>3. \A n \in todo' : \E a \in Sources' : Reaches(Node, edges', a, n)
    BY <1>a, <2>1, <2>2, ReachesRefl
  <2>4. SearchInv'
    BY <1>2, <2>1, <2>2, <2>3 DEF SearchInv
  <2> QED BY <2>1, <2>4 DEF FlowsInv, CollectInv, CollectedInv, OutEmpty, FlowsExact, Is
<1> QED BY <1>1, <1>2

LEMMA BfsFlows ==
    ASSUME QueryType, query \in Query, NEW R, bfs_iter(R), R = CollectEdges,
           query.kind # "shortest_path", out = <<>>
    PROVE  FlowsInv'
<1>1. /\ query.from \in SUBSET Node
      /\ ToSet(SetToSeq(query.from)) = query.from /\ Once(SetToSeq(query.from))
  BY QueryFields, SetToSeqFacts
<1>2. /\ phase' = "bfs" /\ edges' = R /\ queue' = SetToSeq(query.from) /\ discovered' = query.from
      /\ UNCHANGED <<query, stage, out>>
  BY DEF bfs_iter
<1>3. ToSet(out) = {} /\ Once(out)
  BY DEF ToSet, Once
<1>4. CollectEdges' = CollectEdges
  BY <1>2 DEF CollectEdges, Selected
<1>5. \A n \in query.from : Reaches(Node, R, n, n)
  BY <1>1, ReachesRefl
<1>6. CollectInv'
  BY <1>1, <1>2, <1>3, <1>4, <1>5 DEF CollectInv
<1> QED BY <1>2, <1>6 DEF FlowsInv, SearchInv, CollectedInv, OutEmpty, FlowsExact, Is

LEMMA InfluenceesFlows ==
    ASSUME QueryType, query \in Query, NEW sel, influencees(sel),
           \/ query.kind = "influencees" /\ sel = query.sel
           \/ query.kind = "has_ctrl_influence" /\ sel = "Data",
           out = <<>>
    PROVE  FlowsInv'
<1>0. CollectEdges = Selected(sel) /\ query.kind # "shortest_path"
  BY DEF CollectEdges
<1>1. CASE is_indexed(sel)
  <2> DEFINE rows == FlattenSeq([i \in 1 .. Cardinality(query.from) |->
                                      SetToSeq(index(SetToSeq(query.from)[i]))])
  <2>1. /\ ToSet(rows) = {m \in Node : \E a \in query.from : m \in index(a)}
        /\ Cardinality(query.from) <= 1 => Once(rows)
    BY IndexedRows
  <2>2. out' = rows /\ phase' = "collected" /\ UNCHANGED <<query, stage>>
    BY <1>1 DEF influencees
  <2> HIDE DEF rows
  <2>3. Selected(sel) = filter_graph(query.spdg, "Data")
    BY <1>1 DEF is_indexed, Selected
  <2>4. \A m \in Node, a \in query.from : m \in index(a) <=> Reaches(Node, CollectEdges, a, m)
    BY <1>0, <2>3 DEF index
  <2>5. ToSet(rows) = {n \in Node : \E a \in query.from : Reaches(Node, CollectEdges, a, n)}
    BY <2>1, <2>4
  <2>6. Cardinality(query.from) \in Nat
    BY QueryFields, FS_CardinalityType
  <2>7. Once(rows) \/ (is_indexed(query.sel) /\ Cardinality(query.from) > 1)
           \/ query.kind = "has_ctrl_influence"
    BY <1>1, <2>1, <2>6
  <2>8. CollectEdges' = CollectEdges /\ is_indexed(query.sel)' = is_indexed(query.sel)
    BY <2>2 DEF CollectEdges, Selected, is_indexed
  <2>9. Gathered'
    BY <2>2, <2>5, <2>7, <2>8 DEF Gathered
  <2> QED BY <2>2, <2>9 DEF FlowsInv, SearchInv, CollectInv, CollectedInv, OutEmpty, FlowsExact, Is
<1>2. CASE ~is_indexed(sel)
  <2>1. bfs_iter(filter_graph(query.spdg, sel))
    BY <1>2 DEF influencees
  <2>2. filter_graph(query.spdg, sel) = CollectEdges
    BY <1>0 DEF Selected
  <2> QED BY <1>0, <2>1, <2>2, BfsFlows
<1> QED BY <1>1, <1>2

LEMMA DiscoverFlows ==
    ASSUME QueryType, Phases, FlowsInv, NEW n \in Node, Discover(n)
    PROVE  FlowsInv'
<1>0. /\ query \in Query /\ phase = "search" /\ SearchInv /\ n \in todo
      /\ query.kind \in {"flows_to", "has_ctrl_influence"}
      /\ stage = 1 => out = <<>>
  BY DEF QueryType, Phases, Discover, FlowsInv, OutEmpty
<1>1. CASE n \in query.to
  <2>1. Answer(TRUE) /\ query' = query /\ out' = out
    BY <1>1 DEF Discover
  <2>2. FlowExists
    BY <1>0, <1>1 DEF SearchInv, FlowExists
  <2> QED BY <1>0, <2>1, <2>2, AnswerFlows
<1>2. CASE n \notin query.to
  <2>1. /\ UNCHANGED <<phase, stage, query, edges, out>>
        /\ discovered' = discovered \cup {n}
        /\ todo' = todo \cup Successors(Node, edges, n)
    BY <1>2 DEF Discover
  <2>2. Sources' = Sources /\ Selected(SearchSel)' = Selected(SearchSel)
    BY <2>1 DEF Sources, Influenced, Means, Selected, SearchSel
  <2>3. Sources \in SUBSET Node
    BY <1>0, QueryFields DEF Sources, Influenced
  <2>4. ASSUME NEW m \in todo' PROVE \E a \in Sources : Reaches(Node, edges, a, m)
    <3>1. CASE m \in todo
      BY <1>0, <3>1 DEF SearchInv
    <3>2. CASE m \notin todo
      <4>1. m \in Node /\ <<n, m>> \in edges
        BY <2>1, <2>4, <3>2 DEF Successors
      <4>2. PICK a \in Sources : Reaches(Node, edges, a, n)
        BY <1>0 DEF SearchInv
      <4> QED BY <2>3, <4>1, <4>2, ReachesStep
    <3> QED BY <3>1, <3>2
  <2>5. SearchInv'
    BY <1>0, <1>2, <2>1, <2>2, <2>4 DEF SearchInv
  <2> QED BY <1>0, <2>1, <2>5 DEF FlowsInv, CollectInv, CollectedInv, OutEmpty, FlowsExact, Is
<1> QED BY <1>1, <1>2

LEMMA NotFoundFlows ==
    ASSUME QueryType, Phases, FlowsInv, NotFound
    PROVE  FlowsInv'
<1>0. /\ query \in Query /\ phase = "search" /\ SearchInv
      /\ query.kind \in {"flows_to", "has_ctrl_influence"}
      /\ stage = 1 => out = <<>>
  BY DEF QueryType, Phases, NotFound, FlowsInv, OutEmpty
<1>1. ~FlowExists
  <2> SUFFICES ASSUME NEW a \in Sources, NEW b \in query.to, Reaches(Node, edges, a, b)
               PROVE  FALSE
    BY <1>0 DEF FlowExists, SearchInv
  <2>1. ClosedUnder(Node, edges, todo)
    BY <1>0 DEF SearchInv, NotFound, ClosedUnder, Successors
  <2>2. a \in todo /\ todo \in SUBSET Node
    BY <1>0 DEF SearchInv, QueryType
  <2>3. b \in todo
    BY <2>1, <2>2, ClosedHoldsReached
  <2> QED BY <1>0, <2>3 DEF SearchInv, NotFound
<1>2. Answer(FALSE) /\ query' = query /\ out' = out
  BY DEF NotFound
<1> QED BY <1>0, <1>1, <1>2, AnswerFlows

LEMMA YieldFlows ==
    ASSUME QueryType, Phases, FlowsInv, query.kind # "shortest_path", NEW n \in Node, Yield(n)
    PROVE  FlowsInv'
<1> DEFINE nodes == Successors(Node, edges, n)
<1>0. /\ query \in Query /\ phase = "bfs" /\ CollectInv
      /\ queue \in Seq(Node) /\ queue # <<>> /\ n = Head(queue) /\ out \in Seq(Node)
      /\ discovered \in SUBSET Node
  BY DEF QueryType, Yield, FlowsInv
<1>1. PICK s \in SetToSeqs(nodes \ discovered) : queue' = Tail(queue) \o s
  BY DEF Yield, enqueue
<1>2. /\ discovered' = discovered \cup nodes /\ out' = Append(out, n)
      /\ UNCHANGED <<query, phase, stage, edges>>
  BY <1>0 DEF Yield
<1>3. nodes \in SUBSET Node
  BY SuccessorsType
<1>4. s \in Seq(Node) /\ ToSet(s) = nodes \ discovered /\ Once(s)
  <2>1. IsFiniteSet(nodes \ discovered)
    BY <1>3, NodesFinite
  <2>2. s \in Seq(nodes \ discovered) /\ ToSet(s) = nodes \ discovered /\ Once(s)
    BY <2>1, SetToSeqsFacts
  <2> QED BY <1>3, <2>2
<1>5. /\ Tail(queue) \in Seq(Node) /\ ToSet(queue) = {n} \cup ToSet(Tail(queue))
      /\ Once(Tail(queue)) /\ n \notin ToSet(Tail(queue))
  BY <1>0, HeadTail DEF CollectInv
<1>6. ToSet(queue') = ToSet(Tail(queue)) \cup (nodes \ discovered) /\ Once(queue')
  <2> DEFINE t == Tail(queue)
  <2>1. t \in Seq(Node) /\ Once(t) /\ ToSet(t) \cap ToSet(s) = {}
    BY <1>0, <1>4, <1>5 DEF CollectInv
  <2> HIDE DEF t
  <2>2. ToSet(t \o s) = ToSet(t) \cup ToSet(s)
    BY <1>4, <2>1, ConcatFacts
  <2>3. Once(t \o s)
    BY <1>4, <2>1, ConcatOnce
  <2> QED BY <1>1, <1>4, <2>2, <2>3 DEF t
<1>7. n \notin ToSet(out)
  BY <1>0, <1>5 DEF CollectInv
<1>8. ToSet(out') = ToSet(out) \cup {n} /\ Once(out')
  BY <1>0, <1>2, <1>7, AppendFacts DEF CollectInv
<1>9. query.from \in SUBSET Node
  BY <1>0, QueryFields
<1>10. CollectEdges' = CollectEdges
  BY <1>2 DEF CollectEdges, Selected
<1>11. ASSUME NEW m \in discovered' PROVE \E a \in query.from : Reaches(Node, edges, a, m)
  <2>1. CASE m \in discovered
    BY <1>0, <2>1 DEF CollectInv
  <2>2. CASE m \in nodes
    <3>1. m \in Node /\ <<n, m>> \in edges
      BY <2>2 DEF Successors
    <3>2. n \in discovered
      BY <1>0, <1>5 DEF CollectInv
    <3>3. PICK a \in query.from : Reaches(Node, edges, a, n)
      BY <1>0, <3>2 DEF CollectInv
    <3> QED BY <1>9, <3>1, <3>3, ReachesStep
  <2> QED BY <1>2, <2>1, <2>2
<1> HIDE DEF nodes
<1>12. discovered' = ToSet(out') \cup ToSet(queue')
  BY <1>0, <1>2, <1>5, <1>6, <1>8 DEF CollectInv
<1>13. ToSet(out') \cap ToSet(queue') = {}
  <2>1. ToSet(out) \cap ToSet(queue) = {} /\ discovered = ToSet(out) \cup ToSet(queue)
    BY <1>0 DEF CollectInv
  <2> QED BY <1>5, <1>6, <1>8, <2>1
<1>14. \A m \in ToSet(out') : Successors(Node, edges, m) \subseteq discovered'
  BY <1>0, <1>2, <1>8 DEF CollectInv, nodes
<1>15. CollectInv'
  BY <1>0, <1>2, <1>6, <1>8, <1>10, <1>11, <1>12, <1>13, <1>14 DEF CollectInv
<1> QED BY <1>0, <1>2, <1>15 DEF FlowsInv, SearchInv, CollectedInv, OutEmpty, FlowsExact, Is

LEMMA ExhaustedFlows ==
    ASSUME QueryType, Phases, FlowsInv, query.kind # "shortest_path", Exhausted
    PROVE  FlowsInv'
<1>0. /\ query \in Query /\ phase = "bfs" /\ CollectInv /\ queue = <<>>
      /\ phase' = "collected" /\ UNCHANGED <<query, stage, out>>
  BY DEF QueryType, Exhausted, FlowsInv
<1>1. ToSet(queue) = {}
  BY <1>0 DEF ToSet
<1>2. discovered = ToSet(out) /\ discovered \in SUBSET Node
  BY <1>0, <1>1 DEF CollectInv, QueryType
<1>3. ClosedUnder(Node, edges, discovered)
  BY <1>0, <1>2 DEF CollectInv, ClosedUnder, Successors
<1>4. \A n \in Node : \A a \in query.from : Reaches(Node, edges, a, n) => n \in discovered
  BY <1>0, <1>2, <1>3, ClosedHoldsReached DEF CollectInv
<1>5. Gathered
  <2>1. discovered = {n \in Node : \E a \in query.from : Reaches(Node, edges, a, n)}
    BY <1>0, <1>2, <1>4 DEF CollectInv
  <2> QED BY <1>0, <1>2, <2>1 DEF Gathered, CollectInv
<1>6. Gathered'
  BY <1>0, <1>5 DEF Gathered, CollectEdges, Selected, is_indexed
<1> QED BY <1>0, <1>6 DEF FlowsInv, SearchInv, CollectInv, CollectedInv, OutEmpty, FlowsExact, Is

LEMMA CollectedFlows ==
    ASSUME QueryType, Phases, FlowsInv, query.kind # "shortest_path", Collected
    PROVE  FlowsInv'
<1>0. /\ query \in Query /\ phase = "collected" /\ Gathered
      /\ query.kind \in {"influencers", "influencees", "has_ctrl_influence"}
      /\ query.kind = "has_ctrl_influence" => stage = 2
  BY DEF QueryType, Phases, Collected, FlowsInv, CollectedInv
<1>a. /\ query.from \in SUBSET Node /\ query.spdg \in SPDGsOver(Node) /\ query.sel \in EdgeSelection
  BY <1>0, QueryFields
<1>1. CASE query.kind = "has_ctrl_influence"
  <2>0. ToSet(out) = Influenced
    BY <1>0, <1>1 DEF Gathered, CollectEdges, Influenced, Means, Selected
  <2>1. CASE out = <<>>
    <3>1. phase' = "done" /\ answer' = "panic" /\ UNCHANGED <<query, stage, out>>
      BY <1>1, <2>1 DEF Collected, Return
    <3>2. query.from = {}
      <4>1. Influenced = {}
        BY <2>0, <2>1 DEF ToSet
      <4>2. \A a \in query.from : Means("Data", a, a)
        BY <1>a, ReachesRefl DEF Means
      <4> QED BY <1>a, <4>1, <4>2 DEF Influenced
    <3> QED BY <1>1, <3>1, <3>2 DEF FlowsInv, SearchInv, CollectInv, CollectedInv, OutEmpty, FlowsExact, Is
  <2>2. CASE out # <<>>
    <3>1. flows_to(ToSet(out), "Control")
      BY <1>1, <2>2 DEF Collected
    <3>2. ToSet(out) = Sources /\ "Control" = SearchSel /\ stage # 1
      BY <1>0, <1>1, <2>0 DEF Sources, SearchSel
    <3> QED BY <1>0, <1>1, <3>1, <3>2, FlowsToFlows
  <2> QED BY <2>1, <2>2
<1>2. CASE query.kind # "has_ctrl_influence"
  <2>1. phase' = "done" /\ UNCHANGED <<query, stage, out>>
    BY <1>0, <1>2 DEF Collected, Return
  <2>2. \A i, j \in DOMAIN out : out[i] = out[j] =>
              i = j \/ (is_indexed(query.sel) /\ Cardinality(query.from) > 1)
    BY <1>0, <1>2 DEF Gathered, Once
  <2>3. Selected(query.sel) \in SUBSET (Node \X Node)
    BY <1>a, FilterType DEF Selected
  <2>4. query.kind = "influencers" =>
           ToSet(out) = {n \in Node : \E b \in query.from : Flows(n, b)}
    <3> SUFFICES ASSUME query.kind = "influencers"
                 PROVE  ToSet(out) = {n \in Node : \E b \in query.from : Flows(n, b)}
      OBVIOUS
    <3>1. \A n, b \in Node : Reaches(Node, CollectEdges, b, n) <=> Flows(n, b)
      BY <2>3, ReachesReversed DEF CollectEdges, Flows, Selected
    <3> QED BY <1>0, <1>a, <3>1 DEF Gathered
  <2>5. query.kind = "influencees" =>
           ToSet(out) = {n \in Node : \E a \in query.from : Flows(a, n)}
    BY <1>0 DEF Gathered, CollectEdges, Flows, Selected
  <2>6. \A a, b : Flows(a, b)' <=> Flows(a, b)
    BY <2>1 DEF Flows
  <2>7. is_indexed(query.sel)' = is_indexed(query.sel)
    BY <2>1 DEF is_indexed
  <2>8. FlowsExact'
    BY <1>0, <1>2, <2>1, <2>2, <2>4, <2>5, <2>6, <2>7 DEF FlowsExact, Is
  <2> QED BY <2>1, <2>8 DEF FlowsInv, SearchInv, CollectInv, CollectedInv, OutEmpty
<1> QED BY <1>1, <1>2

LEMMA AskKindsFlows ==
    ASSUME QueryType, Phases, FlowsInv, Phases',
           \/ AskFlowsTo \/ AskInfluencers \/ AskInfluencees \/ AskCtrlInfluence
           \/ AskShortestPath \/ AskRoots \/ AskRootsWhere
    PROVE  FlowsInv'
<1>0. query \in Query /\ phase = "ask" /\ out = <<>>
  BY DEF QueryType, AskFlowsTo, AskInfluencers, AskInfluencees, AskCtrlInfluence,
         AskShortestPath, AskRoots, AskRootsWhere, FlowsInv, OutEmpty
<1>1. CASE AskFlowsTo
  <2>1. flows_to(query.from, query.sel) /\ query.from = Sources /\ query.sel = SearchSel
    BY <1>1 DEF AskFlowsTo, Sources, SearchSel
  <2> QED BY <1>0, <1>1, <2>1, FlowsToFlows DEF AskFlowsTo
<1>2. CASE AskInfluencers
  <2>1. /\ bfs_iter(Reversed(filter_graph(query.spdg, query.sel)))
        /\ Reversed(filter_graph(query.spdg, query.sel)) = CollectEdges
    BY <1>2 DEF AskInfluencers, CollectEdges, Selected
  <2> QED BY <1>0, <1>2, <2>1, BfsFlows DEF AskInfluencers
<1>3. CASE AskInfluencees
  BY <1>0, <1>3, InfluenceesFlows DEF AskInfluencees
<1>4. CASE AskCtrlInfluence
  <2>1. CASE stage = 1
    <3>1. flows_to(query.from, "Control") /\ query.from = Sources /\ "Control" = SearchSel
      BY <1>4, <2>1 DEF AskCtrlInfluence, Sources, SearchSel
    <3> QED BY <1>0, <1>4, <3>1, FlowsToFlows DEF AskCtrlInfluence
  <2>2. CASE stage # 1
    BY <1>0, <1>4, <2>2, InfluenceesFlows DEF AskCtrlInfluence
  <2> QED BY <2>1, <2>2
<1>5. CASE AskShortestPath \/ AskRoots \/ AskRootsWhere
  <2>1. phase' # "ask" /\ phase' # "search" /\ query' = query
        /\ query.kind \in {"shortest_path", "roots", "roots_where"}
    BY <1>5 DEF AskShortestPath, AskRoots, AskRootsWhere, bfs_iter, Return
  <2> QED BY <2>1, OtherKinds DEF OutEmpty, Phases, FlowsInv, SearchInv, CollectInv, CollectedInv, FlowsExact, Is
<1> QED BY <1>1, <1>2, <1>3, <1>4, <1>5

LEMMA FlowsStep ==
    ASSUME QueryType, Phases, FlowsInv, QStep
    PROVE  FlowsInv'
<1>0. Phases'
  BY QueryTypeStep
<1>1. CASE UNCHANGED query_vars
  BY <1>1 DEF query_vars, traversal, FlowsInv, SearchInv, CollectInv, CollectedInv, OutEmpty,
     FlowsExact, Is, Sources, Influenced, Means, SearchSel, Selected, CollectEdges, Gathered,
     is_indexed, Flows, CtrlReached
<1>2. ASSUME NEW q \in Query, Ask(q) PROVE FlowsInv'
  BY <1>2 DEF Ask, FlowsInv, SearchInv, CollectInv, CollectedInv, OutEmpty, FlowsExact, Is
<1>3. ASSUME query.kind = "shortest_path", \/ \E n \in Node : Yield(n)
                                           \/ Exhausted \/ Collected
      PROVE  FlowsInv'
  <2>1. query' = query /\ phase' # "ask" /\ phase' # "search"
    BY <1>3 DEF Yield, Exhausted, Collected, Return
  <2> QED BY <1>0, <1>3, <2>1 DEF OutEmpty, Phases, FlowsInv, SearchInv, CollectInv, CollectedInv, FlowsExact, Is
<1>4. ASSUME OrderedAll \/ \E n \in Node : Ordered(n) PROVE FlowsInv'
  <2>1. query' = query /\ phase' # "ask" /\ phase' # "search" /\ query.kind = "roots"
    BY <1>4 DEF Ordered, OrderedAll, Return, Phases
  <2> QED BY <1>0, <2>1 DEF OutEmpty, Phases, FlowsInv, SearchInv, CollectInv, CollectedInv, FlowsExact, Is
<1>5. ASSUME query.kind # "shortest_path", \/ \E n \in Node : Yield(n)
                                           \/ Exhausted \/ Collected
      PROVE  FlowsInv'
  BY <1>5, YieldFlows, ExhaustedFlows, CollectedFlows
<1> QED BY <1>0, <1>1, <1>2, <1>3, <1>4, <1>5, AskKindsFlows, DiscoverFlows, NotFoundFlows
        DEF QStep, QueryStep

-----------------------------------------------------------------------------
(***************************************************************************)
(* Roots: the nodes ordered so far.                                        *)
(***************************************************************************)
\* With a node all that flows to it was ordered before; what was ordered is on
\* no cycle; and it was classified by the sources that flow to it.
TopoInv ==
    phase = "topo" =>
        /\ edges = Selected(query.sel)
        /\ \A n \in discovered, m \in Node : Flows(m, n) => m \in discovered
        /\ \A n \in discovered : ~OnCycle(n)
        /\ root_like = {n \in discovered : \A m \in Node : Flows(m, n) => m \notin query.sources}
        /\ ToSet(out) = {n \in discovered \cap query.sources :
                            \A m \in Node : Flows(m, n) /\ m \in query.sources => m = n}

TopoAsk == phase = "ask" /\ query.kind = "roots" => discovered = {} /\ root_like = {}

\* Exactly what is yielded, the sources that only other nodes flow to as well.
RootsExact ==
    Is("roots") =>
        ToSet(out) = {n \in query.sources :
                     \A m \in Node : Flows(m, n) =>
                         ~OnCycle(m) /\ (m \in query.sources => m = n)}

RootsInv == TopoInv /\ TopoAsk /\ RootsExact

LEMMA FlowsUnchanged ==
    ASSUME query' = query
    PROVE  /\ \A a, b : Flows(a, b)' <=> Flows(a, b)
           /\ \A n : OnCycle(n)' <=> OnCycle(n)
           /\ \A sel : Selected(sel)' = Selected(sel)
  BY DEF Flows, OnCycle, Selected

LEMMA FlowsFacts ==
    ASSUME query \in Query, edges = Selected(query.sel)
    PROVE  /\ edges \in SUBSET (Node \X Node)
           /\ \A n \in Node : Flows(n, n)
           /\ \A a, b \in Node : Flows(a, b) <=> Reaches(Node, edges, a, b)
           /\ \A a, b, c \in Node : Flows(a, b) /\ <<b, c>> \in edges => Flows(a, c)
           /\ \A a, b, c \in Node : Flows(a, b) /\ Flows(b, c) => Flows(a, c)
           /\ \A a, b \in Node : Flows(a, b) /\ a # b =>
                \E m \in Node : Flows(a, m) /\ <<m, b>> \in edges
           /\ \A n \in Node : OnCycle(n) <=> \E m \in Node : <<n, m>> \in edges /\ Flows(m, n)
           /\ \A n \in Node : Successors(Node, Reversed(edges), n) = {m \in Node : <<m, n>> \in edges}
<1>1. edges \in SUBSET (Node \X Node)
  BY QueryFields, FilterType DEF Selected
<1>2. \A a, b : Flows(a, b) <=> Reaches(Node, edges, a, b)
  BY DEF Flows, Selected
<1>3. \A n \in Node : Flows(n, n)
  BY <1>2, ReachesRefl
<1>4. \A a, b, c \in Node : Flows(a, b) /\ <<b, c>> \in edges => Flows(a, c)
  BY <1>2, ReachesStep
<1>5. \A a, b, c \in Node : Flows(a, b) /\ Flows(b, c) => Flows(a, c)
  BY <1>2, ReachesTrans
<1>6. \A a, b \in Node : Flows(a, b) /\ a # b => \E m \in Node : Flows(a, m) /\ <<m, b>> \in edges
  BY <1>2, LastEdge
<1>7. \A n \in Node : OnCycle(n) <=> \E m \in Node : <<n, m>> \in edges /\ Flows(m, n)
  BY DEF OnCycle, Selected
<1>8. \A n \in Node : Successors(Node, Reversed(edges), n) = {m \in Node : <<m, n>> \in edges}
  BY <1>1, ReversedEdge DEF Successors
<1> QED BY <1>1, <1>2, <1>3, <1>4, <1>5, <1>6, <1>7, <1>8

LEMMA OrderedRoots ==
    ASSUME QueryType, Phases, RootsInv, NEW n \in Node, Ordered(n)
    PROVE  RootsInv'
<1> DEFINE before == {m \in Node : <<m, n>> \in edges}
<1>0. /\ query \in Query /\ phase = "topo" /\ TopoInv /\ edges = Selected(query.sel)
      /\ discovered \in SUBSET Node /\ out \in Seq(Node)
  BY DEF QueryType, Ordered, RootsInv, TopoInv
<1>1. /\ n \notin discovered /\ before \subseteq discovered /\ discovered' = discovered \cup {n}
      /\ UNCHANGED <<query, phase, edges>>
  BY <1>0, FlowsFacts DEF Ordered
<1>2. \A m \in Node : Flows(m, n) => m = n \/ \E p \in before : Flows(m, p)
  BY <1>0, FlowsFacts
<1>3. \A m \in Node : Flows(m, n) => m = n \/ m \in discovered
  BY <1>0, <1>1, <1>2 DEF TopoInv
<1>4. ~OnCycle(n)
  <2> SUFFICES ASSUME NEW m \in Node, <<n, m>> \in edges, Flows(m, n) PROVE FALSE
    BY <1>0, FlowsFacts
  <2>1. CASE m = n
    BY <1>1, <2>1
  <2>2. CASE m # n
    <3>1. PICK p \in before : Flows(m, p)
      BY <1>2, <2>2
    <3>2. Flows(n, m)
      BY <1>0, FlowsFacts
    <3>3. Flows(n, p) /\ p \in discovered
      BY <1>0, <1>1, <3>1, <3>2, FlowsFacts
    <3> QED BY <1>0, <1>1, <3>3 DEF TopoInv
  <2> QED BY <2>1, <2>2
\* A source that flows to a node before n flows to n, and is not n.
<1>5. before \subseteq root_like <=> \A m \in Node : Flows(m, n) /\ m # n => m \notin query.sources
  <2>1. ASSUME before \subseteq root_like, NEW m \in Node, Flows(m, n), m # n
        PROVE  m \notin query.sources
    BY <1>0, <1>2, <2>1 DEF TopoInv
  <2>2. ASSUME NEW p \in before, p \notin root_like
        PROVE  \E m \in Node : Flows(m, n) /\ m # n /\ m \in query.sources
    <3>1. PICK m \in Node : Flows(m, p) /\ m \in query.sources
      BY <1>0, <1>1, <2>2 DEF TopoInv
    <3>2. Flows(m, n) /\ m \in discovered
      BY <1>0, <1>1, <3>1, FlowsFacts DEF TopoInv
    <3> QED BY <1>1, <3>1, <3>2
  <2> QED BY <2>1, <2>2
<1>6. \A a, b : Flows(a, b)' <=> Flows(a, b)
  BY <1>1, FlowsUnchanged
<1>7. \A m : OnCycle(m)' <=> OnCycle(m)
  BY <1>1, FlowsUnchanged
<1>8. Flows(n, n)
  BY <1>0, FlowsFacts
<1>9. root_like' = {m \in discovered' : \A x \in Node : Flows(x, m) => x \notin query.sources}
  <2>1. root_like' = IF before \subseteq root_like /\ n \notin query.sources
                     THEN root_like \cup {n} ELSE root_like
    BY <1>0, FlowsFacts DEF Ordered
  <2>2. (before \subseteq root_like /\ n \notin query.sources)
           <=> \A x \in Node : Flows(x, n) => x \notin query.sources
    BY <1>5, <1>8
  <2> QED BY <1>0, <1>1, <2>1, <2>2 DEF TopoInv
<1>10. ToSet(out') = {m \in discovered' \cap query.sources :
                         \A x \in Node : Flows(x, m) /\ x \in query.sources => x = m}
  <2>1. out' = IF before \subseteq root_like /\ n \in query.sources THEN Append(out, n) ELSE out
    BY <1>0, FlowsFacts DEF Ordered
  <2>2. ToSet(Append(out, n)) = ToSet(out) \cup {n}
    BY <1>0, AppendFacts
  <2>3. (before \subseteq root_like)
           <=> \A x \in Node : Flows(x, n) /\ x \in query.sources => x = n
    BY <1>5
  <2> HIDE DEF before
  <2> QED BY <1>0, <1>1, <2>1, <2>2, <2>3 DEF TopoInv
<1>11. \A m \in discovered', x \in Node : Flows(x, m) => x \in discovered'
  BY <1>0, <1>1, <1>3 DEF TopoInv
<1>12. \A m \in discovered' : ~OnCycle(m)
  BY <1>0, <1>1, <1>4 DEF TopoInv
<1>13. TopoInv'
  <2>1. edges' = Selected(query.sel)'
    BY <1>0, <1>1, FlowsUnchanged
  <2> QED BY <1>1, <1>6, <1>7, <1>9, <1>10, <1>11, <1>12, <2>1 DEF TopoInv
<1> QED BY <1>0, <1>1, <1>13 DEF RootsInv, TopoAsk, RootsExact, Is

LEMMA OrderedAllRoots ==
    ASSUME QueryType, Phases, RootsInv, OrderedAll
    PROVE  RootsInv'
<1>0. /\ query \in Query /\ phase = "topo" /\ TopoInv /\ edges = Selected(query.sel)
      /\ discovered \in SUBSET Node /\ query.sources \in SUBSET Node
      /\ phase' = "done" /\ UNCHANGED <<query, out>>
  BY QueryFields DEF QueryType, OrderedAll, RootsInv, TopoInv, Return
\* What was not ordered has a cycle before it.
<1>1. ASSUME NEW n \in Node \ discovered
      PROVE  \E m \in Node : Flows(m, n) /\ OnCycle(m)
  <2> DEFINE U == {m \in Node \ discovered : Flows(m, n)}
  <2>1. U \in SUBSET Node /\ IsFiniteSet(U) /\ n \in U
    BY <1>0, FlowsFacts, NodesFinite
  <2>2. ASSUME NEW m \in U PROVE \E p \in U : <<p, m>> \in edges
    <3>1. PICK p \in Node \ discovered : <<p, m>> \in edges
      BY <1>0, FlowsFacts DEF OrderedAll
    <3>2. Flows(p, n)
      BY <1>0, <3>1, FlowsFacts
    <3> QED BY <3>1, <3>2
  <2>3. \A m \in U : m \in Node /\ Flows(m, n)
    OBVIOUS
  <2> HIDE DEF U
  <2>4. PICK p \in U, m \in U : <<p, m>> \in edges /\ Reaches(Node, edges, m, p)
    BY <2>1, <2>2, CycleExists
  <2>5. OnCycle(p)
    BY <1>0, <2>3, <2>4, FlowsFacts
  <2> QED BY <2>3, <2>5
<1>2. ToSet(out) = {n \in query.sources :
                     \A m \in Node : Flows(m, n) =>
                         ~OnCycle(m) /\ (m \in query.sources => m = n)}
  BY <1>0, <1>1 DEF TopoInv
<1>3. RootsExact'
  <2>1. \A a, b : Flows(a, b)' <=> Flows(a, b)
    BY <1>0, FlowsUnchanged
  <2>2. \A m : OnCycle(m)' <=> OnCycle(m)
    BY <1>0, FlowsUnchanged
  <2> QED BY <1>0, <1>2, <2>1, <2>2 DEF RootsExact
<1> QED BY <1>0, <1>3 DEF RootsInv, TopoInv, TopoAsk

LEMMA RootsStep ==
    ASSUME QueryType, Phases, FlowsInv, RootsInv, QStep
    PROVE  RootsInv'
<1>0. Phases'
  BY QueryTypeStep
<1>1. CASE UNCHANGED query_vars
  <2>1. UNCHANGED <<query, phase, edges, discovered, root_like, out>>
    BY <1>1 DEF query_vars, traversal
  <2> QED BY <2>1 DEF RootsInv, TopoInv, TopoAsk, RootsExact, Is, Flows, OnCycle, Selected
<1>2. ASSUME NEW q \in Query, Ask(q) PROVE RootsInv'
  BY <1>2 DEF Ask, RootsInv, TopoInv, TopoAsk, RootsExact, Is
<1>3. CASE AskRoots
  <2>1. /\ query \in Query /\ edges' = Selected(query.sel) /\ phase' = "topo"
        /\ discovered = {} /\ root_like = {} /\ out = <<>>
        /\ UNCHANGED <<query, discovered, root_like, out>>
    BY <1>3 DEF AskRoots, QueryType, Selected, FlowsInv, OutEmpty, RootsInv, TopoAsk
  <2>2. ToSet(out) = {}
    BY <2>1 DEF ToSet
  <2>3. TopoInv'
    BY <2>1, <2>2 DEF TopoInv, Selected
  <2> QED BY <2>1, <2>3 DEF RootsInv, TopoAsk, RootsExact, Is
<1>4. ASSUME query' = query, query.kind # "roots" PROVE RootsInv'
  BY <1>0, <1>4 DEF RootsInv, TopoInv, TopoAsk, RootsExact, Is, Phases
<1>5. ASSUME \/ AskFlowsTo \/ AskInfluencers \/ AskInfluencees \/ AskCtrlInfluence
             \/ AskShortestPath \/ AskRootsWhere
      PROVE  query' = query /\ query.kind # "roots"
  BY <1>5 DEF AskFlowsTo, AskInfluencers, AskInfluencees, AskCtrlInfluence, AskShortestPath,
     AskRootsWhere, flows_to, bfs_iter, influencees
<1>6. ASSUME NotFound \/ Exhausted \/ Collected \/ \E n \in Node : Discover(n) \/ Yield(n)
      PROVE  query' = query /\ query.kind # "roots"
  BY <1>6 DEF NotFound, Exhausted, Collected, Discover, Yield, flows_to, Phases
<1> QED BY <1>1, <1>2, <1>3, <1>4, <1>5, <1>6, OrderedRoots, OrderedAllRoots DEF QStep, QueryStep

-----------------------------------------------------------------------------
(***************************************************************************)
(* The depth of a node: how many edges of R a walk from s to it has.       *)
(***************************************************************************)
IsDepth(R, s, n, k) ==
    k \in Nat /\ Walk(Node, R, s, n, k) /\ \A j \in Nat : Walk(Node, R, s, n, j) => k <= j

Depth(R, s, n) == CHOOSE k : IsDepth(R, s, n, k)

LEMMA DepthType ==
    ASSUME NEW R, NEW s \in Node, NEW n \in Node, Reaches(Node, R, s, n)
    PROVE  /\ Depth(R, s, n) \in Nat /\ Walk(Node, R, s, n, Depth(R, s, n))
           /\ \A j \in Nat : Walk(Node, R, s, n, j) => Depth(R, s, n) <= j
<1> DEFINE S == {k \in Nat : Walk(Node, R, s, n, k)}
<1>1. S \in SUBSET Nat /\ S # {}
  BY WalkReaches
<1>2. PICK k \in S : \A j \in S : k <= j
  <2> HIDE DEF S
  <2> QED BY <1>1, Least
<1>3. IsDepth(R, s, n, k)
  BY <1>2 DEF IsDepth
<1>4. IsDepth(R, s, n, Depth(R, s, n))
  BY <1>3 DEF Depth
<1> QED BY <1>4 DEF IsDepth

LEMMA DepthZero ==
    ASSUME NEW R, NEW s \in Node
    PROVE  /\ Reaches(Node, R, s, s) /\ Depth(R, s, s) = 0
           /\ \A n \in Node : Reaches(Node, R, s, n) /\ Depth(R, s, n) = 0 => n = s
<1>1. Reaches(Node, R, s, s) /\ Walk(Node, R, s, s, 0)
  BY ReachesRefl, WalkNone
<1>2. Depth(R, s, s) = 0
  BY <1>1, DepthType
<1>3. ASSUME NEW n \in Node, Reaches(Node, R, s, n), Depth(R, s, n) = 0 PROVE n = s
  <2>1. Walk(Node, R, s, n, 0)
    BY <1>3, DepthType
  <2> QED BY <2>1, WalkNone
<1> QED BY <1>1, <1>2, <1>3

\* An edge leads at most one deeper.
LEMMA DepthEdge ==
    ASSUME NEW R, NEW s \in Node, NEW n \in Node, NEW m \in Node,
           Reaches(Node, R, s, n), <<n, m>> \in R
    PROVE  /\ Reaches(Node, R, s, m) /\ Depth(R, s, m) <= Depth(R, s, n) + 1
           /\ Walk(Node, R, s, m, Depth(R, s, n) + 1)
<1>1. Reaches(Node, R, s, m)
  BY ReachesStep
<1>2. Depth(R, s, n) \in Nat /\ Walk(Node, R, s, n, Depth(R, s, n))
  BY DepthType
<1>3. Walk(Node, R, s, m, Depth(R, s, n) + 1) /\ Depth(R, s, n) + 1 \in Nat
  BY <1>2, WalkEdge
<1>4. Depth(R, s, m) <= Depth(R, s, n) + 1
  BY <1>1, <1>3, DepthType
<1> QED BY <1>1, <1>3, <1>4

\* A walk goes through a node that is less deep just before its end.
LEMMA DepthBefore ==
    ASSUME NEW R, NEW s \in Node, NEW m \in Node, NEW k \in Nat, Walk(Node, R, s, m, k + 1)
    PROVE  \E p \in Node : Reaches(Node, R, s, p) /\ <<p, m>> \in R /\ Depth(R, s, p) <= k
<1>1. PICK p \in Node : Walk(Node, R, s, p, k) /\ <<p, m>> \in R
  BY WalkEdge
<1>2. Reaches(Node, R, s, p)
  BY <1>1, WalkReaches
<1>3. Depth(R, s, p) <= k
  BY <1>1, <1>2, DepthType
<1> QED BY <1>1, <1>2, <1>3

\* A node that is not s has one before it that is one less deep.
LEMMA DepthPredecessor ==
    ASSUME NEW R, NEW s \in Node, NEW m \in Node, Reaches(Node, R, s, m), m # s
    PROVE  \E p \in Node : /\ Reaches(Node, R, s, p) /\ <<p, m>> \in R
                           /\ Depth(R, s, m) = Depth(R, s, p) + 1
<1>1. Depth(R, s, m) \in Nat /\ Walk(Node, R, s, m, Depth(R, s, m)) /\ Depth(R, s, m) # 0
  BY DepthType, DepthZero
<1> DEFINE k == Depth(R, s, m) - 1
<1>2. k \in Nat /\ Depth(R, s, m) = k + 1
  BY <1>1
<1> HIDE DEF k
<1>3. PICK p \in Node : Reaches(Node, R, s, p) /\ <<p, m>> \in R /\ Depth(R, s, p) <= k
  BY <1>1, <1>2, DepthBefore
<1>4. Depth(R, s, m) <= Depth(R, s, p) + 1
  BY <1>3, DepthEdge
<1>5. Depth(R, s, p) \in Nat
  BY <1>3, DepthType
<1> QED BY <1>2, <1>3, <1>4, <1>5

\* There are more nodes than the depth of any of them.
LEMMA DepthBound ==
    ASSUME NEW R, NEW s \in Node, NEW n \in Node, Reaches(Node, R, s, n)
    PROVE  Depth(R, s, n) + 1 <= Cardinality(Node)
<1> DEFINE upto(k) == {x \in Node : Reaches(Node, R, s, x) /\ Depth(R, s, x) <= k}
           T == {k \in Nat : \A m \in Node : Reaches(Node, R, s, m) /\ Depth(R, s, m) = k =>
                                k + 1 <= Cardinality(upto(k))}
<1>0. \A k : upto(k) \in SUBSET Node /\ IsFiniteSet(upto(k)) /\ Cardinality(upto(k)) \in Nat
               /\ Cardinality(upto(k)) <= Cardinality(Node)
  <2> TAKE k
  <2>1. upto(k) \in SUBSET Node
    OBVIOUS
  <2> HIDE DEF upto
  <2> QED BY <2>1, FiniteAssumption, FS_Subset, FS_CardinalityType
<1>1. 0 \in T
  <2>1. s \in upto(0)
    BY DepthZero
  <2> HIDE DEF upto
  <2>2. Cardinality(upto(0)) # 0
    BY <1>0, <2>1, FS_EmptySet
  <2>3. 0 + 1 <= Cardinality(upto(0))
    BY <1>0, <2>2
  <2> QED BY <2>3
<1>2. ASSUME NEW k \in Nat, k \in T PROVE k + 1 \in T
  <2> SUFFICES ASSUME NEW m \in Node, Reaches(Node, R, s, m), Depth(R, s, m) = k + 1
               PROVE  (k + 1) + 1 <= Cardinality(upto(k + 1))
    OBVIOUS
  <2>1. m # s
    BY DepthZero
  <2>2. PICK p \in Node : Reaches(Node, R, s, p) /\ Depth(R, s, m) = Depth(R, s, p) + 1
    BY <2>1, DepthPredecessor
  <2>3. Depth(R, s, p) \in Nat
    BY <2>2, DepthType
  <2>4. Depth(R, s, p) = k
    BY <2>2, <2>3
  <2>5. k + 1 <= Cardinality(upto(k))
    BY <1>2, <2>2, <2>4
  <2>6. m \notin upto(k)
    OBVIOUS
  <2>7. ASSUME NEW x \in upto(k) \cup {m} PROVE x \in upto(k + 1)
    <3>1. x \in Node /\ Reaches(Node, R, s, x)
      BY <2>7
    <3>2. Depth(R, s, x) \in Nat /\ Depth(R, s, x) <= k + 1
      BY <2>7, <3>1, DepthType
    <3> QED BY <3>1, <3>2
  <2> HIDE DEF upto
  <2>8. Cardinality(upto(k) \cup {m}) = Cardinality(upto(k)) + 1
    BY <1>0, <2>6, FS_AddElement
  <2>9. Cardinality(upto(k) \cup {m}) <= Cardinality(upto(k + 1))
    <3>1. upto(k) \cup {m} \in SUBSET upto(k + 1)
      BY <2>7
    <3> QED BY <1>0, <3>1, FS_Subset
  <2> QED BY <1>0, <2>5, <2>8, <2>9
<1>3. Depth(R, s, n) \in Nat
  BY DepthType
<1>4. Depth(R, s, n) \in T
  <2> HIDE DEF T
  <2> QED BY <1>1, <1>2, <1>3, Induction
<1>5. Depth(R, s, n) + 1 <= Cardinality(upto(Depth(R, s, n)))
  <2> HIDE DEF upto
  <2> QED BY <1>4
<1>6. Cardinality(Node) \in Nat
  BY FiniteAssumption, FS_CardinalityType
<1> HIDE DEF upto
<1> QED BY <1>0, <1>3, <1>5, <1>6

-----------------------------------------------------------------------------
\* The distance is the number of edges of the shortest walk with an edge.
DistanceIs(a, b, d) ==
    LET lengths == {k \in 1 .. Cardinality(Node) : Walk(Node, Selected(query.sel), a, b, k)}
    IN  d = IF lengths = {} THEN 0 ELSE CHOOSE k \in lengths : \A j \in lengths : k <= j

LEMMA DistanceWalks ==
    ASSUME NEW a \in Node, NEW b \in Node
    PROVE  DistanceIs(a, b, Distance(a, b))
<1> DEFINE R == filter_graph(query.spdg, query.sel)
           Def(h) == h = [k \in Nat |-> IF k = 0 THEN {a} ELSE
                            UNION {Successors(Node, R, n) : n \in h[k - 1]}]
           S == SUBSET Node
           next(V) == UNION {Successors(Node, R, n) : n \in V}
           origin == {a}
           g == [k \in Nat |-> [V \in S |-> next(V)]]
           within == CHOOSE h : Def(h)
<1>1. origin \in S /\ g \in [Nat -> [S -> S]]
  <2>1. \A V \in S : next(V) \in S
    BY SuccessorsType
  <2> HIDE DEF next
  <2> QED BY <2>1
<1>2. PICK e \in [Nat -> S] : RecursionFrom(e, origin, g)
  <2> HIDE DEF origin, g, S
  <2> QED BY <1>1, RecursionExists
<1>3. \A k \in Nat : e[k + 1] = next(e[k])
  <2>1. \A k \in Nat : e[k + 1] = g[k][e[k]] /\ e[k] \in S
    BY <1>2 DEF RecursionFrom
  <2> HIDE DEF next
  <2> QED BY <2>1
<1>4. Def(e)
  <2>1. ASSUME NEW k \in Nat, k # 0 PROVE e[k] = next(e[k - 1])
    <3>1. k - 1 \in Nat /\ (k - 1) + 1 = k
      BY <2>1
    <3> HIDE DEF next
    <3> QED BY <1>3, <3>1
  <2>2. e[0] = {a}
    BY <1>2 DEF RecursionFrom
  <2>3. e = [k \in Nat |-> e[k]]
    BY <1>2
  <2> QED BY <2>1, <2>2, <2>3
<1>5. Def(within)
  <2> HIDE DEF Def
  <2> QED BY <1>4
<1>6. Distance(a, b) =
        LET lengths == {k \in 1 .. Cardinality(Node) : b \in within[k]}
        IN  IF lengths = {} THEN 0 ELSE CHOOSE k \in lengths : \A j \in lengths : k <= j
  BY DEF Distance
<1> HIDE DEF within, R
<1>7. within[0] = {a}
  BY <1>5
<1>8. ASSUME NEW k \in Nat PROVE within[k + 1] = next(within[k])
  <2>1. k + 1 \in Nat /\ k + 1 # 0 /\ (k + 1) - 1 = k
    OBVIOUS
  <2> QED BY <1>5, <2>1
<1> DEFINE T == {k \in Nat : within[k] = {x \in Node : Walk(Node, R, a, x, k)}}
<1>9. 0 \in T
  <2>1. \A x \in Node : Walk(Node, R, a, x, 0) <=> a = x
    BY WalkNone
  <2> QED BY <1>7, <2>1
<1>10. ASSUME NEW k \in Nat, k \in T PROVE k + 1 \in T
  <2>1. within[k + 1] = next({x \in Node : Walk(Node, R, a, x, k)}) /\ k + 1 \in Nat
    BY <1>8, <1>10
  <2>2. \A y \in Node : Walk(Node, R, a, y, k + 1) <=> \E m \in Node : Walk(Node, R, a, m, k) /\ <<m, y>> \in R
    BY WalkEdge
  <2>3. next({x \in Node : Walk(Node, R, a, x, k)}) = {y \in Node : Walk(Node, R, a, y, k + 1)}
    <3>1. ASSUME NEW y, y \in next({x \in Node : Walk(Node, R, a, x, k)})
          PROVE  y \in Node /\ Walk(Node, R, a, y, k + 1)
      <4>1. PICK m \in {x \in Node : Walk(Node, R, a, x, k)} : y \in Successors(Node, R, m)
        BY <3>1
      <4> QED BY <2>2, <4>1 DEF Successors
    <3>2. ASSUME NEW y \in Node, Walk(Node, R, a, y, k + 1)
          PROVE  y \in next({x \in Node : Walk(Node, R, a, x, k)})
      <4>1. PICK m \in Node : Walk(Node, R, a, m, k) /\ <<m, y>> \in R
        BY <2>2, <3>2
      <4>2. m \in {x \in Node : Walk(Node, R, a, x, k)} /\ y \in Successors(Node, R, m)
        BY <4>1 DEF Successors
      <4> QED BY <4>2
    <3> QED BY <3>1, <3>2
  <2> QED BY <2>1, <2>3
<1>11. Nat \subseteq T
  <2> HIDE DEF T
  <2> QED BY <1>9, <1>10, Induction
<1>12. Cardinality(Node) \in Nat
  BY FiniteAssumption, FS_CardinalityType
<1>13. {k \in 1 .. Cardinality(Node) : b \in within[k]}
          = {k \in 1 .. Cardinality(Node) : Walk(Node, R, a, b, k)}
  BY <1>11, <1>12
<1> QED BY <1>6, <1>13 DEF DistanceIs, Selected, R

\* What of it the search for a path shows.
LEMMA DistanceFound ==
    ASSUME NEW a \in Node, NEW b \in Node, NEW d \in 1 .. Cardinality(Node),
           Walk(Node, Selected(query.sel), a, b, d),
           \A k \in 1 .. Cardinality(Node) : Walk(Node, Selected(query.sel), a, b, k) => d <= k
    PROVE  Distance(a, b) = d
<1> DEFINE lengths == {k \in 1 .. Cardinality(Node) : Walk(Node, Selected(query.sel), a, b, k)}
<1>1. Distance(a, b) = IF lengths = {} THEN 0 ELSE CHOOSE k \in lengths : \A j \in lengths : k <= j
  BY DistanceWalks DEF DistanceIs
<1>2. d \in lengths /\ \A j \in lengths : d <= j
  OBVIOUS
<1>3. \A k \in lengths : k \in Int
  BY FiniteAssumption, FS_CardinalityType
<1> HIDE DEF lengths
<1> DEFINE c == CHOOSE k \in lengths : \A j \in lengths : k <= j
<1>4. c \in lengths /\ \A j \in lengths : c <= j
  BY <1>2
<1>5. Distance(a, b) = c
  BY <1>1, <1>2
<1> HIDE DEF c
<1> QED BY <1>2, <1>3, <1>4, <1>5

LEMMA DistanceNone ==
    ASSUME NEW a \in Node, NEW b \in Node,
           \A k \in 1 .. Cardinality(Node) : ~Walk(Node, Selected(query.sel), a, b, k)
    PROVE  Distance(a, b) = 0
  BY DistanceWalks DEF DistanceIs

-----------------------------------------------------------------------------
(***************************************************************************)
(* Shortest paths: the search runs from Self against the edges.            *)
(***************************************************************************)
Self == CHOOSE n \in Node : query.from = {n}
Goal == CHOOSE n \in Node : query.to = {n}
PathEdges == Reversed(Selected(query.sel))
dep(n) == Depth(PathEdges, Self, n)

\* The nodes whose neighbours were looked at.
Yielded == discovered \ ToSet(queue)

\* The queue is ordered by depth, and what is less deep than its head was
\* discovered; no neighbour of a node that was yielded is the target; and an
\* ancestor was yielded, and is one less deep.
PathInv ==
    phase = "bfs" /\ query.kind = "shortest_path" =>
        /\ query.same_controller /\ edges = PathEdges /\ out = <<>>
        /\ Self \in discovered
        /\ \A n \in discovered : Reaches(Node, PathEdges, Self, n)
        /\ ToSet(queue) \subseteq discovered /\ Once(queue)
        /\ \A i, j \in DOMAIN queue : i <= j =>
              dep(queue[i]) <= dep(queue[j]) /\ dep(queue[j]) <= dep(queue[i]) + 1
        /\ queue # <<>> =>
              /\ \A n \in Node : Reaches(Node, PathEdges, Self, n) /\ dep(n) <= dep(Head(queue)) =>
                    n \in discovered
              /\ \A n \in Yielded : dep(n) <= dep(Head(queue))
        /\ \A n \in Yielded, m \in Node : <<n, m>> \in PathEdges => m \in discovered /\ m # Goal
        /\ \A m \in Node \ {Self} : ancestors[m] # None <=> m \in discovered
        /\ \A m \in Node : ancestors[m] # None =>
              /\ ancestors[m] \in Yielded /\ <<ancestors[m], m>> \in PathEdges
              /\ m # Self => dep(m) = dep(ancestors[m]) + 1

\* The target was found next to a node of depth d.
Found(d) ==
    /\ d \in Nat /\ d + 1 <= Cardinality(Node) /\ Distance(Goal, Self) = d + 1
    /\ \A m \in discovered : Reaches(Node, PathEdges, Self, m)
    /\ \A m \in discovered \ {Self} :
          /\ ancestors[m] \in discovered /\ <<ancestors[m], m>> \in PathEdges
          /\ dep(m) = dep(ancestors[m]) + 1
    /\ \/ /\ ancestors[Goal] \in discovered /\ <<ancestors[Goal], Goal>> \in PathEdges
          /\ dep(ancestors[Goal]) = d
       \/ ancestors[Goal] = None /\ d = 0 /\ <<Self, Goal>> \in PathEdges

FoundInv ==
    phase = "collected" /\ query.kind = "shortest_path" =>
        query.same_controller /\ \E d : Found(d)

PathAsk ==
    phase = "ask" /\ query.kind = "shortest_path" => ancestors = [n \in Node |-> None]

ShortestInv == PathInv /\ FoundInv /\ PathAsk /\ ShortestPathRight

LEMMA Ends ==
    ASSUME query \in Query, query.kind = "shortest_path"
    PROVE  /\ Self \in Node /\ Goal \in Node /\ query.from = {Self} /\ query.to = {Goal}
           /\ PathEdges \in SUBSET (Node \X Node)
           /\ Selected(query.sel) \in SUBSET (Node \X Node)
<1>1. \E a, b \in Node : query.from = {a} /\ query.to = {b}
  BY QueryFields
<1>2. Self \in Node /\ query.from = {Self}
  BY <1>1 DEF Self
<1>3. Goal \in Node /\ query.to = {Goal}
  BY <1>1 DEF Goal
<1>4. Selected(query.sel) \in SUBSET (Node \X Node)
  BY QueryFields, FilterType DEF Selected
<1>5. PathEdges \in SUBSET (Node \X Node)
  BY <1>4, ReversedEdge DEF PathEdges, Reversed
<1> QED BY <1>2, <1>3, <1>4, <1>5

LEMMA DepIs ==
    ASSUME query \in Query, query.kind = "shortest_path", NEW n \in Node,
           Reaches(Node, PathEdges, Self, n)
    PROVE  dep(n) \in Nat
  BY Ends, DepthType DEF dep

LEMMA PathUnchanged ==
    ASSUME query' = query
    PROVE  /\ Self' = Self /\ Goal' = Goal /\ PathEdges' = PathEdges
           /\ \A n : dep(n)' = dep(n)
           /\ \A a, b : Distance(a, b)' = Distance(a, b)
<1>1. Self' = Self
  BY DEF Self
<1>2. Goal' = Goal
  BY DEF Goal
<1>3. PathEdges' = PathEdges
  BY DEF PathEdges, Selected
<1>4. \A n : dep(n)' = dep(n)
  BY <1>1, <1>3 DEF dep
<1>5. \A a, b : Distance(a, b)' = Distance(a, b)
  BY DEF Distance
<1> QED BY <1>1, <1>2, <1>3, <1>4, <1>5

\* The search begins with Self in the queue.
LEMMA PathBegins ==
    ASSUME QueryType, Phases, FlowsInv, ShortestInv, AskShortestPath
    PROVE  ShortestInv'
<1>0. query \in Query /\ query.kind = "shortest_path" /\ out = <<>> /\ query' = query /\ out' = out
      /\ ancestors' = ancestors /\ ancestors = [n \in Node |-> None]
  BY DEF AskShortestPath, QueryType, FlowsInv, OutEmpty, ShortestInv, PathAsk, bfs_iter
<1>1. CASE ~query.same_controller
  <2>1. phase' = "done" /\ answer' = "no"
    BY <1>1 DEF AskShortestPath, Return
  <2>2. ShortestPathRight'
    BY <1>0, <1>1, <2>1 DEF ShortestPathRight, Is
  <2> QED BY <2>1, <2>2 DEF ShortestInv, PathInv, FoundInv, PathAsk
<1>2. CASE query.same_controller
  <2>1. /\ phase' = "bfs" /\ edges' = PathEdges /\ queue' = SetToSeq(query.from)
        /\ discovered' = query.from
    BY <1>2 DEF AskShortestPath, bfs_iter, PathEdges, Selected
  <2>2. /\ Self \in Node /\ Goal \in Node /\ query.from = {Self} /\ query.to = {Goal}
    BY <1>0, Ends
  <2>3. /\ queue' \in Seq({Self}) /\ ToSet(queue') = {Self} /\ Once(queue') /\ discovered' = {Self}
    BY <2>1, <2>2, <1>0, QueryFields, SetToSeqFacts
  <2>4. Reaches(Node, PathEdges, Self, Self) /\ dep(Self) = 0
        /\ \A n \in Node : Reaches(Node, PathEdges, Self, n) /\ dep(n) = 0 => n = Self
    BY <2>2, DepthZero DEF dep
  <2>5. \A i \in DOMAIN queue' : queue'[i] = Self
    BY <2>3
  <2>6. queue' # <<>> => Head(queue') = Self
    BY <2>3
  <2>7. Yielded' = {}
    BY <2>3 DEF Yielded
  <2>8. \A n \in Node : Reaches(Node, PathEdges, Self, n) /\ dep(n) <= 0 => n = Self
    BY <1>0, <2>4, DepIs
  <2>9. /\ Self' = Self /\ Goal' = Goal /\ PathEdges' = PathEdges /\ \A n : dep(n)' = dep(n)
    BY <1>0, PathUnchanged
  <2>10. \A i, j \in DOMAIN queue' : i <= j =>
              dep(queue'[i]) <= dep(queue'[j]) /\ dep(queue'[j]) <= dep(queue'[i]) + 1
    BY <2>4, <2>5
  <2>11. PathInv'
    BY <1>0, <1>2, <2>1, <2>3, <2>4, <2>6, <2>7, <2>8, <2>9, <2>10 DEF PathInv
  <2> QED BY <2>1, <2>11 DEF ShortestInv, FoundInv, PathAsk, ShortestPathRight, Is
<1> QED BY <1>1, <1>2

\* The state in which n is yielded.
LEMMA PathFacts ==
    ASSUME QueryType, Phases, ShortestInv, NEW n \in Node, Yield(n), query.kind = "shortest_path"
    PROVE  /\ query \in Query /\ query' = query /\ edges' = edges /\ edges = PathEdges
           /\ query.same_controller /\ out = <<>> /\ out' = <<>>
           /\ n \in discovered /\ n \notin Yielded /\ Self \in discovered
           /\ Reaches(Node, PathEdges, Self, n) /\ dep(n) \in Nat
           /\ \A x \in discovered : x \in Node /\ Reaches(Node, PathEdges, Self, x) /\ dep(x) \in Nat
           /\ \A x \in Node : Reaches(Node, PathEdges, Self, x) /\ dep(x) <= dep(n) => x \in discovered
           /\ \A x \in Yielded : dep(x) <= dep(n)
           /\ \A x \in discovered : dep(x) < dep(n) => x \in Yielded
           /\ \A x \in Yielded, m \in Node : <<x, m>> \in PathEdges => m \in discovered /\ m # Goal
           /\ \A m \in Node \ {Self} : ancestors[m] # None <=> m \in discovered
           /\ \A m \in Node : ancestors[m] # None =>
                 /\ ancestors[m] \in Yielded /\ <<ancestors[m], m>> \in PathEdges
                 /\ m # Self => dep(m) = dep(ancestors[m]) + 1
<1>1. phase = "bfs" /\ queue # <<>> /\ n = Head(queue) /\ query \in Query
  BY DEF Yield, QueryType, Phases
<1>2. PathInv
  BY DEF ShortestInv
<1>3. queue \in Seq(Node) /\ discovered \in SUBSET Node
  BY DEF QueryType
<1>4. n \in ToSet(queue) /\ ToSet(queue) \subseteq discovered /\ 1 \in DOMAIN queue /\ queue[1] = n
  BY <1>1, <1>2, <1>3, HeadTail DEF PathInv
<1>5. \A x \in discovered : Reaches(Node, PathEdges, Self, x) /\ dep(x) \in Nat
  BY <1>1, <1>2, <1>3, DepIs DEF PathInv
<1>6. ASSUME NEW x \in discovered, dep(x) < dep(n) PROVE x \in Yielded
  <2> SUFFICES ASSUME x \in ToSet(queue) PROVE FALSE
    BY DEF Yielded
  <2>1. PICK i \in DOMAIN queue : x = queue[i]
    BY DEF ToSet
  <2>2. 1 <= i
    BY <1>3
  <2>3. dep(n) <= dep(x)
    BY <1>1, <1>2, <1>4, <2>1, <2>2 DEF PathInv
  <2> QED BY <1>4, <1>5, <1>6, <2>3
<1>7. query' = query /\ edges' = edges /\ out' = out
  BY DEF Yield
<1>8. n \notin Yielded
  BY <1>4 DEF Yielded
<1> QED BY <1>1, <1>2, <1>3, <1>4, <1>5, <1>6, <1>7, <1>8 DEF PathInv

\* What is entered when n is yielded.
LEMMA PathEnters ==
    ASSUME QueryType, Phases, ShortestInv, NEW n \in Node, Yield(n), query.kind = "shortest_path"
    PROVE  LET nodes == Successors(Node, PathEdges, n)
           IN  /\ discovered' = discovered \cup nodes
               /\ \A m \in nodes \ discovered : dep(m) = dep(n) + 1
               /\ \A m \in Node : Reaches(Node, PathEdges, Self, m) => dep(m) \in Nat
               /\ \A m \in nodes : Reaches(Node, PathEdges, Self, m)
               /\ \A m \in Node \ {Self} : ancestors'[m] # None <=> m \in discovered'
               /\ \A m \in Node : ancestors'[m] # None =>
                     /\ ancestors'[m] \in Yielded \cup {n} /\ <<ancestors'[m], m>> \in PathEdges
                     /\ m # Self => dep(m) = dep(ancestors'[m]) + 1
               /\ \A m \in Node : ancestors[m] = None =>
                     ancestors'[m] = IF m \in nodes /\ m # n THEN n ELSE None
<1> DEFINE nodes == Successors(Node, PathEdges, n)
<1>1. /\ query \in Query /\ edges = PathEdges /\ n \in discovered /\ Self \in discovered
      /\ Reaches(Node, PathEdges, Self, n) /\ dep(n) \in Nat
      /\ \A x \in Node : Reaches(Node, PathEdges, Self, x) /\ dep(x) <= dep(n) => x \in discovered
      /\ \A m \in Node \ {Self} : ancestors[m] # None <=> m \in discovered
      /\ \A m \in Node : ancestors[m] # None =>
                 /\ ancestors[m] \in Yielded /\ <<ancestors[m], m>> \in PathEdges
                 /\ m # Self => dep(m) = dep(ancestors[m]) + 1
  BY PathFacts
<1>2. discovered' = discovered \cup nodes /\ ancestors' = reach(n, nodes)
  BY <1>1 DEF Yield
<1>3. \A m \in Node : Reaches(Node, PathEdges, Self, m) => dep(m) \in Nat
  BY <1>1, DepIs
<1>4. ASSUME NEW m \in nodes
      PROVE  Reaches(Node, PathEdges, Self, m) /\ dep(m) <= dep(n) + 1 /\ m \in Node
             /\ <<n, m>> \in PathEdges
  <2>1. m \in Node /\ <<n, m>> \in PathEdges
    BY DEF Successors
  <2>2. Self \in Node
    BY <1>1, Ends
  <2>3. Reaches(Node, PathEdges, Self, n)
    BY <1>1
  <2>4. /\ Reaches(Node, PathEdges, Self, m)
        /\ Depth(PathEdges, Self, m) <= Depth(PathEdges, Self, n) + 1
    BY <2>1, <2>2, <2>3, DepthEdge
  <2> QED BY <2>1, <2>4 DEF dep
<1>5. ASSUME NEW m \in nodes \ discovered PROVE dep(m) = dep(n) + 1
  <2>1. Reaches(Node, PathEdges, Self, m) /\ dep(m) <= dep(n) + 1 /\ m \in Node
    BY <1>4
  <2>2. dep(m) \in Nat /\ ~(dep(m) <= dep(n))
    BY <1>1, <1>3, <2>1
  <2> QED BY <1>1, <2>1, <2>2
<1>6. ancestors \in [Node -> Node \cup {None}] /\ None \notin Node
  BY NoneAssumption DEF QueryType
<1> HIDE DEF nodes
<1>7. \A m \in Node : ancestors'[m] = IF m \in nodes /\ m # n /\ ancestors[m] = None THEN n ELSE ancestors[m]
  BY <1>2 DEF reach
<1>8. \A m \in Node \ {Self} : ancestors'[m] # None <=> m \in discovered'
  BY <1>1, <1>2, <1>6, <1>7
<1>9. ASSUME NEW m \in Node, ancestors'[m] # None
      PROVE  /\ ancestors'[m] \in Yielded \cup {n} /\ <<ancestors'[m], m>> \in PathEdges
             /\ m # Self => dep(m) = dep(ancestors'[m]) + 1
  <2>1. CASE m \in nodes /\ m # n /\ ancestors[m] = None
    <3>1. ancestors'[m] = n /\ <<n, m>> \in PathEdges
      BY <1>4, <1>7, <2>1
    <3>2. m # Self => dep(m) = dep(n) + 1
      BY <1>1, <1>5, <2>1
    <3> QED BY <3>1, <3>2
  <2>2. CASE ~(m \in nodes /\ m # n /\ ancestors[m] = None)
    BY <1>1, <1>7, <1>9, <2>2
  <2> QED BY <2>1, <2>2
<1>10. \A m \in Node : ancestors[m] = None => ancestors'[m] = IF m \in nodes /\ m # n THEN n ELSE None
  BY <1>7
<1> QED BY <1>2, <1>3, <1>4, <1>5, <1>8, <1>9, <1>10 DEF nodes

\* The target is next to n.
LEMMA PathFinds ==
    ASSUME QueryType, Phases, ShortestInv, NEW n \in Node, Yield(n), query.kind = "shortest_path",
           <<n, Goal>> \in PathEdges
    PROVE  Found(dep(n))'
<1> DEFINE nodes == Successors(Node, PathEdges, n)
           depth == dep(n)
<1>0. query \in Query /\ query' = query /\ Self \in Node /\ Goal \in Node
      /\ PathEdges \in SUBSET (Node \X Node) /\ Selected(query.sel) \in SUBSET (Node \X Node)
  BY PathFacts, Ends
<1>1. /\ Self' = Self /\ Goal' = Goal /\ PathEdges' = PathEdges /\ \A x : dep(x)' = dep(x)
      /\ \A a, b : Distance(a, b)' = Distance(a, b)
  BY <1>0, PathUnchanged
<1>2. /\ n \in discovered /\ n \notin Yielded /\ Self \in discovered
      /\ Reaches(Node, PathEdges, Self, n) /\ depth \in Nat
      /\ \A x \in discovered : x \in Node /\ Reaches(Node, PathEdges, Self, x) /\ dep(x) \in Nat
      /\ \A x \in Node : Reaches(Node, PathEdges, Self, x) /\ dep(x) <= depth => x \in discovered
      /\ \A x \in discovered : dep(x) < depth => x \in Yielded
      /\ \A x \in Yielded, m \in Node : <<x, m>> \in PathEdges => m \in discovered /\ m # Goal
      /\ \A m \in Node \ {Self} : ancestors[m] # None <=> m \in discovered
      /\ \A m \in Node : ancestors[m] # None =>
                 ancestors[m] \in Yielded /\ <<ancestors[m], m>> \in PathEdges
  BY PathFacts
<1>3. /\ discovered' = discovered \cup nodes
      /\ \A m \in nodes \ discovered : dep(m) = depth + 1
      /\ \A m \in nodes : Reaches(Node, PathEdges, Self, m)
      /\ \A m \in Node \ {Self} : ancestors'[m] # None <=> m \in discovered'
      /\ \A m \in Node : ancestors'[m] # None =>
                     /\ ancestors'[m] \in Yielded \cup {n} /\ <<ancestors'[m], m>> \in PathEdges
                     /\ m # Self => dep(m) = dep(ancestors'[m]) + 1
      /\ \A m \in Node : ancestors[m] = None =>
                     ancestors'[m] = IF m \in nodes /\ m # n THEN n ELSE None
  BY PathEnters
<1>4. Goal \in nodes /\ nodes \in SUBSET Node
  BY <1>0 DEF Successors
<1> HIDE DEF nodes
<1>5. depth + 1 <= Cardinality(Node) /\ Cardinality(Node) \in Nat
  BY <1>0, <1>2, DepthBound, FiniteAssumption, FS_CardinalityType DEF dep
<1> DEFINE E == Selected(query.sel)
<1>6. Distance(Goal, Self) = depth + 1
  <2>1. \A k \in Nat : Walk(Node, PathEdges, Self, Goal, k) <=> Walk(Node, E, Goal, Self, k)
    BY <1>0, WalkReversed DEF PathEdges
  <2>2. Walk(Node, PathEdges, Self, Goal, depth + 1)
    BY <1>0, <1>2, DepthEdge DEF dep
  <2>3. ASSUME NEW k \in 1 .. Cardinality(Node), Walk(Node, PathEdges, Self, Goal, k)
        PROVE  depth + 1 <= k
    <3> DEFINE j == k - 1
    <3>1. j \in Nat /\ k = j + 1
      BY <1>5
    <3> HIDE DEF j
    <3>2. PICK p \in Node : Reaches(Node, PathEdges, Self, p) /\ <<p, Goal>> \in PathEdges /\ dep(p) <= j
      BY <1>0, <2>3, <3>1, DepthBefore DEF dep
    <3>3. dep(p) \in Nat
      BY <1>0, <3>2, DepIs
    <3> SUFFICES ASSUME j < depth PROVE FALSE
      BY <1>2, <3>1
    <3>4. p \in Yielded
      BY <1>2, <3>1, <3>2, <3>3
    <3> QED BY <1>0, <1>2, <3>2, <3>4
  <2>4. depth + 1 \in 1 .. Cardinality(Node)
    BY <1>2, <1>5
  <2> HIDE DEF E, depth
  <2>5. Walk(Node, E, Goal, Self, depth + 1)
    BY <2>1, <2>2, <2>4, <1>5
  <2>6. \A k \in 1 .. Cardinality(Node) : Walk(Node, E, Goal, Self, k) => depth + 1 <= k
    BY <2>1, <2>3, <1>5
  <2> QED BY <1>0, <2>4, <2>5, <2>6, DistanceFound DEF E
<1>7. \A m \in discovered' : Reaches(Node, PathEdges, Self, m)
  BY <1>2, <1>3
<1>8. ASSUME NEW m \in discovered' \ {Self}
      PROVE  /\ ancestors'[m] \in discovered' /\ <<ancestors'[m], m>> \in PathEdges
             /\ dep(m) = dep(ancestors'[m]) + 1
  <2>1. m \in Node /\ ancestors'[m] # None
    BY <1>2, <1>3, <1>4
  <2>2. Yielded \subseteq discovered
    BY DEF Yielded
  <2> QED BY <1>2, <1>3, <2>1, <2>2
<1>9. \/ /\ ancestors'[Goal] \in discovered' /\ <<ancestors'[Goal], Goal>> \in PathEdges
         /\ dep(ancestors'[Goal]) = depth
      \/ ancestors'[Goal] = None /\ depth = 0 /\ <<Self, Goal>> \in PathEdges
  <2>1. ancestors[Goal] = None
    BY <1>0, <1>2
  <2>2. CASE Goal # n
    BY <1>0, <1>2, <1>3, <1>4, <2>1, <2>2
  <2>3. CASE Goal = n
    <3>1. Goal = Self
      BY <1>0, <1>2, <2>1, <2>3
    <3>2. depth = 0
      BY <1>0, <2>3, <3>1, DepthZero DEF dep
    <3> QED BY <1>0, <1>3, <2>1, <2>3, <3>1, <3>2
  <2> QED BY <2>2, <2>3
<1> HIDE DEF E, depth
<1>10. depth' = depth
  BY <1>1 DEF depth
<1> QED BY <1>1, <1>2, <1>5, <1>6, <1>7, <1>8, <1>9 DEF Found, depth

\* The target is not next to n: the order of the queue is kept.
LEMMA PathContinues ==
    ASSUME QueryType, Phases, ShortestInv, NEW n \in Node, Yield(n), query.kind = "shortest_path",
           <<n, Goal>> \notin PathEdges
    PROVE  PathInv'
<1> DEFINE nodes == Successors(Node, PathEdges, n)
           depth == dep(n)
           new == nodes \ discovered
           rest == Tail(queue)
<1>0. query \in Query /\ query' = query /\ Self \in Node /\ Goal \in Node /\ n = Head(queue)
      /\ PathEdges \in SUBSET (Node \X Node) /\ phase = "bfs" /\ queue # <<>> /\ queue \in Seq(Node)
  BY PathFacts, Ends DEF Yield, QueryType
<1>1. /\ Self' = Self /\ Goal' = Goal /\ PathEdges' = PathEdges /\ \A x : dep(x)' = dep(x)
  BY <1>0, PathUnchanged
<1>2. /\ n \in discovered /\ n \notin Yielded /\ Self \in discovered
      /\ query.same_controller /\ out' = <<>> /\ edges' = PathEdges
      /\ Reaches(Node, PathEdges, Self, n) /\ depth \in Nat
      /\ \A x \in discovered : x \in Node /\ Reaches(Node, PathEdges, Self, x) /\ dep(x) \in Nat
      /\ \A x \in Node : Reaches(Node, PathEdges, Self, x) /\ dep(x) <= depth => x \in discovered
      /\ \A x \in Yielded : dep(x) <= depth
      /\ \A x \in Yielded, m \in Node : <<x, m>> \in PathEdges => m \in discovered /\ m # Goal
  BY PathFacts
<1>3. /\ discovered' = discovered \cup nodes
      /\ \A m \in new : dep(m) = depth + 1
      /\ \A m \in Node : Reaches(Node, PathEdges, Self, m) => dep(m) \in Nat
      /\ \A m \in nodes : Reaches(Node, PathEdges, Self, m)
      /\ \A m \in Node \ {Self} : ancestors'[m] # None <=> m \in discovered'
      /\ \A m \in Node : ancestors'[m] # None =>
                     /\ ancestors'[m] \in Yielded \cup {n} /\ <<ancestors'[m], m>> \in PathEdges
                     /\ m # Self => dep(m) = dep(ancestors'[m]) + 1
  BY PathEnters
<1>4. nodes \in SUBSET Node /\ \A m \in Node : m \in nodes <=> <<n, m>> \in PathEdges
  BY <1>0 DEF Successors
<1>5. PICK s \in SetToSeqs(new) : queue' = rest \o s
  BY <1>0, PathFacts DEF Yield, enqueue
<1>6. new \in SUBSET Node /\ IsFiniteSet(new)
  BY <1>4, NodesFinite
<1>7. /\ ToSet(queue) \subseteq discovered /\ Once(queue)
      /\ \A i, j \in DOMAIN queue : i <= j =>
              dep(queue[i]) <= dep(queue[j]) /\ dep(queue[j]) <= dep(queue[i]) + 1
  BY <1>0, PathFacts DEF ShortestInv, PathInv
<1>8. /\ rest \in Seq(Node) /\ queue[1] = n /\ 1 \in DOMAIN queue
      /\ \A i \in DOMAIN rest : rest[i] = queue[i + 1] /\ i + 1 \in DOMAIN queue /\ i \in Nat
      /\ ToSet(queue) = {n} \cup ToSet(rest) /\ Once(rest) /\ n \notin ToSet(rest)
  BY <1>0, <1>7, HeadTail
<1> HIDE DEF nodes, new, rest
<1>9. s \in Seq(new) /\ s \in Seq(Node) /\ ToSet(s) = new /\ Once(s)
  <2>1. s \in Seq(new) /\ ToSet(s) = new /\ Once(s)
    BY <1>6, SetToSeqsFacts
  <2> QED BY <1>6, <2>1
<1>10. ToSet(rest) \cap new = {}
  BY <1>7, <1>8 DEF new
<1>11. /\ queue' \in Seq(Node) /\ ToSet(queue') = ToSet(rest) \cup new /\ Once(queue')
  BY <1>5, <1>8, <1>9, <1>10, ConcatFacts, ConcatOnce
<1>12. \A i \in DOMAIN queue' :
        \/ i \in DOMAIN rest /\ queue'[i] = rest[i]
        \/ i \notin DOMAIN rest /\ i > Len(rest) /\ queue'[i] \in new
  <2>1. \A i \in DOMAIN (rest \o s) :
          \/ i \in DOMAIN rest /\ (rest \o s)[i] = rest[i]
          \/ i \notin DOMAIN rest /\ i > Len(rest) /\ i - Len(rest) \in DOMAIN s /\ (rest \o s)[i] = s[i - Len(rest)]
    BY <1>8, <1>9
  <2>2. \A i \in DOMAIN s : s[i] \in new
    BY <1>9
  <2> QED BY <1>5, <2>1, <2>2
<1>13. \A i \in DOMAIN rest : dep(rest[i]) \in Nat /\ depth <= dep(rest[i]) /\ dep(rest[i]) <= depth + 1
  <2> TAKE i \in DOMAIN rest
  <2>1. rest[i] = queue[i + 1] /\ i + 1 \in DOMAIN queue /\ 1 <= i + 1
    BY <1>8
  <2>2. depth <= dep(rest[i]) /\ dep(rest[i]) <= depth + 1
    BY <1>7, <1>8, <2>1
  <2>3. rest[i] \in discovered
    BY <1>7, <2>1 DEF ToSet
  <2> QED BY <1>2, <2>2, <2>3
<1> HIDE DEF depth
<1>14. ASSUME NEW i \in DOMAIN queue', NEW j \in DOMAIN queue', i <= j
       PROVE  dep(queue'[i]) <= dep(queue'[j]) /\ dep(queue'[j]) <= dep(queue'[i]) + 1
  <2>0. i \in Nat /\ j \in Nat /\ DOMAIN rest = 1 .. Len(rest) /\ Len(rest) \in Nat
    BY <1>8, <1>11
  <2>1. CASE i \in DOMAIN rest /\ j \in DOMAIN rest
    <3>1. i + 1 <= j + 1 /\ i + 1 \in DOMAIN queue /\ j + 1 \in DOMAIN queue
          /\ rest[i] = queue[i + 1] /\ rest[j] = queue[j + 1]
      BY <1>8, <1>14, <2>0, <2>1
    <3>2. queue'[i] = rest[i] /\ queue'[j] = rest[j]
      BY <1>12, <2>1
    <3> QED BY <1>7, <3>1, <3>2
  <2>2. CASE i \in DOMAIN rest /\ j \notin DOMAIN rest
    <3>1. queue'[i] = rest[i] /\ queue'[j] \in new
      BY <1>12, <2>2
    <3>2. dep(queue'[j]) = depth + 1 /\ depth <= dep(queue'[i]) /\ dep(queue'[i]) <= depth + 1 /\ dep(queue'[i]) \in Nat
      BY <1>3, <1>13, <2>2, <3>1
    <3> QED BY <1>2, <3>2
  <2>3. CASE i \notin DOMAIN rest
    <3>1. queue'[i] \in new
      BY <1>12, <2>3
    <3>2. j \notin DOMAIN rest
      BY <1>12, <1>14, <2>0, <2>3
    <3>3. queue'[j] \in new
      BY <1>12, <3>2
    <3> QED BY <1>2, <1>3, <3>1, <3>3
  <2> QED BY <2>1, <2>2, <2>3
<1>15. Yielded' = Yielded \cup {n}
  BY <1>2, <1>3, <1>8, <1>11 DEF Yielded, new
<1>16. \A x \in discovered' : Reaches(Node, PathEdges, Self, x) /\ x \in Node /\ dep(x) \in Nat
  BY <1>2, <1>3, <1>4
<1>17. ASSUME NEW x \in Yielded', NEW m \in Node, <<x, m>> \in PathEdges
       PROVE  m \in discovered' /\ m # Goal
  BY <1>2, <1>3, <1>4, <1>15, <1>17
<1>18. ASSUME queue' # <<>>
       PROVE  /\ \A x \in Node : Reaches(Node, PathEdges, Self, x) /\ dep(x) <= dep(Head(queue')) =>
                    x \in discovered'
              /\ \A x \in Yielded' : dep(x) <= dep(Head(queue'))
  <2> DEFINE h == Head(queue')
  <2>1. h = queue'[1] /\ 1 \in DOMAIN queue' /\ h \in Node
    BY <1>11, <1>18
  <2>2. dep(h) \in Nat /\ depth <= dep(h) /\ dep(h) <= depth + 1
    BY <1>2, <1>3, <1>12, <1>13, <2>1
  <2>3. \A i \in DOMAIN queue' : 1 <= i
    BY <1>11
  <2>4. \A x \in ToSet(queue') : dep(h) <= dep(x)
    BY <1>14, <2>1, <2>3 DEF ToSet
  <2> HIDE DEF h
  <2>5. ASSUME NEW x \in Node, Reaches(Node, PathEdges, Self, x), dep(x) <= dep(h)
        PROVE  x \in discovered'
    <3>1. dep(x) \in Nat
      BY <1>3, <2>5
    <3>2. CASE dep(x) <= depth
      BY <1>2, <1>3, <2>5, <3>2 DEF depth
    <3>3. CASE ~(dep(x) <= depth)
      <4>1. dep(x) = depth + 1 /\ dep(h) = depth + 1
        BY <1>2, <2>2, <2>5, <3>1, <3>3
      <4>2. x # Self
        BY <1>0, <1>2, <4>1, DepthZero DEF dep
      <4>3. PICK p \in Node : /\ Reaches(Node, PathEdges, Self, p) /\ <<p, x>> \in PathEdges
                              /\ dep(x) = dep(p) + 1
        BY <1>0, <2>5, <4>2, DepthPredecessor DEF dep
      <4>4. dep(p) \in Nat
        BY <1>3, <4>3
      <4>5. dep(p) = depth
        BY <1>2, <4>1, <4>3, <4>4
      <4>6. p \in discovered'
        BY <1>2, <1>3, <4>3, <4>5 DEF depth
      <4>7. p \notin ToSet(queue')
        BY <1>2, <2>4, <4>1, <4>5
      <4>8. p \in Yielded'
        BY <4>6, <4>7 DEF Yielded
      <4> QED BY <1>17, <4>3, <4>8
    <3> QED BY <3>2, <3>3
  <2>6. ASSUME NEW x \in Yielded' PROVE dep(x) <= dep(h)
    <3>1. x \in discovered' /\ dep(x) \in Nat
      BY <1>16 DEF Yielded
    <3>2. dep(x) <= depth
      BY <1>2, <1>15 DEF depth
    <3> QED BY <1>2, <2>2, <3>1, <3>2
  <2> QED BY <2>5, <2>6 DEF h
<1>19. ToSet(queue') \subseteq discovered'
  BY <1>3, <1>7, <1>8, <1>11 DEF new
<1>20. \A m \in Node : ancestors'[m] # None =>
              /\ ancestors'[m] \in Yielded' /\ <<ancestors'[m], m>> \in PathEdges
              /\ m # Self => dep(m) = dep(ancestors'[m]) + 1
  BY <1>3, <1>15
<1>21. Self \in discovered'
  BY <1>2, <1>3
<1> HIDE DEF depth
<1> QED BY <1>0, <1>1, <1>2, <1>3, <1>11, <1>14, <1>16, <1>17, <1>18, <1>19, <1>20, <1>21 DEF PathInv

LEMMA YieldPath ==
    ASSUME QueryType, Phases, ShortestInv, NEW n \in Node, Yield(n)
    PROVE  ShortestInv'
<1>0. query \in Query /\ query' = query
  BY DEF Yield, QueryType, Phases
<1>1. CASE query.kind # "shortest_path"
  BY <1>0, <1>1 DEF ShortestInv, PathInv, FoundInv, PathAsk, ShortestPathRight, Is
<1>2. CASE query.kind = "shortest_path"
  <2>1. query.to = {Goal} /\ Goal \in Node /\ query.same_controller /\ edges = PathEdges
    BY <1>0, <1>2, PathFacts, Ends
  <2>2. phase' = IF <<n, Goal>> \in PathEdges THEN "collected" ELSE "bfs"
    BY <1>2, <2>1 DEF Yield, Successors
  <2>3. ShortestPathRight' /\ PathAsk'
    BY <2>2 DEF ShortestPathRight, Is, PathAsk
  <2>4. CASE <<n, Goal>> \in PathEdges
    <3>1. Found(dep(n))'
      BY <1>2, <2>4, PathFinds
    <3>2. FoundInv' /\ PathInv'
      BY <1>0, <2>1, <2>2, <2>4, <3>1 DEF FoundInv, PathInv
    <3> QED BY <2>3, <3>2 DEF ShortestInv
  <2>5. CASE <<n, Goal>> \notin PathEdges
    <3>1. PathInv'
      BY <1>2, <2>5, PathContinues
    <3> QED BY <2>2, <2>3, <2>5, <3>1 DEF ShortestInv, FoundInv
  <2> QED BY <2>4, <2>5
<1> QED BY <1>1, <1>2

\* The search ended without the target: no walk leads to it.
LEMMA ExhaustedPath ==
    ASSUME QueryType, Phases, ShortestInv, Exhausted
    PROVE  ShortestInv'
<1>0. query \in Query /\ query' = query /\ phase = "bfs" /\ queue = <<>> /\ out' = out
  BY DEF Exhausted, QueryType, Phases
<1>1. CASE query.kind # "shortest_path"
  BY <1>0, <1>1 DEF Exhausted, ShortestInv, PathInv, FoundInv, PathAsk, ShortestPathRight, Is
<1>2. CASE query.kind = "shortest_path"
  <2>1. phase' = "done" /\ answer' = "no"
    BY <1>2 DEF Exhausted, Return
  <2>2. /\ Self \in Node /\ Goal \in Node /\ query.from = {Self} /\ query.to = {Goal}
        /\ PathEdges \in SUBSET (Node \X Node) /\ Selected(query.sel) \in SUBSET (Node \X Node)
    BY <1>0, <1>2, Ends
  <2>3. PathInv /\ discovered \in SUBSET Node
    BY DEF ShortestInv, QueryType
  <2>4. Yielded = discovered
    BY <1>0 DEF Yielded, ToSet
  <2>5. /\ Self \in discovered /\ out = <<>> /\ query.same_controller
        /\ \A x \in discovered, m \in Node : <<x, m>> \in PathEdges => m \in discovered /\ m # Goal
    BY <1>0, <1>2, <2>3, <2>4 DEF PathInv
  <2>6. ClosedUnder(Node, PathEdges, discovered)
    BY <2>5 DEF ClosedUnder
  <2>7. ASSUME NEW k \in 1 .. Cardinality(Node), Walk(Node, Selected(query.sel), Goal, Self, k)
        PROVE  FALSE
    <3> DEFINE j == k - 1
    <3>1. j \in Nat /\ k = j + 1 /\ k \in Nat
      BY FiniteAssumption, FS_CardinalityType
    <3>2. Walk(Node, PathEdges, Self, Goal, k)
      BY <2>2, <2>7, <3>1, WalkReversed DEF PathEdges
    <3> HIDE DEF j
    <3>3. PICK p \in Node : Reaches(Node, PathEdges, Self, p) /\ <<p, Goal>> \in PathEdges
      BY <2>2, <3>1, <3>2, DepthBefore
    <3>4. p \in discovered
      BY <2>3, <2>5, <2>6, <3>3, ClosedHoldsReached
    <3> QED BY <2>2, <2>5, <3>3, <3>4
  <2>8. Distance(Goal, Self) = 0
    BY <2>2, <2>7, DistanceNone
  <2>9. Distance(Goal, Self)' = 0
    BY <1>0, <2>8, PathUnchanged
  <2>10. ShortestPathRight'
    <3>1. Goal' = Goal /\ Self' = Self
      BY <1>0, PathUnchanged
    <3>2. \A self \in query'.from, to \in query'.to : Distance(to, self)' = 0
      BY <1>0, <2>2, <2>9, <3>1
    <3> QED BY <1>0, <2>1, <2>5, <3>2 DEF ShortestPathRight, Is
  <2> QED BY <2>1, <2>10 DEF ShortestInv, PathInv, FoundInv, PathAsk
<1> QED BY <1>1, <1>2

\* A way of k edges up from the target, d - k of them before the last.
Way(p, k, d) ==
    /\ p \in Seq(Node) /\ Len(p) = k + 1 /\ p[1] = Goal
    /\ \A i \in 1 .. k : <<p[i], p[i + 1]>> \in Selected(query.sel)
    /\ LET n == ancestors[p[Len(p)]]
       IN  \/ n \in discovered /\ <<p[Len(p)], n>> \in Selected(query.sel) /\ dep(n) = d - k
           \/ n = None /\ k = d /\ <<p[Len(p)], Self>> \in Selected(query.sel)

\* The way that std::iter::successors goes up has as many nodes as it should.
LEMMA WayUp ==
    ASSUME QueryType, query \in Query, query.kind = "shortest_path", NEW d, Found(d)
    PROVE  Way(path_from(Goal, Self), d, d)
<1>0. /\ Self \in Node /\ Goal \in Node /\ PathEdges \in SUBSET (Node \X Node)
      /\ Selected(query.sel) \in SUBSET (Node \X Node)
  BY Ends
<1>1. \A x, y \in Node : <<x, y>> \in PathEdges => <<y, x>> \in Selected(query.sel)
  BY <1>0, ReversedEdge DEF PathEdges
<1>2. /\ discovered \in SUBSET Node /\ ancestors \in [Node -> Node \cup {None}] /\ None \notin Node
  BY NoneAssumption DEF QueryType
<1>3. d \in Nat /\ Cardinality(Node) \in Nat /\ d + 1 <= Cardinality(Node)
  BY FiniteAssumption, FS_CardinalityType DEF Found
<1>4. /\ \A m \in discovered : dep(m) \in Nat
      /\ \A m \in discovered : dep(m) = 0 => m = Self
      /\ dep(Self) = 0
  <2>1. \A m \in discovered : Reaches(Node, PathEdges, Self, m)
    BY DEF Found
  <2> QED BY <1>0, <1>2, <2>1, DepIs, DepthZero DEF dep
<1>5. PICK up \in [Nat -> {p \in Seq(Node) : p # <<>>}] :
         Ups(up, Goal, Self) /\ path_from(Goal, Self) = up[Cardinality(Node)]
  BY <1>0, <1>2, PathFrom
<1>6. up[0] = <<Goal>>
  BY <1>5 DEF Ups
<1>7. ASSUME NEW k \in Nat
      PROVE  LET n == ancestors[up[k][Len(up[k])]]
             IN  up[k + 1] = IF n \in {None, Self} THEN up[k] ELSE Append(up[k], n)
  BY <1>5 DEF Ups
<1> DEFINE T == {k \in Nat : k <= d => Way(up[k], k, d)}
<1>8. 0 \in T
  <2>1. up[0] \in Seq(Node) /\ Len(up[0]) = 1 /\ up[0][1] = Goal
    BY <1>0, <1>6
  <2>2. \/ ancestors[Goal] \in discovered /\ <<Goal, ancestors[Goal]>> \in Selected(query.sel) /\ dep(ancestors[Goal]) = d
        \/ ancestors[Goal] = None /\ d = 0 /\ <<Goal, Self>> \in Selected(query.sel)
    BY <1>0, <1>1, <1>2 DEF Found
  <2>3. d - 0 = d /\ 1 .. 0 = {} /\ 0 \in Nat
    BY <1>3
  <2>4. Way(up[0], 0, d)
    BY <2>1, <2>2, <2>3 DEF Way
  <2> QED BY <2>4
<1>9. ASSUME NEW k \in Nat, k \in T PROVE k + 1 \in T
  <2> SUFFICES ASSUME k + 1 <= d PROVE Way(up[k + 1], k + 1, d)
    OBVIOUS
  <2> DEFINE p == up[k]
             n == ancestors[p[Len(p)]]
  <2>1. Way(p, k, d)
    BY <1>3, <1>9
  <2>2. n \in discovered /\ dep(n) = d - k /\ <<p[Len(p)], n>> \in Selected(query.sel)
    BY <1>3, <2>1 DEF Way
  <2>a. /\ \A a, b, c \in Nat : c + 1 <= b /\ a = b - c => a # 0
        /\ \A a, e, b, c \in Nat : c + 1 <= b /\ a = b - c /\ a = e + 1 => e = b - (c + 1)
    OBVIOUS
  <2>b. n \in Node /\ n # None /\ dep(n) \in Nat
    BY <1>2, <1>4, <2>2
  <2>c. dep(n) # 0
    BY <1>3, <2>2, <2>a, <2>b
  <2>3. n \in Node /\ n # None /\ n # Self
    BY <1>4, <2>b, <2>c
  <2>4. up[k + 1] = Append(p, n)
    BY <1>7, <2>3
  <2>5. p \in Seq(Node) /\ Len(p) = k + 1 /\ p[1] = Goal
        /\ \A i \in 1 .. k : <<p[i], p[i + 1]>> \in Selected(query.sel)
    BY <2>1 DEF Way
  <2> HIDE DEF n, p
  <2>6. /\ Append(p, n) \in Seq(Node) /\ Len(Append(p, n)) = (k + 1) + 1
        /\ Append(p, n)[(k + 1) + 1] = n
        /\ \A i \in 1 .. k + 1 : Append(p, n)[i] = p[i]
    BY <2>3, <2>5
  <2>7. ASSUME NEW i \in 1 .. k + 1 PROVE <<Append(p, n)[i], Append(p, n)[i + 1]>> \in Selected(query.sel)
    <3>1. CASE i \in 1 .. k
      <4>1. i + 1 \in 1 .. k + 1
        BY <3>1
      <4> QED BY <2>5, <2>6, <3>1, <4>1
    <3>2. CASE i = k + 1
      <4>1. Append(p, n)[i] = p[Len(p)] /\ Append(p, n)[i + 1] = n
        BY <2>5, <2>6, <3>2
      <4> QED BY <2>2, <4>1
    <3>3. i \in 1 .. k \/ i = k + 1
      OBVIOUS
    <3> QED BY <3>1, <3>2, <3>3
  <2>8. /\ ancestors[n] \in discovered /\ <<ancestors[n], n>> \in PathEdges
        /\ dep(n) = dep(ancestors[n]) + 1
    BY <2>2, <2>3 DEF Found
  <2>9. dep(ancestors[n]) = d - (k + 1)
    <3>1. dep(ancestors[n]) \in Nat
      BY <1>4, <2>8
    <3> DEFINE e == dep(ancestors[n])
               a == dep(n)
    <3>2. e \in Nat /\ a \in Nat /\ d \in Nat /\ k \in Nat /\ k + 1 <= d /\ a = d - k /\ a = e + 1
      BY <1>3, <2>2, <2>8, <2>b, <3>1
    <3> HIDE DEF e, a
    <3>3. e = d - (k + 1)
      BY <2>a, <3>2
    <3> QED BY <3>3 DEF e
  <2>10. <<n, ancestors[n]>> \in Selected(query.sel)
    BY <1>1, <1>2, <2>3, <2>8
  <2>11. Append(p, n)[1] = Goal
    BY <2>5, <2>6
  <2> QED BY <2>4, <2>6, <2>7, <2>8, <2>9, <2>10, <2>11 DEF Way
<1>10. Nat \subseteq T
  <2> HIDE DEF T
  <2> QED BY <1>8, <1>9, Induction
<1>11. Way(up[d], d, d)
  BY <1>3, <1>10
<1>12. ancestors[up[d][Len(up[d])]] \in {None, Self}
  <2> DEFINE n == ancestors[up[d][Len(up[d])]]
  <2>1. n = None \/ (n \in discovered /\ dep(n) = d - d)
    BY <1>11 DEF Way
  <2> HIDE DEF n
  <2>2. d - d = 0
    BY <1>3
  <2>3. n \in {None, Self}
    BY <1>4, <2>1, <2>2
  <2> QED BY <2>3 DEF n
<1> DEFINE U == {j \in Nat : up[d + j] = up[d]}
<1>13. 0 \in U
  BY <1>3
<1>14. ASSUME NEW j \in Nat, j \in U PROVE j + 1 \in U
  <2>1. d + j \in Nat /\ (d + j) + 1 = d + (j + 1) /\ up[d + j] = up[d]
    BY <1>3, <1>14
  <2>2. up[(d + j) + 1] = up[d + j]
    BY <1>7, <1>12, <2>1
  <2> QED BY <2>1, <2>2
<1>15. Nat \subseteq U
  <2> HIDE DEF U
  <2> QED BY <1>13, <1>14, Induction
<1>16. up[Cardinality(Node)] = up[d]
  <2>0. \A a, b \in Nat : b + 1 <= a => a - b \in Nat /\ b + (a - b) = a
    OBVIOUS
  <2>1. Cardinality(Node) - d \in Nat /\ d + (Cardinality(Node) - d) = Cardinality(Node)
    BY <1>3, <2>0
  <2> QED BY <1>15, <2>1
<1> QED BY <1>5, <1>11, <1>16

LEMMA CollectedPath ==
    ASSUME QueryType, Phases, ShortestInv, Collected
    PROVE  ShortestInv'
<1>0. query \in Query /\ query' = query /\ phase = "collected"
  BY DEF Collected, QueryType, Phases, flows_to
<1>1. CASE query.kind # "shortest_path"
  BY <1>0, <1>1 DEF ShortestInv, PathInv, FoundInv, PathAsk, ShortestPathRight, Is
<1>2. CASE query.kind = "shortest_path"
  <2>1. phase' = "done" /\ answer' = "nodes"
        /\ \E self \in query.from, to \in query.to : out' = path_from(to, self)
    BY <1>2 DEF Collected, Return
  <2>2. /\ Self \in Node /\ Goal \in Node /\ query.from = {Self} /\ query.to = {Goal}
    BY <1>0, <1>2, Ends
  <2>3. out' = path_from(Goal, Self)
    BY <2>1, <2>2
  <2>4. PICK d : Found(d) /\ query.same_controller
    BY <1>0, <1>2 DEF ShortestInv, FoundInv
  <2>5. Way(out', d, d)
    BY <1>0, <1>2, <2>3, <2>4, WayUp
  <2>6. Distance(Goal, Self) = d + 1 /\ d \in Nat
    BY <2>4 DEF Found
  <2>7. /\ Len(out') = d + 1 /\ out' \in Seq(Node) /\ out'[1] = Goal
        /\ \A i \in 1 .. d : <<out'[i], out'[i + 1]>> \in Selected(query.sel)
        /\ <<out'[d + 1], Self>> \in Selected(query.sel)
    <3>1. /\ Len(out') = d + 1 /\ out' \in Seq(Node) /\ out'[1] = Goal
          /\ \A i \in 1 .. d : <<out'[i], out'[i + 1]>> \in Selected(query.sel)
      BY <2>5 DEF Way
    <3> DEFINE n == ancestors[out'[d + 1]]
    <3>2. \/ n \in discovered /\ <<out'[d + 1], n>> \in Selected(query.sel) /\ dep(n) = d - d
          \/ <<out'[d + 1], Self>> \in Selected(query.sel)
      BY <2>5, <3>1 DEF Way
    <3>3. n \in discovered /\ dep(n) = 0 => n = Self
      <4>1. \A m \in discovered : m \in Node /\ Reaches(Node, PathEdges, Self, m)
        BY <2>4 DEF Found, QueryType
      <4> HIDE DEF n
      <4> QED BY <2>2, <4>1, DepthZero DEF dep
    <3>4. d - d = 0
      BY <2>6
    <3> HIDE DEF n
    <3> QED BY <3>1, <3>2, <3>3, <3>4
  <2> DEFINE p == Append(out', Self)
  <2>8. p[1] = Goal /\ \A i \in 1 .. Len(out') : <<p[i], p[i + 1]>> \in Selected(query.sel)
    <3>1. /\ \A i \in 1 .. d + 1 : p[i] = out'[i]
          /\ p[(d + 1) + 1] = Self
      BY <2>2, <2>6, <2>7
    <3> HIDE DEF p
    <3>2. p[1] = Goal
      BY <2>6, <2>7, <3>1
    <3>3. ASSUME NEW i \in 1 .. d + 1 PROVE <<p[i], p[i + 1]>> \in Selected(query.sel)
      <4>1. CASE i = d + 1
        BY <2>7, <3>1, <4>1
      <4>2. CASE i # d + 1
        <5>1. i \in 1 .. d /\ i + 1 \in 1 .. d + 1
          BY <2>6, <4>2
        <5> QED BY <2>7, <3>1, <5>1
      <4> QED BY <4>1, <4>2
    <3> QED BY <2>7, <3>2, <3>3
  <2>9. Self' = Self /\ Goal' = Goal /\ Distance(Goal, Self)' = d + 1
    BY <1>0, <2>6, PathUnchanged
  <2> HIDE DEF p
  <2>10. ShortestPathRight'
    <3> SUFFICES ASSUME NEW self \in query'.from, NEW to \in query'.to
                 PROVE  /\ Len(out') = Distance(to, self)'
                        /\ LET q == Append(out', self)
                           IN  /\ q[1] = to
                               /\ \A i \in 1 .. Len(out') :
                                     <<q[i], q[i + 1]>> \in filter_graph(query'.spdg, query'.sel)
      BY <1>0, <2>1, <2>4 DEF ShortestPathRight, Is
    <3>1. self = Self /\ to = Goal
      BY <1>0, <2>2
    <3>2. Distance(to, self)' = d + 1
      BY <2>9, <3>1
    <3> QED BY <1>0, <2>7, <2>8, <3>1, <3>2 DEF p, Selected
  <2> QED BY <2>1, <2>10 DEF ShortestInv, PathInv, FoundInv, PathAsk
<1> QED BY <1>1, <1>2

\* ShortestPathRight holds after every step.
LEMMA ShortestStep ==
    ASSUME QueryType, Phases, FlowsInv, ShortestInv, QStep
    PROVE  ShortestInv'
<1>1. CASE UNCHANGED query_vars
  <2>1. query' = query /\ UNCHANGED <<phase, edges, queue, discovered, ancestors, out, answer>>
    BY <1>1 DEF query_vars, traversal
  <2>2. /\ Self' = Self /\ Goal' = Goal /\ PathEdges' = PathEdges
        /\ \A n : dep(n)' = dep(n)
        /\ \A a, b : Distance(a, b)' = Distance(a, b)
    BY <2>1, PathUnchanged
  <2>3. PathInv'
    BY <2>1, <2>2 DEF ShortestInv, PathInv, Yielded
  <2>4. FoundInv'
    BY <2>1, <2>2 DEF ShortestInv, FoundInv, Found
  <2>5. PathAsk'
    BY <2>1 DEF ShortestInv, PathAsk
  <2>6. ShortestPathRight'
    BY <2>1, <2>2 DEF ShortestInv, ShortestPathRight, Is
  <2> QED BY <2>3, <2>4, <2>5, <2>6 DEF ShortestInv
<1>2. ASSUME NEW q \in Query, Ask(q) PROVE ShortestInv'
  BY <1>2 DEF Ask, ShortestInv, PathInv, FoundInv, PathAsk, ShortestPathRight, Is
<1>3. ASSUME query' = query, query.kind # "shortest_path" PROVE ShortestInv'
  BY <1>3 DEF ShortestInv, PathInv, FoundInv, PathAsk, ShortestPathRight, Is
<1>4. ASSUME \/ AskFlowsTo \/ AskInfluencers \/ AskInfluencees \/ AskCtrlInfluence
             \/ AskRoots \/ AskRootsWhere
      PROVE  query' = query /\ query.kind # "shortest_path"
  BY <1>4 DEF AskFlowsTo, AskInfluencers, AskInfluencees, AskCtrlInfluence, AskRoots,
     AskRootsWhere, flows_to, bfs_iter, influencees
<1>5. ASSUME NotFound \/ OrderedAll \/ \E n \in Node : Discover(n) \/ Ordered(n)
      PROVE  query' = query /\ query.kind # "shortest_path"
  BY <1>5 DEF NotFound, OrderedAll, Discover, Ordered, Phases
<1> QED BY <1>1, <1>2, <1>3, <1>4, <1>5, PathBegins, YieldPath, ExhaustedPath, CollectedPath
        DEF QStep, QueryStep

-----------------------------------------------------------------------------
(***************************************************************************)
(* always_depends: the calls under way.                                    *)
(***************************************************************************)
\* Where the result of a recursive call goes: to no call, or to the k-th.
Resumed(s, res, k) == Append(SubSeq(s, 1, k - 1), D!results(s[k], res))

LEMMA Given ==
    ASSUME NEW S, NEW s \in Seq(S), NEW res \in BOOLEAN
    PROVE  \/ D!given(s, res) = <<>> /\ (res \/ s = <<>>)
           \/ \E k \in 1 .. Len(s) : D!given(s, res) = Resumed(s, res, k) /\ (res \/ k = Len(s))
<1> DEFINE Def(h) == h = [k \in Nat |->
                IF k = 0 THEN <<>>
                ELSE IF res /\ ~s[k].tentative THEN h[k - 1]
                ELSE Append(SubSeq(s, 1, k - 1), D!results(s[k], res))]
           next(k, p) == IF res /\ ~s[k].tentative THEN p ELSE Resumed(s, res, k)
           P == {<<>>} \cup {Resumed(s, res, k) : k \in Nat}
           none == <<>>
           g == [k \in Nat |-> [p \in P |-> next(k + 1, p)]]
           pass == CHOOSE h : Def(h)
<1>1. none \in P /\ g \in [Nat -> [P -> P]]
  <2>1. \A k \in Nat, p \in P : next(k, p) \in P
    OBVIOUS
  <2>2. \A k \in Nat : k + 1 \in Nat
    OBVIOUS
  <2>3. none \in P
    OBVIOUS
  <2> HIDE DEF next, P, none
  <2> QED BY <2>1, <2>2, <2>3
<1>2. PICK e \in [Nat -> P] : RecursionFrom(e, none, g)
  <2> HIDE DEF none, g, P
  <2> QED BY <1>1, RecursionExists
<1>3. \A k \in Nat : e[k + 1] = next(k + 1, e[k])
  <2> HIDE DEF P, next
  <2> QED BY <1>2 DEF RecursionFrom
<1>4. Def(e)
  <2>1. ASSUME NEW k \in Nat, k # 0 PROVE e[k] = next(k, e[k - 1])
    <3>1. k - 1 \in Nat /\ (k - 1) + 1 = k
      BY <2>1
    <3> HIDE DEF next
    <3> QED BY <1>3, <3>1
  <2>2. e[0] = <<>>
    BY <1>2 DEF RecursionFrom
  <2>3. e = [k \in Nat |-> e[k]]
    BY <1>2
  <2>4. \A k \in Nat : e[k] = IF k = 0 THEN <<>> ELSE next(k, e[k - 1])
    BY <2>1, <2>2
  <2>5. e = [k \in Nat |-> IF k = 0 THEN <<>> ELSE next(k, e[k - 1])]
    <3> HIDE DEF next
    <3> QED BY <2>3, <2>4
  <2> QED BY <2>5 DEF Resumed
<1>5. Def(pass)
  <2> HIDE DEF Def
  <2> QED BY <1>4
<1>6. D!given(s, res) = pass[Len(s)]
  BY DEF D!given
<1> HIDE DEF pass
<1>7. pass[0] = <<>>
  BY <1>5
<1>8. ASSUME NEW k \in Nat PROVE pass[k + 1] = next(k + 1, pass[k])
  <2>1. k + 1 \in Nat /\ k + 1 # 0 /\ (k + 1) - 1 = k
    OBVIOUS
  <2> QED BY <1>5, <2>1 DEF Resumed
<1> DEFINE Goes(k) ==
      \/ pass[k] = <<>> /\ (res \/ k = 0)
      \/ \E j \in 1 .. k : pass[k] = Resumed(s, res, j) /\ (res \/ j = k)
           T == {k \in Nat : Goes(k)}
<1>9. 0 \in T
  BY <1>7
<1>10. ASSUME NEW k \in Nat, k \in T PROVE k + 1 \in T
  <2>1. Goes(k) /\ pass[k + 1] = next(k + 1, pass[k]) /\ k + 1 \in Nat /\ k + 1 \in 1 .. k + 1
        /\ \A j \in 1 .. k : j \in 1 .. k + 1
    BY <1>8, <1>10
  <2>2. CASE res /\ ~s[k + 1].tentative
    <3>1. pass[k + 1] = pass[k]
      BY <2>1, <2>2
    <3> QED BY <2>1, <2>2, <3>1
  <2>3. CASE ~(res /\ ~s[k + 1].tentative)
    <3>1. pass[k + 1] = Resumed(s, res, k + 1)
      BY <2>1, <2>3
    <3> QED BY <2>1, <3>1
  <2> QED BY <2>2, <2>3
<1>11. Nat \subseteq T
  <2> HIDE DEF T
  <2> QED BY <1>9, <1>10, Induction
<1>12. Len(s) \in Nat /\ (Len(s) = 0 => s = <<>>)
  OBVIOUS
<1>13. Goes(Len(s))
  <2> HIDE DEF Goes
  <2> QED BY <1>11, <1>12
<1> QED BY <1>6, <1>12, <1>13

Frame == [node : Node, discovered : SUBSET Node, todo : SUBSET D!Edge,
          tentative : BOOLEAN, any : BOOLEAN]

\* What always_depends(start, target) has to say.
Depends == Reaches(Node, DataEdges(graph), target, start)

\* What was found of a call, it was found rightly.
FrameRight(f) ==
    /\ Reaches(Node, DataEdges(graph), f.node, start)
    /\ f.any => Depends
    /\ f.todo \subseteq D!incoming(graph, f.node)

\* A call has discovered the nodes of its callers, and its own.
Frames(s) ==
    /\ s \in Seq(Frame)
    /\ \A i \in DOMAIN s : FrameRight(s[i])
    /\ \A i, j \in DOMAIN s : i <= j => s[i].node \in s[j].discovered
    /\ \A i, j \in DOMAIN s : s[i].node = s[j].node => i = j

\* A call has found the target, or will: a path leads from it to an edge the call
\* has yet to look at, through nodes that the call has not discovered.
Avoiding(A) == NotInto(DataEdges(graph), A)
Good(f) ==
    \/ f.any
    \/ \E e \in f.todo : /\ e.kind = "Data" /\ e.source \notin f.discovered
                         /\ target \notin f.discovered
                         /\ Reaches(Node, Avoiding(f.discovered), target, e.source)
SomeGood(s) == \E i \in DOMAIN s : Good(s[i])

DependsInv ==
    /\ stack # <<>> =>
          /\ graph \in SUBSET D!Edge /\ start \in Node /\ target \in Node
          /\ depends = {}
          /\ Frames(stack)
          /\ Depends => SomeGood(stack)
    /\ stack = <<>> =>
          depends = {} \/ (depends = {TRUE} /\ Depends) \/ (depends = {FALSE} /\ ~Depends)

LEMMA DataEdgesType ==
    ASSUME graph \in SUBSET D!Edge
    PROVE  /\ DataEdges(graph) \in SUBSET (Node \X Node)
           /\ \A e \in graph : /\ e.source \in Node /\ e.target \in Node
                               /\ e.kind = "Data" => <<e.source, e.target>> \in DataEdges(graph)
                               /\ e.kind # "Data" => e.kind = "Control"
           /\ \A a, b : <<a, b>> \in DataEdges(graph) =>
                 \E e \in graph : e.kind = "Data" /\ e.source = a /\ e.target = b
<1>1. \A e \in graph : e.source \in Node /\ e.target \in Node /\ e.kind \in {"Data", "Control"}
  BY DEF D!Edge, D!EdgeKind
<1>2. \A p \in DataEdges(graph) : \E e \in graph : e.kind = "Data" /\ p = <<e.source, e.target>>
  BY DEF DataEdges
<1>3. \A e \in graph : e.kind = "Data" => <<e.source, e.target>> \in DataEdges(graph)
  BY DEF DataEdges
<1>4. DataEdges(graph) \in SUBSET (Node \X Node)
  BY <1>1, <1>2
<1> QED BY <1>1, <1>2, <1>3, <1>4

\* The innermost calls return, and one goes on.
LEMMA ReplaceLast ==
    ASSUME NEW s, Frames(s), NEW k \in 1 .. Len(s), NEW f \in Frame,
           f.node = s[k].node, s[k].discovered \subseteq f.discovered,
           f.todo \subseteq s[k].todo, f.any => s[k].any \/ Depends
    PROVE  /\ Frames(Append(SubSeq(s, 1, k - 1), f))
           /\ \A i \in 1 .. k - 1 : Append(SubSeq(s, 1, k - 1), f)[i] = s[i]
           /\ Append(SubSeq(s, 1, k - 1), f)[k] = f
           /\ DOMAIN Append(SubSeq(s, 1, k - 1), f) = 1 .. k
<1> DEFINE t == Append(SubSeq(s, 1, k - 1), f)
<1>1. s \in Seq(Frame)
  BY DEF Frames
<1>2. /\ t \in Seq(Frame) /\ DOMAIN t = 1 .. k /\ t[k] = f
      /\ \A i \in 1 .. k - 1 : t[i] = s[i]
  BY <1>1
<1>3. \A i \in 1 .. k : i \in DOMAIN s /\ t[i].node = s[i].node /\ (i = k \/ i \in 1 .. k - 1)
  BY <1>1, <1>2
<1> HIDE DEF t
<1>4. ASSUME NEW i \in 1 .. k PROVE FrameRight(t[i]) /\ s[i].discovered \subseteq t[i].discovered
  <2>1. FrameRight(s[i])
    BY <1>3 DEF Frames
  <2>2. CASE i = k
    BY <1>2, <2>1, <2>2 DEF FrameRight
  <2>3. CASE i \in 1 .. k - 1
    BY <1>2, <2>1, <2>3
  <2> QED BY <1>3, <2>2, <2>3
<1>5. \A i, j \in 1 .. k : i <= j => t[i].node \in t[j].discovered
  BY <1>3, <1>4 DEF Frames
<1>6. \A i, j \in 1 .. k : t[i].node = t[j].node => i = j
  BY <1>3 DEF Frames
<1> QED BY <1>2, <1>4, <1>5, <1>6 DEF Frames, t

\* A call is made.
LEMMA PushFrame ==
    ASSUME NEW s, Frames(s), NEW g \in Frame, FrameRight(g),
           g.node \in g.discovered,
           \A i \in DOMAIN s : s[i].node \in g.discovered /\ s[i].node # g.node
    PROVE  /\ Frames(Append(s, g))
           /\ \A i \in DOMAIN s : Append(s, g)[i] = s[i] /\ i \in DOMAIN Append(s, g)
           /\ Append(s, g)[Len(s) + 1] = g /\ Len(s) + 1 \in DOMAIN Append(s, g)
<1> DEFINE t == Append(s, g)
           k == Len(s) + 1
<1>1. s \in Seq(Frame)
  BY DEF Frames
<1>2. /\ t \in Seq(Frame) /\ t[k] = g /\ k \in DOMAIN t /\ k \in Nat
      /\ \A i \in DOMAIN s : t[i] = s[i] /\ i \in DOMAIN t /\ i < k /\ i \in Nat
      /\ \A i \in DOMAIN t : i \in DOMAIN s \/ i = k
  BY <1>1
<1> HIDE DEF t, k
<1>3. \A i \in DOMAIN t : FrameRight(t[i])
  BY <1>2 DEF Frames
<1>4. ASSUME NEW i \in DOMAIN t, NEW j \in DOMAIN t, i <= j PROVE t[i].node \in t[j].discovered
  <2>1. CASE i \in DOMAIN s /\ j \in DOMAIN s
    BY <1>2, <1>4, <2>1 DEF Frames
  <2>2. CASE i \in DOMAIN s /\ j = k
    BY <1>2, <2>2
  <2>3. CASE i = k
    <3>1. j = k
      BY <1>2, <1>4, <2>3
    <3> QED BY <1>2, <2>3, <3>1
  <2> QED BY <1>2, <2>1, <2>2, <2>3
<1>5. \A i, j \in DOMAIN t : t[i].node = t[j].node => i = j
  BY <1>2 DEF Frames
<1> QED BY <1>2, <1>3, <1>4, <1>5 DEF Frames, t, k

\* A result goes back: the answer, or a call goes on.
LEMMA PassDepends ==
    ASSUME NEW s, Frames(s), NEW res \in BOOLEAN, D!Pass(s, res),
           graph \in SUBSET D!Edge, start \in Node, target \in Node,
           res => Depends, Depends /\ ~res => SomeGood(s)
    PROVE  DependsInv'
<1>1. /\ stack' = D!given(s, res) /\ graph' = graph /\ start' = start /\ target' = target
      /\ depends' = IF D!given(s, res) = <<>> THEN {res} ELSE {}
  BY DEF D!Pass
<1>2. s \in Seq(Frame)
  BY DEF Frames
<1>3. Depends' <=> Depends
  BY <1>1 DEF Depends
<1>4. CASE D!given(s, res) = <<>> /\ (res \/ s = <<>>)
  <2>1. s = <<>> => ~SomeGood(s)
    BY DEF SomeGood
  <2>2. stack' = <<>> /\ depends' = {res} /\ (res <=> Depends)
    BY <1>1, <1>4, <2>1
  <2> QED BY <1>3, <2>2 DEF DependsInv
<1>5. ASSUME NEW k \in 1 .. Len(s), D!given(s, res) = Resumed(s, res, k), res \/ k = Len(s)
      PROVE  DependsInv'
  <2> DEFINE f == [s[k] EXCEPT !.any = @ \/ res]
             t == Append(SubSeq(s, 1, k - 1), f)
  <2>1. s[k] \in Frame /\ k \in DOMAIN s
    BY <1>2
  <2>2. /\ f \in Frame /\ f.node = s[k].node /\ f.discovered = s[k].discovered /\ f.todo = s[k].todo
        /\ f.any = (s[k].any \/ res)
    BY <2>1 DEF Frame
  <2>3. stack' = t
    BY <1>1, <1>5 DEF Resumed, D!results
  <2> HIDE DEF f
  <2>4. /\ Frames(t) /\ t[k] = f /\ DOMAIN t = 1 .. k
        /\ \A i \in 1 .. k - 1 : t[i] = s[i]
    BY <2>2, ReplaceLast
  <2>5. t # <<>>
    OBVIOUS
  <2>6. Depends => SomeGood(t)
    <3> SUFFICES ASSUME Depends PROVE SomeGood(t)
      OBVIOUS
    <3>1. k \in 1 .. k
      OBVIOUS
    <3>2. CASE res
      BY <2>2, <2>4, <3>1, <3>2 DEF SomeGood, Good
    <3>3. CASE ~res
      <4>1. PICK i \in DOMAIN s : Good(s[i])
        BY <3>3 DEF SomeGood
      <4>2. k = Len(s) /\ i \in 1 .. k /\ (i = k \/ i \in 1 .. k - 1)
        BY <1>2, <1>5, <3>3
      <4>3. Good(t[i])
        <5>1. CASE i = k
          BY <2>2, <2>4, <4>1, <5>1 DEF Good
        <5>2. CASE i \in 1 .. k - 1
          BY <2>4, <4>1, <5>2
        <5> QED BY <4>2, <5>1, <5>2
      <4> QED BY <2>4, <4>2, <4>3 DEF SomeGood
    <3> QED BY <3>2, <3>3
  <2>7. depends' = {}
    BY <1>1, <2>3, <2>5
  <2> HIDE DEF t
  <2>8. Frames(stack)'
    BY <1>1, <2>3, <2>4 DEF Frames, FrameRight, Depends
  <2>9. SomeGood(stack)' <=> SomeGood(t)
    BY <1>1, <2>3 DEF SomeGood, Good, Avoiding
  <2> QED BY <1>1, <1>3, <2>3, <2>5, <2>6, <2>7, <2>8, <2>9 DEF DependsInv
<1> QED BY <1>2, <1>4, <1>5, Given

\* The innermost of the calls under way.
LEMMA TopFacts ==
    ASSUME DependsInv, stack # <<>>
    PROVE  /\ graph \in SUBSET D!Edge /\ start \in Node /\ target \in Node /\ depends = {}
           /\ Frames(stack) /\ stack \in Seq(Frame) /\ Len(stack) \in Nat \ {0}
           /\ Len(stack) \in DOMAIN stack /\ D!top = stack[Len(stack)] /\ D!top \in Frame
           /\ FrameRight(D!top) /\ D!top.node \in D!top.discovered
           /\ D!callers = SubSeq(stack, 1, Len(stack) - 1)
           /\ \A i \in DOMAIN stack : stack[i].node \in D!top.discovered
           /\ D!top.node \in Node /\ D!top.discovered \in SUBSET Node /\ D!top.todo \subseteq graph
           /\ Depends => SomeGood(stack)
<1>1. /\ graph \in SUBSET D!Edge /\ start \in Node /\ target \in Node /\ depends = {}
      /\ Frames(stack) /\ (Depends => SomeGood(stack))
  BY DEF DependsInv
<1>2. stack \in Seq(Frame)
  BY <1>1 DEF Frames
<1>3. Len(stack) \in Nat \ {0} /\ Len(stack) \in DOMAIN stack /\ \A i \in DOMAIN stack : i <= Len(stack)
  BY <1>2
<1>4. D!top = stack[Len(stack)] /\ D!callers = SubSeq(stack, 1, Len(stack) - 1)
  BY DEF D!top, D!callers
<1>5. D!top \in Frame
  BY <1>2, <1>3, <1>4
<1>6. FrameRight(D!top) /\ \A i \in DOMAIN stack : stack[i].node \in D!top.discovered
  BY <1>1, <1>3, <1>4 DEF Frames
<1>7. D!top.todo \subseteq graph
  BY <1>6 DEF FrameRight, D!incoming
<1>8. D!top.node \in Node /\ D!top.discovered \in SUBSET Node
  BY <1>5 DEF Frame
<1>9. D!top.node \in D!top.discovered
  BY <1>3, <1>4, <1>6
<1> QED BY <1>1, <1>2, <1>3, <1>4, <1>5, <1>6, <1>7, <1>8, <1>9

\* The search of a node that the target reaches without what was discovered
\* finds the target: it has an edge on the way.
LEMMA CallGood ==
    ASSUME graph \in SUBSET D!Edge, target \in Node, NEW x \in Node, NEW A \in SUBSET Node,
           x # target, target \notin A, Reaches(Node, Avoiding(A), target, x)
    PROVE  Good(D!call(graph, x, A \cup {x}))
<1>1. PICK m \in Node \ {x} : <<m, x>> \in Avoiding(A) /\ Reaches(Node, NotInto(Avoiding(A), {x}), target, m)
  BY LastEdgeAvoiding
<1>2. NotInto(Avoiding(A), {x}) = Avoiding(A \cup {x})
  BY NotIntoTwice DEF Avoiding
<1>3. target \notin A \cup {x}
  OBVIOUS
<1>4. m \notin A \cup {x}
  BY <1>1, <1>2, <1>3, NotEntered DEF Avoiding
<1>5. PICK e \in graph : e.kind = "Data" /\ e.source = m /\ e.target = x
  BY <1>1, DataEdgesType DEF Avoiding, NotInto
<1> DEFINE f == D!call(graph, x, A \cup {x})
<1>6. f.todo = D!incoming(graph, x) /\ f.discovered = A \cup {x}
  BY DEF D!call
<1>7. e \in D!incoming(graph, x)
  BY <1>5 DEF D!incoming
<1> HIDE DEF f
<1>8. Good(f)
  BY <1>1, <1>2, <1>3, <1>4, <1>5, <1>6, <1>7 DEF Good
<1> QED BY <1>8 DEF f

LEMMA SkipDepends ==
    ASSUME DependsInv, NEW e \in D!Edge, D!Skip(e)
    PROVE  DependsInv'
<1>1. stack # <<>> /\ e \in D!top.todo /\ D!skipped(e)
      /\ graph' = graph /\ start' = start /\ target' = target /\ depends' = depends
      /\ stack' = Append(D!callers, [D!top EXCEPT !.todo = @ \ {e}])
  BY DEF D!Skip
<1> DEFINE s == stack
           n == Len(stack)
           f == [D!top EXCEPT !.todo = @ \ {e}]
           t == Append(SubSeq(s, 1, n - 1), f)
<1>2. /\ graph \in SUBSET D!Edge /\ start \in Node /\ target \in Node /\ depends = {}
      /\ Frames(s) /\ s \in Seq(Frame) /\ n \in Nat \ {0} /\ n \in 1 .. Len(s) /\ DOMAIN s = 1 .. n
      /\ D!top = s[n] /\ D!top \in Frame
      /\ D!callers = SubSeq(s, 1, n - 1) /\ (Depends => SomeGood(s))
  BY <1>1, TopFacts
<1>3. /\ f \in Frame /\ f.node = s[n].node /\ f.discovered = s[n].discovered
      /\ f.todo = s[n].todo \ {e} /\ f.any = s[n].any
  BY <1>2 DEF Frame
<1>4. stack' = t
  BY <1>1, <1>2
<1> HIDE DEF f, n, s
<1>5. /\ Frames(t) /\ t[n] = f /\ DOMAIN t = 1 .. n
      /\ \A i \in 1 .. n - 1 : t[i] = s[i]
  BY <1>2, <1>3, ReplaceLast
<1>6. t # <<>>
  BY <1>2, <1>5
<1>7. Good(s[n]) => Good(f)
  <2>1. e.kind = "Control" \/ e.source \in s[n].discovered
    BY <1>1, <1>2 DEF D!skipped
  <2> QED BY <1>3, <2>1 DEF Good
<1> HIDE DEF t
<1>8. Depends => SomeGood(t)
  <2> SUFFICES ASSUME Depends PROVE SomeGood(t)
    OBVIOUS
  <2>1. PICK i \in 1 .. n : Good(s[i])
    BY <1>2 DEF SomeGood
  <2>2. i = n \/ i \in 1 .. n - 1
    BY <1>2
  <2>3. Good(t[i])
    BY <1>5, <1>7, <2>1, <2>2
  <2> QED BY <1>5, <2>1, <2>3 DEF SomeGood
<1>9. Frames(stack)'
  BY <1>1, <1>4, <1>5 DEF Frames, FrameRight, Depends
<1>10. (SomeGood(stack)' <=> SomeGood(t)) /\ (Depends' <=> Depends)
  BY <1>1, <1>4 DEF SomeGood, Good, Avoiding, Depends
<1> QED BY <1>1, <1>2, <1>4, <1>6, <1>8, <1>9, <1>10 DEF DependsInv

LEMMA ReturnDepends ==
    ASSUME DependsInv, D!Return
    PROVE  DependsInv'
<1>1. stack # <<>> /\ D!top.todo = {} /\ D!Pass(D!callers, D!top.any)
  BY DEF D!Return
<1> DEFINE n == Len(stack)
           s == SubSeq(stack, 1, n - 1)
<1>2. /\ graph \in SUBSET D!Edge /\ start \in Node /\ target \in Node
      /\ Frames(stack) /\ stack \in Seq(Frame) /\ n \in Nat \ {0}
      /\ D!top = stack[n] /\ D!top \in Frame /\ FrameRight(D!top)
      /\ D!callers = s /\ (Depends => SomeGood(stack))
  BY <1>1, TopFacts
<1>3. /\ s \in Seq(Frame) /\ DOMAIN s = 1 .. n - 1 /\ DOMAIN stack = 1 .. n
      /\ \A i \in DOMAIN s : s[i] = stack[i] /\ i \in DOMAIN stack
  BY <1>2
<1> HIDE DEF s
<1>4. Frames(s)
  BY <1>2, <1>3 DEF Frames
<1>5. D!top.any \in BOOLEAN /\ (D!top.any => Depends)
  BY <1>2 DEF Frame, FrameRight
<1>6. ASSUME Depends, ~D!top.any PROVE SomeGood(s)
  <2>1. PICK i \in DOMAIN stack : Good(stack[i])
    BY <1>2, <1>6 DEF SomeGood
  <2>2. i # n
    BY <1>1, <1>2, <1>6, <2>1 DEF Good
  <2>3. i \in DOMAIN s
    BY <1>2, <1>3, <2>2
  <2> QED BY <1>3, <2>1, <2>3 DEF SomeGood
<1> QED BY <1>1, <1>2, <1>4, <1>5, <1>6, PassDepends

LEMMA AskDepends ==
    ASSUME NEW g \in SUBSET D!Edge, NEW s \in Node, NEW t \in Node, D!Ask(g, s, t)
    PROVE  DependsInv'
<1>1. /\ graph' = g /\ start' = s /\ target' = t
      /\ stack' = IF s = t THEN <<>> ELSE <<D!call(g, s, {s})>>
      /\ depends' = IF s = t THEN {TRUE} ELSE {}
  BY DEF D!Ask
<1>2. (Reaches(Node, DataEdges(g), t, s))  <=> Depends'
  BY <1>1 DEF Depends
<1>3. CASE s = t
  <2>1. Depends'
    BY <1>2, <1>3, ReachesRefl
  <2> QED BY <1>1, <1>3, <2>1 DEF DependsInv
<1>4. CASE s # t
  <2> DEFINE f == D!call(g, s, {s})
             one == <<f>>
  <2>1. f.node = s /\ f.discovered = {s} /\ f.todo = D!incoming(g, s) /\ f.any = FALSE
    BY DEF D!call
  <2>2. D!incoming(g, s) \in SUBSET D!Edge
    BY DEF D!incoming
  <2>3. f \in Frame
    BY <2>2 DEF Frame, D!call
  <2>4. stack' = one /\ depends' = {}
    BY <1>1, <1>4
  <2> HIDE DEF f
  <2>5. one \in Seq(Frame) /\ DOMAIN one = {1} /\ one[1] = f /\ one # <<>>
    BY <2>3
  <2> HIDE DEF one
  <2>6. FrameRight(f)'
    <3>1. Reaches(Node, DataEdges(g), s, s)
      BY ReachesRefl
    <3> QED BY <1>1, <2>1, <3>1 DEF FrameRight, D!incoming
  <2>7. Frames(stack)'
    BY <2>1, <2>4, <2>5, <2>6 DEF Frames
  <2>8. Depends' => Good(f)'
    <3> SUFFICES ASSUME Reaches(Node, DataEdges(g), t, s) PROVE Good(f)'
      BY <1>2
    <3>1. PICK m \in Node \ {s} :
            <<m, s>> \in DataEdges(g) /\ Reaches(Node, NotInto(DataEdges(g), {s}), t, m)
      BY <1>4, LastEdgeAvoiding
    <3>3. PICK e \in g : e.kind = "Data" /\ e.source = m /\ e.target = s
      BY <3>1 DEF DataEdges
    <3>4. e \in f.todo
      BY <2>1, <3>3 DEF D!incoming
    <3>5. Avoiding({s})' = NotInto(DataEdges(g), {s})
      BY <1>1 DEF Avoiding
    <3>6. Reaches(Node, Avoiding({s})', target', e.source)
      BY <1>1, <3>1, <3>3, <3>5
    <3>7. e.source \notin f.discovered /\ target' \notin f.discovered
      BY <1>1, <1>4, <2>1, <3>1, <3>3
    <3> QED BY <2>1, <3>3, <3>4, <3>6, <3>7 DEF Good
  <2>9. Depends' => SomeGood(stack)'
    BY <2>4, <2>5, <2>8 DEF SomeGood
  <2>10. graph' \in SUBSET D!Edge /\ start' \in Node /\ target' \in Node
    BY <1>1
  <2> QED BY <2>4, <2>5, <2>7, <2>9, <2>10 DEF DependsInv
<1> QED BY <1>3, <1>4

LEMMA CallDepends ==
    ASSUME DependsInv, NEW e \in D!Edge, D!Call(e)
    PROVE  DependsInv'
<1>1. stack # <<>> /\ e \in D!top.todo /\ ~D!skipped(e)
  BY DEF D!Call
<1> DEFINE s == stack
           n == Len(stack)
           x == e.source
           disc == D!top.discovered
           f == D!calling(e)
           t == Append(SubSeq(s, 1, n - 1), f)
           g == D!call(graph, x, disc \cup {x})
<1>2. /\ graph \in SUBSET D!Edge /\ start \in Node /\ target \in Node /\ depends = {}
      /\ Frames(s) /\ s \in Seq(Frame) /\ n \in Nat \ {0} /\ n \in 1 .. Len(s) /\ DOMAIN s = 1 .. n
      /\ D!top = s[n] /\ D!top \in Frame /\ FrameRight(D!top) /\ D!top.node \in Node
      /\ disc \in SUBSET Node /\ \A i \in DOMAIN s : s[i].node \in disc
      /\ D!callers = SubSeq(s, 1, n - 1) /\ (Depends => SomeGood(s)) /\ D!top.todo \subseteq graph
  BY <1>1, TopFacts
<1>3. e \in graph /\ e.kind = "Data" /\ x \in Node /\ x \notin disc /\ e.target = D!top.node
  <2>1. e.target = D!top.node
    BY <1>1, <1>2 DEF FrameRight, D!incoming
  <2> QED BY <1>1, <1>2, <2>1, DataEdgesType DEF D!skipped
<1>4. Reaches(Node, DataEdges(graph), x, start)
  <2>1. Reaches(Node, DataEdges(graph), D!top.node, start)
    BY <1>2 DEF FrameRight
  <2>2. <<x, D!top.node>> \in DataEdges(graph)
    BY <1>2, <1>3, DataEdgesType
  <2> HIDE DEF x
  <2> QED BY <1>2, <1>3, <2>1, <2>2, ReachesStep
<1>5. /\ f \in Frame /\ f.node = s[n].node /\ f.discovered = (IF n = 1 THEN disc \cup {x} ELSE disc)
      /\ f.todo = s[n].todo \ {e} /\ f.any = s[n].any
  <2>1. e.tentative \in BOOLEAN
    BY DEF D!Edge
  <2> QED BY <1>2, <1>3, <2>1 DEF Frame, D!calling
<1>6. /\ D!top.todo \subseteq graph /\ disc \subseteq f.discovered
  BY <1>2, <1>5
<1>7. \/ x = target /\ D!Pass(t, TRUE)
      \/ /\ x # target /\ stack' = Append(t, g)
         /\ graph' = graph /\ start' = start /\ target' = target /\ depends' = depends
  BY <1>2 DEF D!Call
<1> HIDE DEF f, n, s, x, disc
<1>8. /\ Frames(t) /\ t[n] = f /\ DOMAIN t = 1 .. n
      /\ \A i \in 1 .. n - 1 : t[i] = s[i]
  <2>1. s[n].discovered = disc
    BY <1>2 DEF disc
  <2> QED BY <1>2, <1>5, <1>6, <2>1, ReplaceLast
<1> HIDE DEF t
<1>9. CASE x = target /\ D!Pass(t, TRUE)
  <2>1. Depends
    BY <1>4, <1>9 DEF Depends
  <2> QED BY <1>2, <1>8, <1>9, <2>1, PassDepends
<1>10. CASE x # target /\ stack' = Append(t, g) /\ graph' = graph /\ start' = start
            /\ target' = target /\ depends' = depends
  <2>1. /\ g.node = x /\ g.discovered = disc \cup {x} /\ g.todo = D!incoming(graph, x)
        /\ g.any = FALSE /\ g.tentative = FALSE
    BY DEF D!call
  <2>2. g \in Frame
    <3>1. D!incoming(graph, x) \in SUBSET D!Edge
      BY <1>2 DEF D!incoming
    <3> QED BY <1>2, <1>3, <3>1 DEF D!call, Frame
  <2>3. ASSUME Depends, target \notin disc, Reaches(Node, Avoiding(disc), target, x) PROVE Good(g)
    BY <1>2, <1>3, <1>10, <2>3, CallGood
  <2> HIDE DEF g
  <2>4. FrameRight(g)
    BY <1>4, <2>1 DEF FrameRight
  <2>5. \A i \in DOMAIN t : t[i].node = s[i].node /\ i \in DOMAIN s
    <3>1. \A i \in 1 .. n : i = n \/ i \in 1 .. n - 1
      BY <1>2
    <3> QED BY <1>2, <1>5, <1>8, <3>1
  <2>6. \A i \in DOMAIN t : t[i].node \in g.discovered /\ t[i].node # g.node
    BY <1>2, <1>3, <2>1, <2>5
  <2> DEFINE r == Append(t, g)
  <2>7. /\ Frames(r) /\ \A i \in DOMAIN t : r[i] = t[i] /\ i \in DOMAIN r
        /\ r[Len(t) + 1] = g /\ Len(t) + 1 \in DOMAIN r
    BY <1>8, <2>1, <2>2, <2>4, <2>6, PushFrame
  <2> HIDE DEF r
  <2>8. r # <<>>
    BY <2>7
  <2>9. Depends => SomeGood(r)
    <3> SUFFICES ASSUME Depends PROVE SomeGood(r)
      OBVIOUS
    <3>1. PICK i \in 1 .. n : Good(s[i])
      BY <1>2 DEF SomeGood
    <3>2. Good(g) => SomeGood(r)
      BY <2>7 DEF SomeGood
    <3>3. \A j \in 1 .. n : Good(t[j]) => SomeGood(r)
      BY <1>8, <2>7 DEF SomeGood
    <3>4. CASE i \in 1 .. n - 1
      BY <1>8, <3>1, <3>3, <3>4
    <3>5. CASE i = n
      <4> SUFFICES Good(f) \/ Good(g)
        BY <1>2, <1>8, <3>2, <3>3
      <4>1. CASE s[n].any
        BY <1>5, <4>1 DEF Good
      <4>2. CASE ~s[n].any
        <5>1. PICK d \in s[n].todo : /\ d.kind = "Data" /\ d.source \notin disc /\ target \notin disc
                                     /\ Reaches(Node, Avoiding(disc), target, d.source)
          BY <1>2, <3>1, <3>5, <4>2 DEF Good, disc
        <5>2. CASE d = e
          BY <2>3, <5>1, <5>2 DEF x
        <5>3. CASE d # e /\ n # 1
          BY <1>5, <5>1, <5>3 DEF Good
        <5>4. CASE d # e /\ n = 1
          <6>1. d \in f.todo /\ f.discovered = disc \cup {x} /\ target \notin disc \cup {x}
            BY <1>5, <1>10, <5>1, <5>4
          <6>2. CASE Reaches(Node, Avoiding(disc \cup {x}), target, d.source)
            <7>1. d.source \notin disc \cup {x}
              BY <1>2, <6>1, <6>2, NotEntered DEF Avoiding
            <7> QED BY <5>1, <6>1, <6>2, <7>1 DEF Good
          <6>3. CASE ~Reaches(Node, Avoiding(disc \cup {x}), target, d.source)
            <7>1. Avoiding(disc \cup {x}) = NotInto(Avoiding(disc), {x})
              BY NotIntoTwice DEF Avoiding
            <7>2. Reaches(Node, Avoiding(disc), target, x)
              BY <1>2, <1>3, <5>1, <6>3, <7>1, ByWayOf
            <7> QED BY <2>3, <5>1, <7>2
          <6> QED BY <6>2, <6>3
        <5> QED BY <5>2, <5>3, <5>4
      <4> QED BY <4>1, <4>2
    <3>6. i = n \/ i \in 1 .. n - 1
      BY <1>2
    <3> QED BY <3>4, <3>5, <3>6
  <2>10. stack' = r
    BY <1>10 DEF r
  <2>11. Frames(stack)'
    BY <1>10, <2>7, <2>10 DEF Frames, FrameRight, Depends
  <2>12. (SomeGood(stack)' <=> SomeGood(r)) /\ (Depends' <=> Depends)
    BY <1>10, <2>10 DEF SomeGood, Good, Avoiding, Depends
  <2> QED BY <1>2, <1>10, <2>8, <2>9, <2>10, <2>11, <2>12 DEF DependsInv
<1> QED BY <1>7, <1>9, <1>10

LEMMA DependsStep ==
    ASSUME DependsInv,
           \/ D!SearchStep \/ UNCHANGED depends_vars
           \/ \E g \in SUBSET D!Edge, s, t \in Node : D!Ask(g, s, t)
    PROVE  DependsInv'
<1>1. CASE UNCHANGED depends_vars
  <2>1. UNCHANGED <<graph, start, target, stack, depends>>
    BY <1>1 DEF depends_vars
  <2>2. Frames(stack)' <=> Frames(stack)
    BY <2>1 DEF Frames, FrameRight, Depends
  <2>3. SomeGood(stack)' <=> SomeGood(stack)
    BY <2>1 DEF SomeGood, Good, Avoiding
  <2> QED BY <2>1, <2>2, <2>3 DEF DependsInv, Depends
<1>2. CASE D!SearchStep
  BY <1>2, SkipDepends, CallDepends, ReturnDepends DEF D!SearchStep
<1> QED BY <1>1, <1>2, AskDepends

-----------------------------------------------------------------------------
(***************************************************************************)
(* The pairs of a question, in the order they are tried.                   *)
(***************************************************************************)
row(q, i) == ((i - 1) \div Len(inner(q))) + 1
col(q, i) == ((i - 1) % Len(inner(q))) + 1
place(q, x, y) == (x - 1) * Len(inner(q)) + y

LEMMA Division ==
    ASSUME NEW n \in Nat \ {0}
    PROVE  /\ \A i \in Nat : i \div n \in Nat /\ i % n \in 0 .. n - 1 /\ i = (i \div n) * n + (i % n)
           /\ \A a \in Nat, b \in 0 .. n - 1 : a * n + b \in Nat
           /\ \A a \in Nat, b \in 0 .. n - 1 : (a * n + b) \div n = a
           /\ \A a \in Nat, b \in 0 .. n - 1 : (a * n + b) % n = b
           /\ \A a, b \in Nat : a < b => a * n + n <= b * n
<1>1. ASSUME NEW i \in Nat
      PROVE  i \div n \in Nat /\ i % n \in 0 .. n - 1 /\ i = (i \div n) * n + (i % n)
  <2>1. i \div n \in Nat /\ i % n \in 0 .. n - 1
    BY SMTT(30)
  <2>2. i = (i \div n) * n + (i % n)
    BY SMTT(30)
  <2> QED BY <2>1, <2>2
<1>2. ASSUME NEW a \in Nat, NEW b \in 0 .. n - 1
      PROVE  a * n + b \in Nat /\ (a * n + b) \div n = a /\ (a * n + b) % n = b
  <2>1. a * n + b \in Nat
    BY SMTT(30)
  <2>2. (a * n + b) \div n = a
    BY SMTT(30)
  <2>3. (a * n + b) % n = b
    BY SMTT(30)
  <2> QED BY <2>1, <2>2, <2>3
<1>3. ASSUME NEW a \in Nat, NEW b \in Nat, a < b PROVE a * n + n <= b * n
  BY <1>3, SMTT(30)
<1> QED BY <1>1, <1>2, <1>3

LEMMA PairsFacts ==
    ASSUME NEW q, Len(outer(q)) \in Nat, Len(inner(q)) \in Nat
    PROVE  LET m == Len(outer(q))
               n == Len(inner(q))
           IN  /\ Len(pairs(q)) = m * n /\ Len(pairs(q)) \in Nat
               /\ \A i \in 1 .. Len(pairs(q)) :
                     /\ row(q, i) \in 1 .. m /\ col(q, i) \in 1 .. n
                     /\ pairs(q)[i] = <<outer(q)[row(q, i)], inner(q)[col(q, i)]>>
                     /\ place(q, row(q, i), col(q, i)) = i
               /\ \A x \in 1 .. m, y \in 1 .. n :
                     /\ place(q, x, y) \in 1 .. Len(pairs(q))
                     /\ row(q, place(q, x, y)) = x /\ col(q, place(q, x, y)) = y
               /\ \A x, v \in 1 .. m, y, w \in 1 .. n :
                     place(q, x, y) <= place(q, v, w) => x < v \/ (x = v /\ y <= w)
<1> DEFINE m == Len(outer(q))
           n == Len(inner(q))
           size == m * n
<1>1. m \in Nat /\ n \in Nat /\ size \in Nat /\ (size # 0 => n # 0)
  BY SMTT(30)
<1>2. pairs(q) = [i \in 1 .. size |-> <<outer(q)[row(q, i)], inner(q)[col(q, i)]>>]
  BY DEF pairs, row, col
<1>3. Len(pairs(q)) = size
  <2> DEFINE f == [i \in 1 .. size |-> <<outer(q)[row(q, i)], inner(q)[col(q, i)]>>]
  <2> HIDE DEF size
  <2>1. Len(f) = size
    BY <1>1
  <2> QED BY <1>2, <2>1
<1>4. ASSUME NEW i \in 1 .. size
      PROVE  /\ row(q, i) \in 1 .. m /\ col(q, i) \in 1 .. n
             /\ place(q, row(q, i), col(q, i)) = i
  <2> DEFINE a == (i - 1) \div n
             b == (i - 1) % n
  <2>1. n \in Nat \ {0} /\ i - 1 \in Nat /\ i \in Nat /\ i - 1 < size
    BY <1>1
  <2>2. a \in Nat /\ b \in 0 .. n - 1 /\ i - 1 = a * n + b
    <3> HIDE DEF n
    <3> QED BY <2>1, Division
  <2>3. row(q, i) = a + 1 /\ col(q, i) = b + 1 /\ place(q, a + 1, b + 1) = ((a + 1) - 1) * n + (b + 1)
    BY DEF row, col, place
  <2> HIDE DEF a, b
  <2>4. a < m
    <3> SUFFICES ASSUME m <= a PROVE FALSE
      BY <1>1, <2>2
    <3>1. m * n <= a * n
      <4>1. CASE m = a
        <5>1. a * n \in Nat
          BY <1>1, <2>2, SMTT(30)
        <5> QED BY <4>1, <5>1
      <4>2. CASE m < a
        <5> HIDE DEF n, m
        <5>1. m * n + n <= a * n
          BY <1>1, <2>1, <2>2, <4>2, Division
        <5>2. m * n \in Nat /\ a * n \in Nat
          BY <1>1, <2>2, SMTT(30)
        <5> QED BY <1>1, <5>1, <5>2
      <4> QED BY <1>1, <2>2, <4>1, <4>2
    <3>2. a * n \in Nat /\ m * n \in Nat
      BY <1>1, <2>2, SMTT(30)
    <3> DEFINE an == a * n
               mn == m * n
    <3>3. an \in Nat /\ mn \in Nat /\ mn <= an /\ i - 1 = an + b /\ i - 1 < mn /\ i \in Nat
      BY <2>1, <2>2, <3>1, <3>2
    <3> HIDE DEF an, mn, n
    <3> QED BY <1>1, <2>1, <2>2, <3>3
  <2>5. (a + 1) - 1 = a
    BY <2>2
  <2>6. place(q, a + 1, b + 1) = i
    <3>1. place(q, a + 1, b + 1) = a * n + (b + 1)
      BY <2>3, <2>5
    <3> DEFINE an == a * n
    <3>2. an \in Nat
      BY <1>1, <2>2, SMTT(30)
    <3>3. place(q, a + 1, b + 1) = an + (b + 1) /\ i - 1 = an + b
      BY <2>2, <3>1
    <3> HIDE DEF an, n
    <3> QED BY <2>1, <2>2, <3>2, <3>3
  <2> HIDE DEF n, m
  <2> QED BY <1>1, <2>2, <2>3, <2>4, <2>6
<1>5. ASSUME NEW x \in 1 .. m, NEW y \in 1 .. n
      PROVE  /\ place(q, x, y) \in 1 .. size
             /\ row(q, place(q, x, y)) = x /\ col(q, place(q, x, y)) = y
  <2> DEFINE a == x - 1
             b == y - 1
             an == a * n
  <2>1. a \in Nat /\ b \in 0 .. n - 1 /\ n \in Nat \ {0} /\ a < m /\ x = a + 1 /\ y = b + 1
    BY <1>1
  <2>2. place(q, x, y) = an + y
    BY DEF place
  <2> HIDE DEF a, b, n, m
  <2>3. (an + b) \div n = a /\ (an + b) % n = b /\ an + b \in Nat /\ an + n <= size
    BY <1>1, <2>1, Division
  <2>4. an \in Nat
    BY <2>1, SMTT(30)
  <2> HIDE DEF an, size
  <2>5. place(q, x, y) \in 1 .. size /\ place(q, x, y) - 1 = an + b
    BY <1>1, <2>1, <2>2, <2>3, <2>4
  <2>6. row(q, place(q, x, y)) = a + 1 /\ col(q, place(q, x, y)) = b + 1
    BY <2>3, <2>5 DEF row, col, n
  <2> QED BY <2>1, <2>5, <2>6
<1>6. ASSUME NEW x \in 1 .. m, NEW v \in 1 .. m, NEW y \in 1 .. n, NEW w \in 1 .. n,
             place(q, x, y) <= place(q, v, w)
      PROVE  x < v \/ (x = v /\ y <= w)
  <2> DEFINE an == (x - 1) * n
             cn == (v - 1) * n
  <2>1. place(q, x, y) = an + y /\ place(q, v, w) = cn + w
    BY DEF place
  <2>2. x - 1 \in Nat /\ v - 1 \in Nat /\ n \in Nat \ {0}
    BY <1>1
  <2>3. an \in Nat /\ cn \in Nat
    <3> DEFINE c == x - 1
               d == v - 1
    <3>1. c \in Nat /\ d \in Nat /\ n \in Nat
      BY <2>2
    <3> HIDE DEF c, d, n
    <3>2. c * n \in Nat /\ d * n \in Nat
      BY <3>1, SMTT(30)
    <3> QED BY <3>2 DEF c, d
  <2>4. CASE v < x
    <3>1. v - 1 < x - 1
      BY <2>2, <2>4
    <3> DEFINE c == x - 1
               d == v - 1
    <3>2. d < c /\ c \in Nat /\ d \in Nat
      BY <2>2, <3>1
    <3> HIDE DEF c, d, n
    <3>3. d * n + n <= c * n
      BY <2>2, <3>2, Division
    <3>4. cn + n <= an
      BY <3>3 DEF c, d
    <3> HIDE DEF an, cn
    <3> QED BY <1>6, <2>1, <2>2, <2>3, <3>4 DEF n
  <2>5. CASE x = v
    <3>1. an = cn
      BY <2>5
    <3> HIDE DEF an, cn
    <3>2. y <= w
      BY <1>1, <1>6, <2>1, <2>3, <3>1
    <3> QED BY <2>5, <3>2
  <2>6. x \in Int /\ v \in Int
    BY <1>1
  <2> QED BY <2>4, <2>5, <2>6
<1>7. \A i \in 1 .. size : pairs(q)[i] = <<outer(q)[row(q, i)], inner(q)[col(q, i)]>>
  BY <1>2
<1> QED BY <1>1, <1>3, <1>4, <1>5, <1>6, <1>7

-----------------------------------------------------------------------------
(***************************************************************************)
(* What a policy asks.                                                     *)
(***************************************************************************)
RelatedAt(i) == Related(pairs(asked)[i][1], pairs(asked)[i][2])

\* The query under way is that of the pair.
Posed ==
    LET x == pairs(asked)[tried][1]
        y == pairs(asked)[tried][2]
    IN  /\ asked.kind = "any_flows" => query = FlowQuery(asked, pairs(asked)[tried])
        /\ asked.kind = "any_dependence" =>
              /\ x.controller = y.controller /\ x.nodes # <<>> /\ y.nodes # <<>>
              /\ graph = asked.graph[x.controller]
              /\ start = Head(y.nodes) /\ target = Head(x.nodes)

\* No pair before was related; the one that is returned is.
AskedInv ==
    /\ asked \in Questions /\ turn \in {"pick", "search", "done"}
    /\ tried \in 0 .. Len(pairs(asked))
    /\ turn = "search" => tried # 0 /\ Posed
    /\ asked.kind # "query" =>
          /\ turn # "done" => example = {}
          /\ turn = "pick" => \A i \in 1 .. tried : ~RelatedAt(i)
          /\ turn = "search" => \A i \in 1 .. tried - 1 : ~RelatedAt(i)
          /\ turn = "done" =>
                \/ example = {} /\ \A i \in 1 .. Len(pairs(asked)) : ~RelatedAt(i)
                \/ /\ tried # 0 /\ example = {pairs(asked)[tried]} /\ RelatedAt(tried)
                   /\ \A i \in 1 .. tried - 1 : ~RelatedAt(i)

PolicyInv ==
    /\ QueryType /\ Phases
    /\ FlowsInv /\ RootsInv /\ ShortestInv
    /\ DependsInv
    /\ AskedInv

LEMMA QuestionType ==
    ASSUME asked \in Questions
    PROVE  /\ asked.kind \in {"query", "any_flows", "any_dependence"}
           /\ asked.kind = "query" => asked.query \in Query
           /\ asked.kind = "any_flows" =>
                 /\ asked.spdg \in [Controller -> SPDGsOver(Node)] /\ asked.sel \in EdgeSelection
                 /\ asked.use_index \in BOOLEAN
                 /\ asked.from \in Seq(GlobalNode) /\ asked.to \in Seq(GlobalNode)
           /\ asked.kind = "any_dependence" =>
                 /\ asked.graph \in [Controller -> SUBSET D!Edge]
                 /\ asked.from \in Cluster /\ asked.influencers \in Seq(Cluster)
<1>1. asked \in Question
  BY QuestionsAssumption
<1>2. \/ asked \in [kind : {"query"}, query : Query]
      \/ asked \in [kind : {"any_flows"}, spdg : [Controller -> SPDGsOver(Node)], sel : EdgeSelection,
                    use_index : BOOLEAN, from : Seq(GlobalNode), to : Seq(GlobalNode)]
      \/ asked \in [kind : {"any_dependence"}, graph : [Controller -> SUBSET D!Edge],
                    from : Cluster, influencers : Seq(Cluster)]
  BY <1>1 DEF Question
<1>3. CASE asked \in [kind : {"query"}, query : Query]
  <2>1. asked.kind = "query" /\ asked.query \in Query
    BY <1>3
  <2> QED BY <2>1
<1>4. CASE asked \in [kind : {"any_flows"}, spdg : [Controller -> SPDGsOver(Node)], sel : EdgeSelection,
                    use_index : BOOLEAN, from : Seq(GlobalNode), to : Seq(GlobalNode)]
  <2>1. /\ asked.kind = "any_flows"
        /\ asked.spdg \in [Controller -> SPDGsOver(Node)] /\ asked.sel \in EdgeSelection
        /\ asked.use_index \in BOOLEAN
        /\ asked.from \in Seq(GlobalNode) /\ asked.to \in Seq(GlobalNode)
    BY <1>4
  <2> QED BY <2>1
<1>5. CASE asked \in [kind : {"any_dependence"}, graph : [Controller -> SUBSET D!Edge],
                    from : Cluster, influencers : Seq(Cluster)]
  <2>1. /\ asked.kind = "any_dependence"
        /\ asked.graph \in [Controller -> SUBSET D!Edge]
        /\ asked.from \in Cluster /\ asked.influencers \in Seq(Cluster)
    BY <1>5
  <2> QED BY <2>1
<1> QED BY <1>2, <1>3, <1>4, <1>5

LEMMA QuestionPairs ==
    ASSUME asked \in Questions
    PROVE  /\ Len(outer(asked)) \in Nat /\ Len(inner(asked)) \in Nat
           /\ DOMAIN outer(asked) = 1 .. Len(outer(asked))
           /\ DOMAIN inner(asked) = 1 .. Len(inner(asked))
           /\ Len(pairs(asked)) \in Nat
           /\ asked.kind = "any_flows" => \A i \in 1 .. Len(pairs(asked)) :
                 pairs(asked)[i][1] \in GlobalNode /\ pairs(asked)[i][2] \in GlobalNode
           /\ asked.kind = "any_dependence" => \A i \in 1 .. Len(pairs(asked)) :
                 pairs(asked)[i][1] \in Cluster /\ pairs(asked)[i][2] \in Cluster
<1>1. CASE asked.kind = "query"
  <2>1. outer(asked) = <<asked>> /\ inner(asked) = <<asked>>
    BY <1>1 DEF outer, inner
  <2>2. /\ Len(outer(asked)) = 1 /\ Len(inner(asked)) = 1
        /\ DOMAIN outer(asked) = 1 .. 1 /\ DOMAIN inner(asked) = 1 .. 1
    BY <2>1
  <2>3. Len(pairs(asked)) \in Nat
    BY <2>2, PairsFacts
  <2> QED BY <1>1, <2>2, <2>3
<1>2. ASSUME NEW S, NEW T, outer(asked) \in Seq(S), inner(asked) \in Seq(T)
      PROVE  /\ Len(outer(asked)) \in Nat /\ Len(inner(asked)) \in Nat
             /\ DOMAIN outer(asked) = 1 .. Len(outer(asked))
             /\ DOMAIN inner(asked) = 1 .. Len(inner(asked))
             /\ Len(pairs(asked)) \in Nat
             /\ \A i \in 1 .. Len(pairs(asked)) : pairs(asked)[i][1] \in S /\ pairs(asked)[i][2] \in T
  <2>1. /\ Len(outer(asked)) \in Nat /\ Len(inner(asked)) \in Nat
        /\ DOMAIN outer(asked) = 1 .. Len(outer(asked))
        /\ DOMAIN inner(asked) = 1 .. Len(inner(asked))
        /\ \A x \in 1 .. Len(outer(asked)) : outer(asked)[x] \in S
        /\ \A y \in 1 .. Len(inner(asked)) : inner(asked)[y] \in T
    BY <1>2
  <2>2. /\ Len(pairs(asked)) \in Nat
        /\ \A i \in 1 .. Len(pairs(asked)) :
                     /\ row(asked, i) \in 1 .. Len(outer(asked)) /\ col(asked, i) \in 1 .. Len(inner(asked))
                     /\ pairs(asked)[i] = <<outer(asked)[row(asked, i)], inner(asked)[col(asked, i)]>>
    BY <2>1, PairsFacts
  <2> QED BY <2>1, <2>2
<1>3. CASE asked.kind = "any_flows"
  <2>1. outer(asked) \in Seq(GlobalNode) /\ inner(asked) \in Seq(GlobalNode)
    BY <1>3, QuestionType DEF outer, inner
  <2> QED BY <1>2, <1>3, <2>1
<1>4. CASE asked.kind = "any_dependence"
  <2>1. outer(asked) \in Seq(Cluster) /\ inner(asked) \in Seq(Cluster)
    BY <1>4, QuestionType DEF outer, inner
  <2> QED BY <1>2, <1>4, <2>1
<1> QED BY <1>1, <1>3, <1>4, QuestionType

\* The query of a pair is one.
LEMMA FlowQueryType ==
    ASSUME asked \in Questions, asked.kind = "any_flows", NEW p,
           p[1] \in GlobalNode, p[2] \in GlobalNode
    PROVE  FlowQuery(asked, p) \in Query
<1>1. p[1][1] \in Controller /\ p[1][2] \in Node /\ p[2][2] \in Node
  BY DEF GlobalNode
<1>2. asked.spdg[p[1][1]] \in SPDGsOver(Node) /\ asked.sel \in EdgeSelection /\ asked.use_index \in BOOLEAN
  BY <1>1, QuestionType
<1> QED BY <1>1, <1>2 DEF FlowQuery, Query, Kind

LEMMA StepsKeepQuery == QueryStep => query' = query
  BY DEF QueryStep, AskFlowsTo, AskInfluencers, AskInfluencees, AskCtrlInfluence, AskShortestPath,
     AskRoots, AskRootsWhere, Discover, Yield, Ordered, NotFound, Exhausted, Collected, OrderedAll,
     flows_to, bfs_iter, influencees

LEMMA StepsKeepDependence == D!SearchStep => UNCHANGED <<graph, start, target>>
  BY DEF D!SearchStep, D!Skip, D!Call, D!Return, D!Pass

\* What a step does to the queries.
LEMMA PickSteps ==
    ASSUME asked \in Questions, tried \in 0 .. Len(pairs(asked)), Pick
    PROVE  /\ QStep
           /\ D!SearchStep \/ UNCHANGED depends_vars
                \/ \E g \in SUBSET D!Edge, s, t \in Node : D!Ask(g, s, t)
<1>1. tried' \in 1 .. Len(pairs(asked)) /\ asked' = asked /\ tried' = tried + 1
  BY QuestionPairs DEF Pick
<1>2. CASE asked.kind = "query"
  BY <1>2, QuestionType DEF Pick, QStep
<1>3. CASE asked.kind = "any_flows"
  <2>1. Ask(FlowQuery(asked, pairs(asked)[tried'])) /\ UNCHANGED depends_vars
    BY <1>3 DEF Pick
  <2>2. FlowQuery(asked, pairs(asked)[tried']) \in Query
    BY <1>1, <1>3, QuestionPairs, FlowQueryType
  <2> QED BY <2>1, <2>2 DEF QStep
<1>4. CASE asked.kind = "any_dependence"
  <2> DEFINE x == pairs(asked)[tried'][1]
             y == pairs(asked)[tried'][2]
  <2>1. always_depends(x, y) /\ UNCHANGED query_vars
    BY <1>4 DEF Pick
  <2>2. x \in Cluster /\ y \in Cluster
    BY <1>1, <1>4, QuestionPairs
  <2>3. asked.graph \in [Controller -> SUBSET D!Edge]
    BY <1>4, QuestionType
  <2> HIDE DEF x, y
  <2>4. CASE UNCHANGED depends_vars
    BY <2>1, <2>4 DEF QStep
  <2>5. CASE /\ x.nodes # <<>> /\ y.nodes # <<>>
             /\ D!Ask(asked.graph[y.controller], Head(y.nodes), Head(x.nodes))
    <3>1. asked.graph[y.controller] \in SUBSET D!Edge /\ Head(y.nodes) \in Node /\ Head(x.nodes) \in Node
      BY <2>2, <2>3, <2>5 DEF Cluster
    <3> QED BY <2>1, <2>5, <3>1 DEF QStep
  <2> QED BY <2>1, <2>4, <2>5 DEF always_depends
<1> QED BY <1>2, <1>3, <1>4, QuestionType

LEMMA OtherSteps ==
    ASSUME Search \/ Answered \/ NoneLeft \/ UNCHANGED vars
    PROVE  /\ QStep
           /\ D!SearchStep \/ UNCHANGED depends_vars
  BY DEF Search, Answered, NoneLeft, QStep, vars

LEMMA RelatedUnchanged ==
    ASSUME asked' = asked
    PROVE  \A i : RelatedAt(i)' <=> RelatedAt(i)
  BY DEF RelatedAt, Related

LEMMA PickAsked ==
    ASSUME AskedInv, Pick
    PROVE  AskedInv'
<1>1. /\ asked \in Questions /\ tried \in 0 .. Len(pairs(asked)) /\ turn = "pick"
      /\ tried < Len(pairs(asked)) /\ tried' = tried + 1 /\ asked' = asked /\ example' = example
      /\ asked.kind # "query" => example = {} /\ \A i \in 1 .. tried : ~RelatedAt(i)
  BY DEF AskedInv, Pick
<1>2. Len(pairs(asked)) \in Nat
  BY <1>1, QuestionPairs
<1>3. /\ tried' \in 1 .. Len(pairs(asked)) /\ tried' # 0 /\ tried' \in 0 .. Len(pairs(asked))
      /\ tried' - 1 = tried /\ \A i \in 1 .. tried' : i = tried' \/ i \in 1 .. tried
  BY <1>1, <1>2
<1>4. \A i : RelatedAt(i)' <=> RelatedAt(i)
  BY <1>1, RelatedUnchanged
<1> DEFINE p == pairs(asked)[tried']
<1>5. CASE asked.kind = "query"
  <2>1. turn' = "search"
    BY <1>5 DEF Pick
  <2>2. Posed'
    BY <1>1, <1>5 DEF Posed
  <2> QED BY <1>1, <1>3, <1>5, <2>1, <2>2 DEF AskedInv
<1>6. CASE asked.kind = "any_flows"
  <2>1. turn' = "search" /\ query' = FlowQuery(asked, p)
    BY <1>6 DEF Pick, Ask
  <2>2. Posed'
    BY <1>1, <1>6, <2>1 DEF Posed
  <2> QED BY <1>1, <1>3, <1>4, <1>6, <2>1, <2>2 DEF AskedInv
<1>7. CASE asked.kind = "any_dependence"
  <2>1. always_depends(p[1], p[2])
    BY <1>7 DEF Pick
  <2>2. CASE p[1].controller # p[2].controller \/ p[1].nodes = <<>> \/ p[2].nodes = <<>>
    <3>1. turn' = "pick"
      BY <2>1, <2>2 DEF always_depends
    <3>2. ~RelatedAt(tried')
      BY <1>7, <2>2 DEF RelatedAt, Related
    <3>3. \A i \in 1 .. tried' : ~RelatedAt(i)
      BY <1>1, <1>3, <1>7, <3>2
    <3> QED BY <1>1, <1>3, <1>4, <1>7, <3>1, <3>3 DEF AskedInv
  <2>3. CASE ~(p[1].controller # p[2].controller \/ p[1].nodes = <<>> \/ p[2].nodes = <<>>)
    <3>1. turn' = "search" /\ D!Ask(asked.graph[p[2].controller], Head(p[2].nodes), Head(p[1].nodes))
      BY <2>1, <2>3 DEF always_depends
    <3>2. /\ graph' = asked.graph[p[1].controller] /\ start' = Head(p[2].nodes)
          /\ target' = Head(p[1].nodes)
      BY <2>3, <3>1 DEF D!Ask
    <3>3. Posed'
      BY <1>1, <1>7, <2>3, <3>2 DEF Posed
    <3> QED BY <1>1, <1>3, <1>4, <1>7, <3>1, <3>3 DEF AskedInv
  <2> QED BY <2>2, <2>3
<1> QED BY <1>1, <1>5, <1>6, <1>7, QuestionType

LEMMA SearchAsked ==
    ASSUME AskedInv, Search \/ UNCHANGED vars
    PROVE  AskedInv'
<1>1. /\ UNCHANGED <<asked, tried, example, turn>>
      /\ turn = "search" => UNCHANGED <<graph, start, target>>
      /\ turn = "search" => query' = query
  <2>1. CASE UNCHANGED vars
    BY <2>1 DEF vars, asked_vars, query_vars, depends_vars
  <2>2. CASE Search
    BY <2>2, StepsKeepQuery, StepsKeepDependence DEF Search, asked_vars, query_vars, depends_vars
  <2> QED BY <2>1, <2>2
<1>2. \A i : RelatedAt(i)' <=> RelatedAt(i)
  BY <1>1, RelatedUnchanged
<1>3. turn = "search" => (Posed' <=> Posed)
  BY <1>1 DEF Posed
<1> QED BY <1>1, <1>2, <1>3 DEF AskedInv

\* The answer to the query of a pair says whether the pair is related.
LEMMA AnswerRelated ==
    ASSUME PolicyInv, turn = "search", asked.kind # "query",
           IF asked.kind = "any_dependence" THEN depends # {} ELSE phase = "done"
    PROVE  RelatedAt(tried) <=>
              IF asked.kind = "any_dependence" THEN depends = {TRUE} ELSE answer = "yes"
<1>1. /\ asked \in Questions /\ Posed /\ tried \in 1 .. Len(pairs(asked))
  <2>1. asked \in Questions /\ Posed /\ tried # 0 /\ tried \in 0 .. Len(pairs(asked))
    BY DEF PolicyInv, AskedInv
  <2>2. Len(pairs(asked)) \in Nat
    BY <2>1, QuestionPairs
  <2> QED BY <2>1, <2>2
<1> DEFINE p == pairs(asked)[tried]
<1>2. CASE asked.kind = "any_flows"
  <2>1. query = FlowQuery(asked, p) /\ phase = "done" /\ FlowsExact
    BY <1>1, <1>2 DEF Posed, PolicyInv, FlowsInv
  <2> HIDE DEF p
  <2>2. /\ query.kind = "flows_to" /\ query.spdg = asked.spdg[p[1][1]] /\ query.sel = asked.sel
        /\ query.same_controller = (p[1][1] = p[2][1])
        /\ query.from = {p[1][2]} /\ query.to = {p[2][2]}
    BY <2>1 DEF FlowQuery
  <2>3. answer = "yes" <=> /\ query.same_controller
                           /\ \E a \in query.from, b \in query.to : Flows(a, b)
    BY <2>1, <2>2 DEF FlowsExact, Is
  <2>4. Flows(p[1][2], p[2][2]) <=>
           Reaches(Node, filter_graph(asked.spdg[p[1][1]], asked.sel), p[1][2], p[2][2])
    BY <2>2 DEF Flows
  <2>5. Related(p[1], p[2]) <=> p[1][1] = p[2][1] /\ Flows(p[1][2], p[2][2])
    BY <1>2, <2>4 DEF Related
  <2>6. answer = "yes" <=> p[1][1] = p[2][1] /\ Flows(p[1][2], p[2][2])
    BY <2>2, <2>3
  <2> QED BY <1>2, <2>5, <2>6 DEF RelatedAt, p
<1>3. CASE asked.kind = "any_dependence"
  <2>1. /\ p[1].controller = p[2].controller /\ p[1].nodes # <<>> /\ p[2].nodes # <<>>
        /\ graph = asked.graph[p[1].controller]
        /\ start = Head(p[2].nodes) /\ target = Head(p[1].nodes)
    BY <1>1, <1>3 DEF Posed
  <2>2. RelatedAt(tried) <=> Depends
    BY <1>3, <2>1 DEF RelatedAt, Related, Depends
  <2>3. (depends = {TRUE} /\ Depends) \/ (depends = {FALSE} /\ ~Depends)
    BY <1>3 DEF PolicyInv, DependsInv
  <2>4. {TRUE} # {FALSE}
    OBVIOUS
  <2> QED BY <1>3, <2>2, <2>3, <2>4
<1> QED BY <1>1, <1>2, <1>3, QuestionType

LEMMA AnsweredAsked ==
    ASSUME PolicyInv, Answered
    PROVE  AskedInv'
<1>1. /\ AskedInv /\ turn = "search" /\ asked' = asked /\ tried' = tried
      /\ asked \in Questions /\ tried # 0 /\ tried \in 0 .. Len(pairs(asked))
  BY DEF PolicyInv, AskedInv, Answered
<1>2. Len(pairs(asked)) \in Nat
  BY <1>1, QuestionPairs
<1>3. \A i : RelatedAt(i)' <=> RelatedAt(i)
  BY <1>1, RelatedUnchanged
<1>4. asked.kind # "query" => example = {} /\ \A i \in 1 .. tried - 1 : ~RelatedAt(i)
  BY <1>1 DEF AskedInv
<1> DEFINE yes == IF asked.kind = "any_dependence" THEN depends = {TRUE} ELSE answer = "yes"
<1>5. asked.kind # "query" => (RelatedAt(tried) <=> yes)
  BY <1>1, AnswerRelated DEF Answered
<1>6. IF yes THEN example' = {pairs(asked)[tried]} /\ turn' = "done"
      ELSE turn' = "pick" /\ example' = example
  BY DEF Answered
<1> HIDE DEF yes
<1>7. CASE yes
  BY <1>1, <1>3, <1>4, <1>5, <1>6, <1>7 DEF AskedInv
<1>8. CASE ~yes
  <2>1. \A i \in 1 .. tried : i = tried \/ i \in 1 .. tried - 1
    BY <1>1, <1>2
  <2>2. asked.kind # "query" => \A i \in 1 .. tried : ~RelatedAt(i)
    BY <1>4, <1>5, <1>8, <2>1
  <2> QED BY <1>1, <1>3, <1>4, <1>6, <1>8, <2>2 DEF AskedInv
<1> QED BY <1>7, <1>8

LEMMA NoneLeftAsked ==
    ASSUME AskedInv, NoneLeft
    PROVE  AskedInv'
<1>1. /\ asked' = asked /\ tried' = tried /\ example' = example /\ turn' = "done" /\ turn = "pick"
      /\ tried = Len(pairs(asked))
  BY DEF NoneLeft
<1>2. \A i : RelatedAt(i)' <=> RelatedAt(i)
  BY <1>1, RelatedUnchanged
<1> QED BY <1>1, <1>2 DEF AskedInv

\* A node that always depends on another has a path of data edges to it.
LEMMA AlwaysReaches ==
    ASSUME NEW g \in SUBSET D!Edge, NEW n \in Node, NEW t \in Node, D!Always(g, n, t)
    PROVE  Reaches(Node, DataEdges(g), t, n)
<1> DEFINE S == {m \in Node : Reaches(Node, DataEdges(g), t, m)}
<1>1. t \in S
  BY ReachesRefl
<1>2. ASSUME NEW m \in Node, D!Leads(g, S, m) PROVE m \in S
  <2>1. \E e \in g : e.kind = "Data" /\ e.target = m /\ e.source \in S
    BY <1>2 DEF D!Leads, D!incoming
  <2>2. PICK e \in g : e.kind = "Data" /\ e.target = m /\ e.source \in S
    BY <2>1
  <2>3. <<e.source, m>> \in DataEdges(g)
    BY <2>2 DEF DataEdges
  <2>4. e.source \in Node /\ Reaches(Node, DataEdges(g), t, e.source)
    BY <2>2
  <2> HIDE DEF S
  <2>5. Reaches(Node, DataEdges(g), t, m)
    BY <2>3, <2>4, ReachesStep
  <2> QED BY <2>5 DEF S
<1>3. n \in S
  <2>1. S \in SUBSET Node
    OBVIOUS
  <2> HIDE DEF S
  <2> QED BY <1>1, <1>2, <2>1 DEF D!Always
<1> QED BY <1>3

\* What the documentation promises of a pair, there is a path for.
LEMMA PromisedRelated ==
    ASSUME asked \in Questions, asked.kind # "query",
           NEW i \in DOMAIN outer(asked), NEW j \in DOMAIN inner(asked),
           Promised(outer(asked)[i], inner(asked)[j])
    PROVE  Related(outer(asked)[i], inner(asked)[j])
<1> DEFINE x == outer(asked)[i]
           y == inner(asked)[j]
<1>1. CASE asked.kind = "any_flows"
  BY <1>1 DEF Promised
<1>2. CASE asked.kind = "any_dependence"
  <2>1. x \in Cluster /\ y \in Cluster
    BY <1>2, QuestionType DEF outer, inner
  <2> HIDE DEF x, y
  <2>2. /\ x.controller = y.controller /\ x.nodes # <<>> /\ y.nodes # <<>>
        /\ D!Always(asked.graph[x.controller], Head(y.nodes), Head(x.nodes))
    BY <1>2 DEF Promised, x, y
  <2>3. /\ asked.graph[x.controller] \in SUBSET D!Edge
        /\ Head(y.nodes) \in Node /\ Head(x.nodes) \in Node
    BY <1>2, <2>1, <2>2, QuestionType DEF Cluster
  <2>4. Reaches(Node, DataEdges(asked.graph[x.controller]), Head(x.nodes), Head(y.nodes))
    BY <2>2, <2>3, AlwaysReaches
  <2> QED BY <1>2, <2>2, <2>4 DEF Related, x, y
<1> QED BY <1>1, <1>2, QuestionType

\* The first pair that is related comes before each that is promised.
LEMMA FirstOfPairs == AskedInv => FirstExample
<1> SUFFICES ASSUME AskedInv, turn = "done", asked.kind # "query" PROVE FirstExample
  BY DEF FirstExample
<1> DEFINE O == outer(asked)
           I == inner(asked)
           indices == (DOMAIN O) \X (DOMAIN I)
           promised == {i \in indices : Promised(O[i[1]], I[i[2]])}
<1>1. /\ asked \in Questions /\ tried \in 0 .. Len(pairs(asked))
      /\ \/ example = {} /\ \A i \in 1 .. Len(pairs(asked)) : ~RelatedAt(i)
         \/ /\ tried # 0 /\ example = {pairs(asked)[tried]} /\ RelatedAt(tried)
            /\ \A i \in 1 .. tried - 1 : ~RelatedAt(i)
  BY DEF AskedInv
<1>2. /\ Len(O) \in Nat /\ Len(I) \in Nat /\ DOMAIN O = 1 .. Len(O) /\ DOMAIN I = 1 .. Len(I)
      /\ Len(pairs(asked)) \in Nat
  BY <1>1, QuestionPairs
<1>3. /\ \A i \in 1 .. Len(pairs(asked)) :
            /\ row(asked, i) \in 1 .. Len(O) /\ col(asked, i) \in 1 .. Len(I)
            /\ pairs(asked)[i] = <<O[row(asked, i)], I[col(asked, i)]>>
            /\ place(asked, row(asked, i), col(asked, i)) = i
      /\ \A x \in 1 .. Len(O), y \in 1 .. Len(I) :
            /\ place(asked, x, y) \in 1 .. Len(pairs(asked))
            /\ row(asked, place(asked, x, y)) = x /\ col(asked, place(asked, x, y)) = y
      /\ \A x, v \in 1 .. Len(O), y, w \in 1 .. Len(I) :
            place(asked, x, y) <= place(asked, v, w) => x < v \/ (x = v /\ y <= w)
  BY <1>2, PairsFacts
<1>4. ASSUME NEW i \in promised
      PROVE  /\ i[1] \in 1 .. Len(O) /\ i[2] \in 1 .. Len(I)
             /\ place(asked, i[1], i[2]) \in 1 .. Len(pairs(asked))
             /\ RelatedAt(place(asked, i[1], i[2]))
  <2>1. i[1] \in DOMAIN O /\ i[2] \in DOMAIN I /\ Promised(O[i[1]], I[i[2]])
    OBVIOUS
  <2>2. Related(O[i[1]], I[i[2]])
    BY <1>1, <2>1, PromisedRelated
  <2> HIDE DEF O, I, promised
  <2> DEFINE k == place(asked, i[1], i[2])
  <2>3. i[1] \in 1 .. Len(O) /\ i[2] \in 1 .. Len(I)
    BY <1>2, <2>1
  <2>4. k \in 1 .. Len(pairs(asked)) /\ row(asked, k) = i[1] /\ col(asked, k) = i[2]
    BY <1>3, <2>3
  <2>5. pairs(asked)[k] = <<O[i[1]], I[i[2]]>>
    BY <1>3, <2>4
  <2> QED BY <2>2, <2>3, <2>4, <2>5 DEF RelatedAt
<1> HIDE DEF O, I
<1>5. CASE example = {} /\ \A i \in 1 .. Len(pairs(asked)) : ~RelatedAt(i)
  <2> HIDE DEF promised
  <2>1. promised = {}
    BY <1>4, <1>5
  <2> QED BY <1>5, <2>1 DEF FirstExample, promised, indices, O, I
<1>6. CASE /\ tried # 0 /\ example = {pairs(asked)[tried]} /\ RelatedAt(tried)
           /\ \A i \in 1 .. tried - 1 : ~RelatedAt(i)
  <2> DEFINE x == row(asked, tried)
             y == col(asked, tried)
             e == <<x, y>>
  <2>1. /\ tried \in 1 .. Len(pairs(asked)) /\ x \in 1 .. Len(O) /\ y \in 1 .. Len(I)
        /\ pairs(asked)[tried] = <<O[x], I[y]>> /\ place(asked, x, y) = tried
    BY <1>1, <1>2, <1>3, <1>6
  <2> HIDE DEF x, y
  <2>2. e \in indices /\ e[1] = x /\ e[2] = y
    BY <1>2, <2>1
  <2> HIDE DEF e, indices
  <2>3. example = {<<O[e[1]], I[e[2]]>>} /\ Related(O[e[1]], I[e[2]])
    BY <1>6, <2>1, <2>2 DEF RelatedAt
  <2>4. ASSUME NEW j \in promised PROVE e[1] < j[1] \/ (e[1] = j[1] /\ e[2] <= j[2])
    <3> HIDE DEF promised
    <3> DEFINE k == place(asked, j[1], j[2])
    <3>1. k \in 1 .. Len(pairs(asked)) /\ RelatedAt(k)
      BY <1>4
    <3> HIDE DEF k
    <3>2. k \notin 1 .. tried - 1
      BY <1>6, <3>1
    <3>3. tried <= k
      BY <1>1, <1>2, <3>1, <3>2
    <3>4. place(asked, x, y) <= place(asked, j[1], j[2])
      BY <2>1, <3>3 DEF k
    <3> QED BY <1>3, <1>4, <2>1, <2>2, <3>4
  <2> HIDE DEF promised
  <2> QED BY <2>2, <2>3, <2>4 DEF FirstExample, promised, indices, O, I
<1> QED BY <1>1, <1>5, <1>6

-----------------------------------------------------------------------------
(***************************************************************************)
(* The invariant of what a policy asks.                                    *)
(***************************************************************************)
LEMMA InitPolicy == Init => PolicyInv
<1> SUFFICES ASSUME Init PROVE PolicyInv
  OBVIOUS
<1>1. /\ NothingAsked /\ D!NothingAsked /\ asked \in Questions /\ tried = 0 /\ turn = "pick"
      /\ example = {}
  BY DEF Init
<1>2. QueryType /\ Phases
  BY <1>1, InitQuery
<1>3. query.kind = "none" /\ phase = "done" /\ answer = "none"
  BY <1>1 DEF NothingAsked, NoQuery
<1>4. FlowsInv
  BY <1>3 DEF FlowsInv, SearchInv, CollectInv, CollectedInv, OutEmpty, FlowsExact, Is
<1>5. RootsInv
  BY <1>3 DEF RootsInv, TopoInv, TopoAsk, RootsExact, Is
<1>6. ShortestInv
  BY <1>3 DEF ShortestInv, PathInv, FoundInv, PathAsk, ShortestPathRight, Is
<1>7. DependsInv
  BY <1>1 DEF DependsInv, D!NothingAsked, Frames
<1>8. AskedInv
  <2>1. Len(pairs(asked)) \in Nat
    BY <1>1, QuestionPairs
  <2>2. 0 \in 0 .. Len(pairs(asked)) /\ \A i \in 1 .. 0 : FALSE
    BY <2>1
  <2> QED BY <1>1, <2>2 DEF AskedInv
<1> QED BY <1>2, <1>4, <1>5, <1>6, <1>7, <1>8 DEF PolicyInv

LEMMA PolicyStep == PolicyInv /\ [Next]_vars => PolicyInv'
<1> SUFFICES ASSUME PolicyInv, [Next]_vars PROVE PolicyInv'
  OBVIOUS
<1>1. /\ QueryType /\ Phases /\ FlowsInv /\ RootsInv /\ ShortestInv /\ DependsInv /\ AskedInv
      /\ asked \in Questions /\ tried \in 0 .. Len(pairs(asked))
  BY DEF PolicyInv, AskedInv
<1>2. Pick \/ Search \/ Answered \/ NoneLeft \/ UNCHANGED vars
  BY DEF Next
<1>3. /\ QStep
      /\ D!SearchStep \/ UNCHANGED depends_vars \/ \E g \in SUBSET D!Edge, s, t \in Node : D!Ask(g, s, t)
  BY <1>1, <1>2, PickSteps, OtherSteps
<1>4. QueryType' /\ Phases' /\ FlowsInv' /\ RootsInv' /\ ShortestInv'
  BY <1>1, <1>3, QueryTypeStep, FlowsStep, RootsStep, ShortestStep
<1>5. DependsInv'
  BY <1>1, <1>3, DependsStep
<1>6. AskedInv'
  BY <1>1, <1>2, PickAsked, SearchAsked, AnsweredAsked, NoneLeftAsked
<1> QED BY <1>4, <1>5, <1>6 DEF PolicyInv

(***************************************************************************)
(* In every state of every question a policy asks, the traversal under way *)
(* has found what it should have by then, and no pair tried before was     *)
(* related.                                                                *)
(***************************************************************************)
THEOREM PolicyInvariance == Spec => []PolicyInv
  BY InitPolicy, PolicyStep, PTL DEF Spec

(***************************************************************************)
(* The traversals keep their types: a query in each phase is one that has  *)
(* this phase, and what it collects are nodes of its graph.                *)
(***************************************************************************)
THEOREM QueriesTyped == Spec => [](QueryType /\ Phases)
<1>1. PolicyInv => QueryType /\ Phases
  BY DEF PolicyInv
<1> QED BY <1>1, PolicyInvariance, PTL

\* What is answered exactly is what the documentation says, but for a node and itself.
LEMMA ExactFlows == FlowsExact => FlowsRight
<1> SUFFICES ASSUME FlowsExact PROVE FlowsRight
  OBVIOUS
<1> DEFINE flow == /\ query.same_controller
                   /\ \E a \in query.from, b \in query.to : a # b /\ Flows(a, b)
<1>1. ASSUME Is("flows_to")
      PROVE  /\ flow => answer = "yes"
             /\ answer = "yes" =>
                   flow \/ (query.same_controller /\ query.from \cap query.to # {})
  BY <1>1 DEF FlowsExact
<1>2. ASSUME Is("influencers") \/ Is("influencees")
      PROVE  \A i, j \in DOMAIN out : out[i] = out[j] =>
                 i = j \/ (is_indexed(query.sel) /\ Cardinality(query.from) > 1)
  BY <1>2 DEF FlowsExact
<1>3. ASSUME Is("influencers")
      PROVE  ToSet(out) \ query.from = {n \in Node \ query.from : \E b \in query.from : Flows(n, b)}
  <2>1. ToSet(out) = {n \in Node : \E b \in query.from : Flows(n, b)}
    BY <1>3 DEF FlowsExact
  <2> QED BY <2>1
<1>4. ASSUME Is("influencees")
      PROVE  ToSet(out) \ query.from = {n \in Node \ query.from : \E a \in query.from : Flows(a, n)}
  <2>1. ToSet(out) = {n \in Node : \E a \in query.from : Flows(a, n)}
    BY <1>4 DEF FlowsExact
  <2> QED BY <2>1
<1>5. ASSUME Is("has_ctrl_influence"), query.from # {}
      PROVE  /\ CtrlInfluenceMeaning => answer = "yes"
             /\ answer = "yes" =>
                   \/ CtrlInfluenceMeaning
                   \/ /\ query.same_controller
                      /\ \E a \in query.from, b \in query.to : Means("Data", a, b)
  <2>1. answer = "yes" <=> CtrlReached
    BY <1>5 DEF FlowsExact
  <2>2. CtrlInfluenceMeaning => CtrlReached
    BY DEF CtrlInfluenceMeaning, CtrlReached
  <2>3. CtrlReached =>
           \/ CtrlInfluenceMeaning
           \/ /\ query.same_controller
              /\ \E a \in query.from, b \in query.to : Means("Data", a, b)
    BY DEF CtrlInfluenceMeaning, CtrlReached
  <2> QED BY <2>1, <2>2, <2>3
<1> QED BY <1>1, <1>2, <1>3, <1>4, <1>5 DEF FlowsRight

\* The roots yielded are as the documentation says, but for what it leaves open.
LEMMA ExactRoots == RootsExact => RootsRight
<1> SUFFICES ASSUME RootsExact, Is("roots") PROVE RootsRight
  BY DEF RootsRight
<1>1. ToSet(out) = {n \in query.sources :
                       \A m \in Node : Flows(m, n) =>
                           ~OnCycle(m) /\ (m \in query.sources => m = n)}
  BY DEF RootsExact
<1>2. ASSUME NEW n \in query.sources, ~OnCycle(n), \A m \in Node : Flows(m, n) => m = n
      PROVE  n \in ToSet(out)
  <2>1. \A m \in Node : Flows(m, n) => ~OnCycle(m)
    BY <1>2
  <2> QED BY <1>1, <1>2, <2>1
<1>3. \A n \in ToSet(out) : \A m \in Node :
         Flows(m, n) => ~OnCycle(m) /\ (m \in query.sources => m = n)
  BY <1>1
<1> QED BY <1>2, <1>3 DEF RootsRight

(***************************************************************************)
(* flows_to, influencers, influencees and has_ctrl_influence answer what   *)
(* they are asked, on every finite graph, with the index and by search.    *)
(***************************************************************************)
THEOREM FlowsFollowed == Spec => []FlowsRight
<1>1. PolicyInv => FlowsRight
  BY ExactFlows DEF PolicyInv, FlowsInv
<1> QED BY <1>1, PolicyInvariance, PTL

(***************************************************************************)
(* shortest_path returns a path of the graph, none shorter exists, and it  *)
(* returns one whenever the target is reached.                             *)
(***************************************************************************)
THEOREM PathsShortest == Spec => []ShortestPathRight
<1>1. PolicyInv => ShortestPathRight
  BY DEF PolicyInv, ShortestInv
<1> QED BY <1>1, PolicyInvariance, PTL

(***************************************************************************)
(* What roots returns are the nodes RootsRight says, whatever the order    *)
(* Topo takes them in.                                                     *)
(***************************************************************************)
THEOREM RootsFound == Spec => []RootsRight
<1>1. PolicyInv => RootsRight
  BY ExactRoots DEF PolicyInv, RootsInv
<1> QED BY <1>1, PolicyInvariance, PTL

(***************************************************************************)
(* always_depends never searches a node inside its own search: the         *)
(* recursion of dfs_helper ends on cyclic graphs of any size.              *)
(***************************************************************************)
THEOREM RecursionBounded == Spec => []NoNodeTwice
<1>1. PolicyInv => NoNodeTwice
  BY DEF PolicyInv, DependsInv, Frames, NoNodeTwice, D!NoNodeTwice
<1> QED BY <1>1, PolicyInvariance, PTL

(***************************************************************************)
(* any_flows and any_dependence pass over no pair they promise and return  *)
(* no pair without a path, for any number of controllers, nodes and pairs. *)
(***************************************************************************)
THEOREM FirstExampleFound == Spec => []FirstExample
<1>1. PolicyInv => FirstExample
  BY FirstOfPairs DEF PolicyInv
<1> QED BY <1>1, PolicyInvariance, PTL

-----------------------------------------------------------------------------
(***************************************************************************)
(* The Context as a whole: the index first, then what is asked.            *)
(***************************************************************************)
\* Nothing was asked while build was under way.
BuiltFirst == turn = "search" => pc = "done"

\* The index was built of a graph that the question is about.
IndexOfGraph == use_flows_to_index(asked) => spdg \in graphs(asked)

ContextInv == BuildInv /\ PolicyInv /\ BuiltFirst /\ IndexOfGraph

\* The index of no graph is that of the graph without edges.
LEMMA NothingBuiltInv == NothingBuilt => BuildInv
<1> SUFFICES ASSUME NothingBuilt PROVE BuildInv
  OBVIOUS
<1> USE NAssumption
<1>1. /\ spdg = [k \in EdgeKind |-> {}] /\ data_flows_to = seeded(spdg)
      /\ changed = FALSE /\ src_idx = N /\ bits = {} /\ pc = "done"
  BY DEF NothingBuilt
<1>2. Data = {}
  BY <1>1 DEF Data, filter_graph, EdgeKind
<1>3. \A n \in Row : data_flows_to[n] = {n}
  BY <1>1, <1>2 DEF seeded, Successors, Data
<1>4. BuildTypeOK
  <2>1. spdg \in SPDGsOver(Row)
    BY <1>1 DEF SPDGsOver
  <2>2. data_flows_to \in [Row -> SUBSET Row]
    BY <1>1 DEF seeded, Successors
  <2>3. src_idx \in 0 .. N
    BY <1>1
  <2> QED BY <1>1, <2>1, <2>2, <2>3 DEF BuildTypeOK
<1>5. BitsInRow
  BY <1>1 DEF BitsInRow
<1>6. IndexSound
  <2> SUFFICES ASSUME NEW a \in Row, NEW b \in data_flows_to[a] PROVE Reaches(Row, Data, a, b)
    BY DEF IndexSound
  <2>1. b = a
    BY <1>3
  <2> QED BY <2>1 DEF Reaches, ClosedUnder
<1>7. SeedKept
  BY <1>1 DEF SeedKept
<1>8. QuietPass
  BY <1>1 DEF QuietPass
<1>9. DoneClosed
  BY <1>3 DEF DoneClosed, RowClosed
<1> QED BY <1>4, <1>5, <1>6, <1>7, <1>8, <1>9 DEF BuildInv

LEMMA ContextStep == ContextInv /\ [ContextNext]_context_vars => ContextInv'
<1> SUFFICES ASSUME ContextInv, [ContextNext]_context_vars PROVE ContextInv'
  OBVIOUS
<1>0. BuildInv /\ PolicyInv /\ BuiltFirst /\ IndexOfGraph
  BY DEF ContextInv
<1>1. [BuildNext]_build_vars /\ [Next]_vars
  BY DEF ContextNext, context_vars
<1>2. BuildInv' /\ PolicyInv'
  BY <1>0, <1>1, BuildStep, PolicyStep
<1>3. asked' = asked /\ spdg' = spdg
  <2>1. asked' = asked
    BY <1>1 DEF Next, Pick, Search, Answered, NoneLeft, vars, asked_vars
  <2>2. spdg' = spdg
    BY <1>1 DEF BuildNext, Visit, NextRow, EndPass, build_vars
  <2> QED BY <2>1, <2>2
<1>4. IndexOfGraph'
  BY <1>0, <1>3 DEF IndexOfGraph, use_flows_to_index, graphs
<1>5. BuiltFirst'
  <2>1. CASE BuildNext /\ UNCHANGED vars
    <3>1. pc = "pass" /\ turn' = turn
      BY <2>1 DEF BuildNext, Visit, NextRow, EndPass, vars, asked_vars
    <3> QED BY <1>0, <3>1 DEF BuiltFirst
  <2>2. CASE pc = "done" /\ Next /\ UNCHANGED build_vars
    BY <2>2 DEF BuiltFirst, build_vars
  <2>3. CASE UNCHANGED context_vars
    BY <1>0, <2>3 DEF BuiltFirst, context_vars, build_vars, vars, asked_vars
  <2> QED BY <2>1, <2>2, <2>3 DEF ContextNext
<1> QED BY <1>2, <1>4, <1>5 DEF ContextInv

LEMMA ContextInitInv == ContextInit => ContextInv
<1> SUFFICES ASSUME ContextInit PROVE ContextInv
  OBVIOUS
<1>1. PolicyInv
  BY InitPolicy DEF ContextInit
<1>2. BuiltFirst
  BY DEF ContextInit, Init, BuiltFirst
<1>3. BuildInv /\ IndexOfGraph
  BY BuildInitInv, NothingBuiltInv DEF ContextInit, IndexOfGraph
<1> QED BY <1>1, <1>2, <1>3 DEF ContextInv

THEOREM ContextInvariance == ContextSpec => []ContextInv
  BY ContextInitInv, ContextStep, PTL DEF ContextSpec

(***************************************************************************)
(* What a query reads in the index is there: when new has built it of the  *)
(* query's graph, and before anything is asked, a row holds exactly the    *)
(* nodes that the row's node flows to by data edges (index of              *)
(* GraphQueries).                                                          *)
(***************************************************************************)
IndexServed ==
    use_flows_to_index(asked) /\ turn = "search" =>
        /\ pc = "done" /\ spdg \in graphs(asked)
        /\ query.spdg = spdg => \A n \in Node : data_flows_to[n] = index(n)

\* Every search finds the index of its graph complete and exact.
THEOREM IndexAnswers == ContextSpec => []IndexServed
<1>1. ContextInv => IndexServed
  <2> SUFFICES ASSUME ContextInv, use_flows_to_index(asked), turn = "search"
               PROVE  /\ pc = "done" /\ spdg \in graphs(asked)
                      /\ query.spdg = spdg => \A n \in Node : data_flows_to[n] = index(n)
    BY DEF IndexServed
  <2>1. pc = "done" /\ spdg \in graphs(asked)
    BY DEF ContextInv, BuiltFirst, IndexOfGraph
  <2>2. ASSUME query.spdg = spdg, NEW n \in Node PROVE data_flows_to[n] = index(n)
    <3>1. BuildTypeOK /\ IndexSound /\ IndexComplete
      BY BuildInvComplete DEF ContextInv, BuildInv
    <3>2. data_flows_to[n] \in SUBSET Node
      BY <3>1, NodeAssumption DEF BuildTypeOK
    <3>3. \A m \in Node : m \in data_flows_to[n] <=> Reaches(Node, Data, n, m)
      BY <2>1, <3>1, <3>2, NodeAssumption DEF IndexSound, IndexComplete
    <3>4. Data = filter_graph(query.spdg, "Data")
      BY <2>2 DEF Data
    <3> QED BY <3>2, <3>3, <3>4 DEF index
  <2> QED BY <2>1, <2>2
<1> QED BY <1>1, ContextInvariance, PTL

(***************************************************************************)
(* All of this of one Context, index and answers together.                 *)
(***************************************************************************)
THEOREM ContextRight ==
    ContextSpec => []( /\ IndexSound /\ IndexComplete
                       /\ FlowsRight /\ RootsRight /\ ShortestPathRight
                       /\ NoNodeTwice /\ FirstExample )
<1>1. ContextInv => /\ IndexSound /\ IndexComplete
                    /\ FlowsRight /\ RootsRight /\ ShortestPathRight
                    /\ NoNodeTwice /\ FirstExample
  <2> SUFFICES ASSUME ContextInv
               PROVE  /\ IndexSound /\ IndexComplete
                      /\ FlowsRight /\ RootsRight /\ ShortestPathRight
                      /\ NoNodeTwice /\ FirstExample
    OBVIOUS
  <2>1. IndexSound /\ IndexComplete
    BY BuildInvComplete DEF ContextInv, BuildInv
  <2>2. FlowsRight /\ RootsRight /\ ShortestPathRight
    BY ExactFlows, ExactRoots DEF ContextInv, PolicyInv, FlowsInv, RootsInv, ShortestInv
  <2>3. NoNodeTwice /\ FirstExample
    BY FirstOfPairs DEF ContextInv, PolicyInv, DependsInv, Frames, NoNodeTwice, D!NoNodeTwice
  <2> QED BY <2>1, <2>2, <2>3
<1> QED BY <1>1, ContextInvariance, PTL
=============================================================================
