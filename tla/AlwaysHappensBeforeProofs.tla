---------------------- MODULE AlwaysHappensBeforeProofs ----------------------
(***************************************************************************)
(* What always_happens_before guarantees for all graphs, starting points,  *)
(* checkpoints and terminals, in whatever order the search takes them.     *)
(*                                                                         *)
(* The argument: in the controller being searched, an edge from a node     *)
(* that was discovered and is no stop leads to a discovered node, unless   *)
(* the node is on the stack and its loop has yet to yield that edge        *)
(* (NeighborsLeft).  With the stack empty and no starting point left, the  *)
(* discovered nodes are closed, hence hold all that is reached; they hold  *)
(* nothing else.  A node is discovered once, so each stop is counted once, *)
(* and its entry in the tree is written at that time or never: the tree    *)
(* cannot lead into another search, nor into a cycle (Rooted).             *)
(***************************************************************************)
EXTENDS AlwaysHappensBefore, SequenceTheorems, WellFoundedInduction, TLAPS, FiniteSetTheorems

-----------------------------------------------------------------------------
\* The empty path leads from a node to itself.
LEMMA ReachesRefl ==
    ASSUME NEW V, NEW R, NEW a \in V
    PROVE  Reaches(V, R, a, a)
  BY DEF Reaches

\* An edge is a path.
LEMMA ReachesEdge ==
    ASSUME NEW V, NEW R, NEW a \in V, NEW b \in V, <<a, b>> \in R
    PROVE  Reaches(V, R, a, b)
  BY DEF Reaches, ClosedUnder

\* A path may be followed by a path.
LEMMA ReachesTrans ==
    ASSUME NEW V, NEW R, NEW a \in V, NEW b \in V, NEW c \in V,
           Reaches(V, R, a, b), Reaches(V, R, b, c)
    PROVE  Reaches(V, R, a, c)
  BY DEF Reaches

(***************************************************************************)
(* A closed set of nodes that holds a holds everything a reaches.          *)
(***************************************************************************)
LEMMA ClosedHoldsReached ==
    ASSUME NEW V, NEW R, NEW T \in SUBSET V, NEW a \in T, NEW b,
           ClosedUnder(V, R, T), Reaches(V, R, a, b)
    PROVE  b \in T
  BY DEF Reaches

\* The numbers 1 .. n without the last.
LEMMA Predecessor ==
    ASSUME NEW n \in Nat, n # 0
    PROVE  /\ n - 1 \in Nat /\ n - 1 \in Int
           /\ n # 1 => n - 1 \in 1 .. n - 1
           /\ (IF 1 <= n - 1 THEN (n - 1) - 1 + 1 ELSE 0) = n - 1
           /\ \A i \in 1 .. n - 1 : i \in 1 .. (n - 1) - 1 + 1 /\ 1 + i - 1 = i /\ i \in 1 .. n
  OBVIOUS

\* A stack with one more level.
LEMMA Pushed ==
    ASSUME NEW S, NEW s \in Seq(S), NEW x \in S
    PROVE  LET t == Append(s, x)
           IN  /\ t \in Seq(S) /\ Len(t) = Len(s) + 1 /\ Len(t) \in DOMAIN t
               /\ t[Len(t)] = x
               /\ \A i \in DOMAIN s : i \in DOMAIN t /\ t[i] = s[i]
               /\ \A i \in DOMAIN t : i \in DOMAIN s \/ t[i] = x
  OBVIOUS

\* A stack without its last level.
LEMMA Popped ==
    ASSUME NEW S, NEW s \in Seq(S), s # <<>>
    PROVE  LET t == SubSeq(s, 1, Len(s) - 1)
           IN  /\ t \in Seq(S) /\ Len(t) = Len(s) - 1
               /\ \A i \in 1 .. Len(s) - 1 : t[i] = s[i]
<1>1. Len(s) \in Nat /\ Len(s) # 0
  OBVIOUS
<1>2. \A i \in 1 .. Len(s) - 1 : s[i] \in S
  BY <1>1, Predecessor
<1>3. 1 \in Int /\ Len(s) - 1 \in Int
  BY <1>1, Predecessor
<1>4. /\ SubSeq(s, 1, Len(s) - 1) \in Seq(S)
      /\ Len(SubSeq(s, 1, Len(s) - 1)) =
            IF 1 <= Len(s) - 1 THEN (Len(s) - 1) - 1 + 1 ELSE 0
      /\ \A i \in 1 .. (Len(s) - 1) - 1 + 1 : SubSeq(s, 1, Len(s) - 1)[i] = s[1 + i - 1]
  BY ONLY <1>2, <1>3, SubSeqProperties
<1> QED BY <1>1, <1>4, Predecessor

\* A set of numbers that holds 0, and with a number the next one, holds all.
LEMMA Induction ==
    ASSUME NEW S, 0 \in S, \A k \in Nat : k \in S => k + 1 \in S
    PROVE  Nat \subseteq S
<1> SUFFICES ASSUME Nat \ S # {} PROVE FALSE
  OBVIOUS
<1>1. IsWellFoundedOn(OpToRel(<, Nat), Nat)
  BY NatLessThanWellFounded
<1>2. PICK k \in Nat \ S : \A y \in Nat \ S : <<y, k>> \notin OpToRel(<, Nat)
  BY <1>1, WFMin
<1>3. k # 0 /\ k - 1 \in Nat
  OBVIOUS
<1>4. k - 1 \in S
  <2>1. <<k - 1, k>> \in OpToRel(<, Nat)
    BY <1>3 DEF OpToRel
  <2> QED BY <1>2, <1>3, <2>1
<1> QED BY <1>3, <1>4, (k - 1) + 1 = k

\* The function that iterates g from a exists, and has its values in S.
LEMMA IteratesExist ==
    ASSUME NEW S, NEW a \in S, NEW g \in [S -> S]
    PROVE  \E f \in [Nat -> S] : f[0] = a /\ \A k \in Nat : f[k + 1] = g[f[k]]
<1> DEFINE Upto(h, k) == /\ h \in [0 .. k -> S]
                         /\ h[0] = a
                         /\ \A i \in 0 .. k : i < k => h[i + 1] = g[h[i]]
           Some == {k \in Nat : \E h : Upto(h, k)}
           f == [k \in Nat |-> (CHOOSE x : Upto(x, k))[k]]
<1>1. 0 \in Some
  <2>1. Upto([i \in 0 .. 0 |-> a], 0)
    OBVIOUS
  <2> QED BY <2>1
<1>2. ASSUME NEW k \in Nat, k \in Some PROVE k + 1 \in Some
  <2>1. PICK h : Upto(h, k)
    BY <1>2
  <2> DEFINE h1 == [i \in 0 .. k + 1 |-> IF i = k + 1 THEN g[h[k]] ELSE h[i]]
  <2>2. k \in 0 .. k /\ 0 \in 0 .. k + 1 /\ 0 # k + 1 /\ k + 1 \in Nat
    OBVIOUS
  <2>3. \A i \in 0 .. k + 1 : i # k + 1 => i \in 0 .. k
    OBVIOUS
  <2>4. h1 \in [0 .. k + 1 -> S]
    BY <2>1, <2>2, <2>3
  <2>5. h1[0] = a
    BY <2>1, <2>2
  <2>6. ASSUME NEW i \in 0 .. k + 1, i < k + 1 PROVE h1[i + 1] = g[h1[i]]
    <3>1. i \in 0 .. k /\ i + 1 \in 0 .. k + 1 /\ (i = k \/ i < k) /\ i # k + 1
      BY <2>6
    <3>2. CASE i = k
      BY <3>1, <3>2
    <3>3. CASE i < k
      <4>1. i + 1 # k + 1
        BY <3>3
      <4> QED BY <2>1, <3>1, <3>3, <4>1
    <3> QED BY <3>1, <3>2, <3>3
  <2>7. Upto(h1, k + 1)
    BY <2>4, <2>5, <2>6
  <2> HIDE DEF h1, Upto
  <2> QED BY <2>2, <2>7
<1>3. Nat \subseteq Some
  <2> HIDE DEF Some
  <2> QED BY <1>1, <1>2, Induction
<1>4. ASSUME NEW k \in Nat PROVE Upto(CHOOSE x : Upto(x, k), k)
  <2> HIDE DEF Upto
  <2> QED BY <1>3
\* Two of them agree as far as both go.
<1>5. ASSUME NEW k \in Nat, NEW h, NEW l, Upto(h, k), Upto(l, k + 1) PROVE h[k] = l[k]
  <2> DEFINE T == {i \in Nat : i <= k => h[i] = l[i]}
  <2>1. 0 \in T
    BY <1>5
  <2>2. ASSUME NEW i \in Nat, i \in T PROVE i + 1 \in T
    <3> SUFFICES ASSUME i + 1 <= k PROVE h[i + 1] = l[i + 1]
      OBVIOUS
    <3>1. i \in 0 .. k /\ i < k /\ i \in 0 .. k + 1 /\ i < k + 1 /\ i <= k
      OBVIOUS
    <3>2. h[i] = l[i]
      BY <2>2, <3>1
    <3> QED BY <1>5, <3>1, <3>2
  <2>3. Nat \subseteq T
    <3> HIDE DEF T
    <3> QED BY <2>1, <2>2, Induction
  <2> QED BY <2>3
<1>6. f \in [Nat -> S] /\ f[0] = a
  <2>1. ASSUME NEW k \in Nat PROVE (CHOOSE x : Upto(x, k))[k] \in S
    <3> DEFINE h == CHOOSE x : Upto(x, k)
    <3>1. Upto(h, k)
      BY <1>4
    <3> HIDE DEF h
    <3>2. h[k] \in S
      BY <3>1
    <3> QED BY <3>2 DEF h
  <2>2. (CHOOSE x : Upto(x, 0))[0] = a
    <3> DEFINE h == CHOOSE x : Upto(x, 0)
    <3>1. Upto(h, 0)
      BY <1>4
    <3> HIDE DEF h
    <3>2. h[0] = a
      BY <3>1
    <3> QED BY <3>2 DEF h
  <2> HIDE DEF Upto
  <2> QED BY <2>1, <2>2
<1>7. ASSUME NEW k \in Nat PROVE f[k + 1] = g[f[k]]
  <2> DEFINE h == CHOOSE x : Upto(x, k)
             l == CHOOSE x : Upto(x, k + 1)
  <2>1. Upto(h, k) /\ Upto(l, k + 1) /\ k + 1 \in Nat
    <3> HIDE DEF Upto
    <3> QED BY <1>4
  <2>2. h[k] = l[k]
    <3> HIDE DEF h, l, Upto
    <3> QED BY <1>5, <2>1
  <2>3. l[k + 1] = g[l[k]]
    <3> HIDE DEF h, l
    <3> QED BY <2>1
  <2>4. f[k + 1] = l[k + 1] /\ f[k] = h[k]
    BY <2>1
  <2> HIDE DEF h, l, f
  <2> QED BY <2>2, <2>3, <2>4
<1> HIDE DEF f
<1> QED BY <1>6, <1>7

-----------------------------------------------------------------------------
(***************************************************************************)
(* The parts of the inductive invariant.                                   *)
(***************************************************************************)
TypeOK ==
    /\ query \in Queries
    /\ start_map \in SUBSET Controller
    /\ ctrl_id \in Controller
    /\ starts \in SUBSET Node
    /\ stack \in Seq(Node)
    /\ neighbors \in [Node -> SUBSET Node]
    /\ discovered \in SUBSET Node
    /\ tree \in [Node -> Node \cup {NodeEnd}]
    /\ query.level = "None" => reached \in Nat
    /\ checkpointed \in SUBSET GlobalNode
    /\ pc \in {"search", "done"}

\* The nodes behind which the search does not go on, and the data edges.
Stops == query.checkpoint \cup query.terminal
Stop(n) == <<ctrl_id, n>> \in Stops
Edges(c) == filter_graph(query.spdg[c], "Data")

\* What a search of controller c is to discover, and what it starts from.
Reached(c) == ReachedUpTo(query, Stops, c)
Origins == local(query.starts, ctrl_id)

\* The searches come one after the other.
Phases ==
    /\ ctrl_id \in start_map => starts = {} /\ stack = <<>> /\ discovered = {}
    /\ pc = "done" => start_map = {} /\ starts = {} /\ stack = <<>>

\* A starting point was taken or is still to be taken.
StartsTaken ==
    /\ starts \subseteq Origins
    /\ ctrl_id \notin start_map => Origins \subseteq starts \cup discovered

OnStack(n) == \E i \in DOMAIN stack : stack[i] = n

\* The nodes of the stack were discovered, are no stops, and yield successors.
StackRight ==
    \A i \in DOMAIN stack :
        /\ stack[i] \in discovered /\ ~Stop(stack[i])
        /\ neighbors[stack[i]] \subseteq Successors(Node, Edges(ctrl_id), stack[i])

DiscoveredReached == discovered \subseteq Reached(ctrl_id)

NeighborsLeft ==
    \A n \in discovered : ~Stop(n) =>
        \A m \in Successors(Node, Edges(ctrl_id), n) :
            m \in discovered \/ (OnStack(n) /\ m \in neighbors[n])

SearchInv ==
    TypeOK /\ Phases /\ StartsTaken /\ StackRight /\ DiscoveredReached /\ NeighborsLeft

\* What was discovered in controller c by the search of it, present or past.
Seen(c) ==
    IF c = ctrl_id THEN discovered ELSE IF c \in start_map THEN {} ELSE Reached(c)

SeenIn(G) == {g \in G : g[2] \in Seen(g[1])}

\* The terminals met: one trace for each.
Ends == SeenIn(query.terminal \ query.checkpoint)

CountInv ==
    /\ checkpointed = SeenIn(query.checkpoint)
    /\ query.level = "None" => reached = Cardinality(Ends)
    /\ query.level # "None" =>
          /\ \A p \in reached : p[1] \in Ends
          /\ \A g \in Ends : \E p \in reached : p[1] = g
          /\ \A p, q \in reached : p[1] = q[1] => p = q

\* A starting point is its own origin unless it was discovered from a node.
OwnOrigin ==
    ctrl_id \notin start_map => \A s \in Origins \ discovered : tree[s] = s

\* Level StartAndEnd: the tree holds where the search of a node began.
EndTree ==
    query.level = "StartAndEnd" => \A n \in discovered :
        /\ tree[n] \in Origins
        /\ Reaches(Node, DataUpTo(query, query.checkpoint, ctrl_id), tree[n], n)

\* t leads from each node of D over edges of the search to a starting point.
TreeOf(t, D) ==
    \A n \in D :
        \/ t[n] = n /\ n \in Origins
        \/ /\ t[n] \in D /\ t[n] # n /\ ~Stop(t[n])
           /\ <<t[n], n>> \in Edges(ctrl_id)

\* Nobody is among their own predecessors in t but the starting points.
Rooted(t, D) ==
    \A T \in SUBSET D : T # {} => \E n \in T : t[n] = n \/ t[n] \notin T

FullTree ==
    query.level = "Full" => TreeOf(tree, discovered) /\ Rooted(tree, discovered)

TracesTyped ==
    /\ query.level = "StartAndEnd" => reached \in SUBSET (GlobalNode \X GlobalNode)
    /\ query.level = "Full" => reached \in SUBSET Path

TraceInv == OwnOrigin /\ EndTree /\ FullTree /\ TracesTyped

IInv == SearchInv /\ CountInv /\ TraceInv /\ TracesReal

-----------------------------------------------------------------------------
(***************************************************************************)
(* What is reached.                                                        *)
(***************************************************************************)
\* The constants as the proofs need them.
LEMMA QueryFacts ==
    ASSUME query \in Queries
    PROVE  /\ query.starts \in SUBSET GlobalNode
           /\ query.checkpoint \in SUBSET GlobalNode
           /\ query.terminal \in SUBSET GlobalNode
           /\ query.level \in TraceLevel
           /\ \A c \in Controller : Edges(c) \in SUBSET (Node \X Node)
<1>1. query \in Query
  BY QueriesAssumption
<1>2. \A c \in Controller : query.spdg[c] \in [EdgeKind -> SUBSET (Node \X Node)]
  BY <1>1 DEF Query, SPDGsOver
<1> QED BY <1>1, <1>2 DEF Query, Edges, filter_graph, EdgeKind

\* A starting point is reached.
LEMMA OriginReached ==
    ASSUME NEW q, NEW S, NEW c \in Controller, NEW n \in local(q.starts, c)
    PROVE  n \in ReachedUpTo(q, S, c)
<1>1. n \in Node
  BY DEF local
<1> QED BY <1>1, ReachesRefl DEF ReachedUpTo

\* So is the target of an edge from a node that is reached and does not stop.
LEMMA StepReached ==
    ASSUME NEW q, NEW S, NEW c \in Controller, NEW n \in ReachedUpTo(q, S, c),
           <<c, n>> \notin S, NEW m \in Node,
           <<n, m>> \in filter_graph(q.spdg[c], "Data")
    PROVE  m \in ReachedUpTo(q, S, c)
<1> DEFINE R == DataUpTo(q, S, c)
<1>1. n \in Node
  BY DEF ReachedUpTo
<1>2. PICK s \in local(q.starts, c) : Reaches(Node, R, s, n)
  BY DEF ReachedUpTo
<1>3. s \in Node
  BY DEF local
<1>4. <<n, m>> \in R
  BY DEF DataUpTo, CutAfter, local
<1>5. Reaches(Node, R, s, m)
  <2> HIDE DEF R
  <2> QED BY <1>1, <1>2, <1>3, <1>4, ReachesEdge, ReachesTrans
<1> QED BY <1>5 DEF ReachedUpTo

\* Nothing else is: a set closed under these edges holds all that is reached.
LEMMA ReachedWithin ==
    ASSUME NEW q, NEW S, NEW c \in Controller, NEW T \in SUBSET Node,
           local(q.starts, c) \subseteq T,
           \A n \in T, m \in Node :
              <<c, n>> \notin S /\ <<n, m>> \in filter_graph(q.spdg[c], "Data") => m \in T
    PROVE  ReachedUpTo(q, S, c) \subseteq T
<1> SUFFICES ASSUME NEW t \in Node, NEW s \in local(q.starts, c),
                    Reaches(Node, DataUpTo(q, S, c), s, t)
             PROVE  t \in T
  BY DEF ReachedUpTo
<1>1. ClosedUnder(Node, DataUpTo(q, S, c), T)
  BY DEF ClosedUnder, DataUpTo, CutAfter, local
<1> QED BY <1>1, ClosedHoldsReached

\* Stopping at more nodes reaches less, and as much if none of them is reached.
LEMMA MoreStops ==
    ASSUME NEW q, NEW S, NEW T, S \subseteq T, NEW c \in Controller
    PROVE  /\ ReachedUpTo(q, T, c) \subseteq ReachedUpTo(q, S, c)
           /\ ReachedUpTo(q, T, c) \cap local(T \ S, c) = {}
                 => ReachedUpTo(q, S, c) \subseteq ReachedUpTo(q, T, c)
<1>1. ReachedUpTo(q, T, c) \subseteq ReachedUpTo(q, S, c)
  <2> DEFINE U == ReachedUpTo(q, S, c)
  <2>1. U \in SUBSET Node
    BY DEF ReachedUpTo
  <2>2. local(q.starts, c) \subseteq U
    BY OriginReached
  <2>3. \A n \in U, m \in Node :
           <<c, n>> \notin T /\ <<n, m>> \in filter_graph(q.spdg[c], "Data") => m \in U
    BY StepReached
  <2> HIDE DEF U
  <2>4. ReachedUpTo(q, T, c) \subseteq U
    BY <2>1, <2>2, <2>3, ReachedWithin
  <2> QED BY <2>4 DEF U
<1>2. ASSUME ReachedUpTo(q, T, c) \cap local(T \ S, c) = {}
      PROVE  ReachedUpTo(q, S, c) \subseteq ReachedUpTo(q, T, c)
  <2> DEFINE U == ReachedUpTo(q, T, c)
  <2>1. U \in SUBSET Node
    BY DEF ReachedUpTo
  <2>2. local(q.starts, c) \subseteq U
    BY OriginReached
  <2>3. ASSUME NEW n \in U, NEW m \in Node, <<c, n>> \notin S,
               <<n, m>> \in filter_graph(q.spdg[c], "Data")
        PROVE  m \in U
    <3>1. <<c, n>> \notin T
      BY <1>2, <2>1, <2>3 DEF local
    <3> QED BY <2>3, <3>1, StepReached
  <2> HIDE DEF U
  <2>4. ReachedUpTo(q, S, c) \subseteq U
    BY <2>1, <2>2, <2>3, ReachedWithin
  <2> QED BY <2>4 DEF U
<1> QED BY <1>1, <1>2

\* The notions of the query do not change while the query does not.
LEMMA QueryKept ==
    ASSUME query' = query
    PROVE  /\ Stops' = Stops
           /\ \A c \in Controller : Edges(c)' = Edges(c) /\ Reached(c)' = Reached(c)
  BY DEF Stops, Edges, Reached

\* A search that has come to its end has discovered all it is to discover.
LEMMA SearchDone ==
    ASSUME SearchInv, stack = <<>>, starts = {}, ctrl_id \notin start_map
    PROVE  discovered = Reached(ctrl_id)
<1> USE DEF SearchInv
<1>1. ctrl_id \in Controller /\ discovered \in SUBSET Node
  BY DEF TypeOK
<1>2. local(query.starts, ctrl_id) \subseteq discovered
  BY DEF StartsTaken, Origins
<1>3. ASSUME NEW n \in discovered, NEW m \in Node, <<ctrl_id, n>> \notin Stops,
             <<n, m>> \in filter_graph(query.spdg[ctrl_id], "Data")
      PROVE  m \in discovered
  <2>1. m \in Successors(Node, Edges(ctrl_id), n)
    BY <1>3 DEF Edges, Successors
  <2>2. ~OnStack(n)
    BY DEF OnStack
  <2> QED BY <1>3, <2>1, <2>2 DEF NeighborsLeft, Stop
<1>4. ReachedUpTo(query, Stops, ctrl_id) \subseteq discovered
  BY <1>1, <1>2, <1>3, ReachedWithin
<1> QED BY <1>4 DEF DiscoveredReached, Reached

-----------------------------------------------------------------------------
(***************************************************************************)
(* The search: SearchInv is preserved.                                     *)
(***************************************************************************)
\* A node is discovered from a starting point or over an edge; n is that node,
\* and what the active nodes have yet to yield loses at most n.
Discovers(t, n, todo) ==
    /\ n \in Node \ discovered /\ n \in Reached(ctrl_id)
    /\ t \in [Node -> Node \cup {NodeEnd}]
    /\ todo \in [Node -> SUBSET Node]
    /\ \A m \in Node : todo[m] \subseteq neighbors[m] /\ neighbors[m] \subseteq todo[m] \cup {n}
    /\ ctrl_id \notin start_map /\ pc = "search"
    /\ discover(t, n, todo)
    /\ UNCHANGED <<query, start_map, ctrl_id, pc>>

\* The level of tracing that counts only.
LEMMA ReachedTyped ==
    ASSUME TypeOK, NEW t, NEW n, query.level = "None"
    PROVE  terminal(t, n) \in Nat
  BY DEF TypeOK, terminal

LEMMA DiscoverSearch ==
    ASSUME SearchInv, NEW t, NEW n, NEW todo, Discovers(t, n, todo),
           starts' \in SUBSET starts, starts \subseteq starts' \cup {n}
    PROVE  SearchInv'
<1> USE DEF SearchInv, Discovers, discover
<1>1. /\ discovered' = discovered \cup {n} /\ tree' = t
      /\ ctrl_id' = ctrl_id /\ start_map' = start_map /\ query' = query /\ pc' = pc
      /\ n \in Node /\ ctrl_id \in Controller /\ stack \in Seq(Node)
  BY DEF TypeOK
<1>2. Stops' = Stops /\ Edges(ctrl_id)' = Edges(ctrl_id)
      /\ Reached(ctrl_id)' = Reached(ctrl_id) /\ Origins' = Origins
  BY <1>1, QueryKept DEF Edges, Reached, Stops, Origins
<1>3. \A m : Stop(m)' <=> Stop(m)
  BY <1>1, <1>2 DEF Stop
<1>4. ~Stop(n) <=> stop_at(n) = "no"
  BY DEF Stop, Stops, stop_at, is_checkpoint, is_terminal
<1>5. \/ /\ Stop(n) /\ stack' = stack /\ neighbors' = todo
      \/ /\ ~Stop(n) /\ stack' = Append(stack, n)
         /\ neighbors' = [todo EXCEPT ![n] = Successors(Node, Edges(ctrl_id), n)]
  BY <1>4 DEF Edges
<1>6. Successors(Node, Edges(ctrl_id), n) \subseteq Node
  BY DEF Successors
<1>7. TypeOK'
  <2>1. stack' \in Seq(Node) /\ neighbors' \in [Node -> SUBSET Node]
    BY <1>1, <1>5, <1>6
  <2>2. query.level = "None" => reached' \in Nat
    BY ReachedTyped DEF TypeOK
  <2>3. checkpointed' \in SUBSET GlobalNode
    BY <1>1 DEF TypeOK, GlobalNode
  <2> QED BY <1>1, <2>1, <2>2, <2>3 DEF TypeOK
<1>8. Phases'
  BY <1>1 DEF Phases
<1>9. StartsTaken'
  BY <1>1, <1>2 DEF StartsTaken
\* The nodes of the stack before are on it still, with n above them or not.
<1>10. /\ \A i \in DOMAIN stack : i \in DOMAIN stack' /\ stack'[i] = stack[i]
       /\ \A i \in DOMAIN stack' : i \in DOMAIN stack \/ (stack'[i] = n /\ ~Stop(n))
  <2>1. stack' = stack \/ (stack' = Append(stack, n) /\ ~Stop(n))
    BY <1>5
  <2>2. stack \in Seq(Node) /\ n \in Node
    BY <1>1
  <2>3. CASE stack' = Append(stack, n) /\ ~Stop(n)
    BY ONLY <2>2, <2>3, Pushed
  <2> QED BY ONLY <2>1, <2>3
<1>11. /\ \A m \in Node \ {n} : neighbors'[m] = todo[m]
       /\ ~Stop(n) => neighbors'[n] = Successors(Node, Edges(ctrl_id), n)
  BY <1>5, <1>1
<1>12. StackRight'
  <2> SUFFICES ASSUME NEW i \in DOMAIN stack'
               PROVE  /\ stack'[i] \in discovered' /\ ~Stop(stack'[i])
                      /\ neighbors'[stack'[i]]
                            \subseteq Successors(Node, Edges(ctrl_id), stack'[i])
    BY <1>1, <1>2, <1>3 DEF StackRight
  <2>1. CASE i \in DOMAIN stack
    <3>1. stack'[i] = stack[i] /\ stack[i] \in discovered /\ ~Stop(stack[i])
          /\ neighbors[stack[i]] \subseteq Successors(Node, Edges(ctrl_id), stack[i])
      BY <1>10, <2>1 DEF StackRight
    <3>2. stack[i] \in Node \ {n}
      BY <3>1 DEF TypeOK
    <3>3. todo[stack[i]] \subseteq neighbors[stack[i]]
      BY <3>2
    <3> QED BY <1>1, <1>11, <3>1, <3>2, <3>3
  <2>2. CASE stack'[i] = n /\ ~Stop(n)
    BY <1>1, <1>11, <2>2
  <2> QED BY <1>10, <2>1, <2>2
<1>13. DiscoveredReached'
  BY <1>1, <1>2 DEF DiscoveredReached
<1>14. NeighborsLeft'
  <2> SUFFICES ASSUME NEW k \in discovered', ~Stop(k),
                      NEW m \in Successors(Node, Edges(ctrl_id), k)
               PROVE  m \in discovered' \/ (OnStack(k)' /\ m \in neighbors'[k])
    BY <1>1, <1>2, <1>3 DEF NeighborsLeft
  <2>1. CASE k = n
    <3>1. stack' = Append(stack, n)
      BY <1>5, <2>1
    <3>2. Len(stack) + 1 \in DOMAIN stack' /\ stack'[Len(stack) + 1] = n
      BY <1>1, <3>1
    <3>3. OnStack(n)'
      BY <3>2 DEF OnStack
    <3> QED BY <1>11, <2>1, <3>3
  <2>2. CASE k # n
    <3>1. k \in discovered /\ k \in Node \ {n}
      BY <1>1, <2>2 DEF TypeOK
    <3>2. m \in discovered \/ (OnStack(k) /\ m \in neighbors[k])
      BY <3>1 DEF NeighborsLeft
    <3>3. OnStack(k) => OnStack(k)'
      BY <1>10 DEF OnStack
    <3>4. neighbors[k] \subseteq todo[k] \cup {n}
      BY <3>1
    <3> QED BY <1>1, <1>11, <3>1, <3>2, <3>3, <3>4
  <2> QED BY <2>1, <2>2
<1> QED BY <1>7, <1>8, <1>9, <1>12, <1>13, <1>14

LEMMA InitSearch ==
    ASSUME Init
    PROVE  SearchInv
<1> USE DEF Init
<1>1. TypeOK
  BY DEF TypeOK
<1>2. Phases /\ StackRight /\ DiscoveredReached /\ NeighborsLeft
  BY DEF Phases, StackRight, DiscoveredReached, NeighborsLeft
<1>3. StartsTaken
  BY DEF StartsTaken, Origins
<1> QED BY <1>1, <1>2, <1>3 DEF SearchInv

LEMMA NextControllerSearch ==
    ASSUME SearchInv, NEW c \in Controller, NextController(c)
    PROVE  SearchInv'
<1> USE DEF SearchInv, NextController
<1>1. local(query.starts, c) \subseteq Node
  BY DEF local
<1>2. TypeOK'
  <2>1. tree' \in [Node -> Node \cup {NodeEnd}]
    BY <1>1 DEF new_tree
  <2> QED BY <1>1, <2>1 DEF TypeOK
<1>3. Phases' /\ StackRight' /\ DiscoveredReached' /\ NeighborsLeft'
  BY DEF Phases, StackRight, DiscoveredReached, NeighborsLeft
<1>4. StartsTaken'
  BY DEF StartsTaken, Origins
<1> QED BY <1>2, <1>3, <1>4

\* A starting point that is taken, and how it is discovered if it is.
LEMMA StartDiscovers ==
    ASSUME SearchInv, NEW n \in Node, NextStart(n), n \notin discovered
    PROVE  Discovers(tree, n, neighbors) /\ n \in Origins
<1>1. n \in starts /\ n \in Origins /\ ctrl_id \notin start_map /\ ctrl_id \in Controller
  BY DEF SearchInv, NextStart, Phases, StartsTaken, TypeOK
<1>2. n \in Reached(ctrl_id)
  BY <1>1, OriginReached DEF Origins, Reached
<1> QED BY <1>1, <1>2 DEF SearchInv, TypeOK, NextStart, Discovers

LEMMA NextStartSearch ==
    ASSUME SearchInv, NEW n \in Node, NextStart(n)
    PROVE  SearchInv'
<1>1. CASE n \notin discovered
  <2>1. Discovers(tree, n, neighbors)
    BY <1>1, StartDiscovers
  <2>2. starts' = starts \ {n}
    BY DEF NextStart
  <2> QED BY <2>1, <2>2, DiscoverSearch
<1>2. CASE n \in discovered
  <2>1. UNCHANGED <<query, start_map, ctrl_id, stack, neighbors, discovered, found, pc>>
        /\ starts' = starts \ {n}
    BY <1>2 DEF NextStart
  <2> USE <2>1 DEF SearchInv, found
  <2>2. TypeOK' /\ Phases'
    BY DEF TypeOK, Phases
  <2>3. StartsTaken'
    BY <1>2 DEF StartsTaken, Origins
  <2>4. StackRight' /\ DiscoveredReached' /\ NeighborsLeft'
    BY DEF StackRight, DiscoveredReached, NeighborsLeft, OnStack, Stop, Stops, Edges, Reached
  <2> QED BY <2>2, <2>3, <2>4
<1> QED BY <1>1, <1>2

\* What the innermost node is.
LEMMA TopFacts ==
    ASSUME SearchInv, stack # <<>>
    PROVE  LET from == stack[Len(stack)]
           IN  /\ Len(stack) \in DOMAIN stack /\ from \in Node
               /\ from \in discovered /\ ~Stop(from)
               /\ neighbors[from] \subseteq Successors(Node, Edges(ctrl_id), from)
               /\ ctrl_id \notin start_map /\ pc = "search"
<1>1. stack \in Seq(Node) /\ Len(stack) \in DOMAIN stack
  BY DEF SearchInv, TypeOK
<1>2. stack[Len(stack)] \in Node
  BY <1>1
<1>3. ctrl_id \notin start_map /\ pc = "search"
  BY DEF SearchInv, TypeOK, Phases
<1> QED BY <1>1, <1>2, <1>3 DEF SearchInv, StackRight

\* The neighbours of the innermost node without n.
Todo(n) == [neighbors EXCEPT ![stack[Len(stack)]] = @ \ {n}]

\* A neighbour that is yielded, and how it is discovered if it is.
LEMMA NeighborDiscovers ==
    ASSUME SearchInv, NEW n \in Node, NextNeighbor(n), n \notin discovered
    PROVE  LET from == stack[Len(stack)]
           IN  /\ Discovers(edge(from, n), n, Todo(n))
               /\ from \in discovered /\ from \in Node /\ ~Stop(from) /\ from # n
               /\ <<from, n>> \in Edges(ctrl_id)
<1> DEFINE from == stack[Len(stack)]
<1>0. stack # <<>>
  BY DEF NextNeighbor
<1>1. /\ from \in Node /\ from \in discovered /\ ~Stop(from)
      /\ neighbors[from] \subseteq Successors(Node, Edges(ctrl_id), from)
      /\ ctrl_id \notin start_map /\ pc = "search" /\ ctrl_id \in Controller
  BY <1>0, TopFacts DEF SearchInv, TypeOK
<1>2. n \in neighbors[from] /\ discover(edge(from, n), n, Todo(n))
      /\ UNCHANGED <<query, start_map, ctrl_id, pc>>
  BY DEF NextNeighbor, Todo
<1> HIDE DEF from
<1>3. <<from, n>> \in Edges(ctrl_id) /\ from # n
  BY <1>1, <1>2 DEF Successors
<1>4. n \in Reached(ctrl_id)
  <2>1. from \in ReachedUpTo(query, Stops, ctrl_id) /\ <<ctrl_id, from>> \notin Stops
    BY <1>1 DEF SearchInv, DiscoveredReached, Reached, Stop
  <2> QED BY <1>1, <1>3, <2>1, StepReached DEF Edges, Reached
<1>5. edge(from, n) \in [Node -> Node \cup {NodeEnd}]
  <2>1. tree \in [Node -> Node \cup {NodeEnd}] /\ query.level \in TraceLevel
    BY QueryFacts DEF SearchInv, TypeOK
  <2> QED BY <1>1, <2>1 DEF edge, TraceLevel
<1>6. Todo(n) \in [Node -> SUBSET Node]
      /\ \A m \in Node : Todo(n)[m] \subseteq neighbors[m]
                         /\ neighbors[m] \subseteq Todo(n)[m] \cup {n}
  BY <1>1 DEF Todo, SearchInv, TypeOK, from
<1>7. Discovers(edge(from, n), n, Todo(n))
  BY <1>1, <1>2, <1>4, <1>5, <1>6 DEF Discovers
<1> QED BY <1>1, <1>3, <1>7 DEF from

LEMMA NextNeighborSearch ==
    ASSUME SearchInv, NEW n \in Node, NextNeighbor(n)
    PROVE  SearchInv'
<1>0. stack # <<>> /\ starts' = starts
  BY DEF NextNeighbor
<1>1. CASE n \notin discovered
  BY <1>0, <1>1, NeighborDiscovers, DiscoverSearch
<1>2. CASE n \in discovered
  <2> DEFINE from == stack[Len(stack)]
  <2>1. /\ UNCHANGED <<query, start_map, ctrl_id, starts, stack, discovered, found, pc>>
        /\ neighbors' = Todo(n)
    BY <1>2 DEF NextNeighbor, Todo
  <2>2. from \in Node
    BY <1>0, TopFacts
  <2> USE DEF SearchInv
  <2>3. neighbors \in [Node -> SUBSET Node] /\ discovered \in SUBSET Node
    BY DEF TypeOK
  <2>4. /\ Todo(n) \in [Node -> SUBSET Node]
        /\ \A m \in Node : /\ Todo(n)[m] \subseteq neighbors[m]
                           /\ neighbors[m] \subseteq Todo(n)[m] \cup {n}
    BY <2>2, <2>3 DEF Todo
  <2>5. TypeOK' /\ Phases' /\ StartsTaken' /\ DiscoveredReached'
    BY <2>1, <2>4 DEF TypeOK, Phases, StartsTaken, Origins, DiscoveredReached,
                      Reached, Stops, found
  <2>6. StackRight'
    <3>1. \A i \in DOMAIN stack : stack[i] \in Node
      BY <2>3 DEF StackRight
    <3> QED BY <2>1, <2>4, <3>1 DEF StackRight, Stop, Stops, Edges
  <2>7. NeighborsLeft'
    BY <1>2, <2>1, <2>3, <2>4 DEF NeighborsLeft, OnStack, Stop, Stops, Edges
  <2> QED BY <2>5, <2>6, <2>7
<1> QED BY <1>1, <1>2

LEMMA FinishSearch ==
    ASSUME SearchInv, Finish
    PROVE  SearchInv'
<1> DEFINE top == stack[Len(stack)]
<1>1. /\ stack # <<>> /\ stack \in Seq(Node) /\ neighbors[top] = {}
      /\ stack' = SubSeq(stack, 1, Len(stack) - 1)
      /\ UNCHANGED <<query, start_map, ctrl_id, starts, neighbors, discovered, found, pc>>
  BY DEF Finish, SearchInv, TypeOK
<1>2. /\ stack' \in Seq(Node) /\ Len(stack') = Len(stack) - 1
      /\ \A i \in 1 .. Len(stack) - 1 : stack'[i] = stack[i]
  BY <1>1, Popped
<1>3. /\ \A i \in DOMAIN stack' : i \in DOMAIN stack /\ stack'[i] = stack[i]
      /\ \A i \in DOMAIN stack : i \in DOMAIN stack' \/ i = Len(stack)
  BY <1>1, <1>2
<1> USE DEF SearchInv
<1>4. TypeOK' /\ StartsTaken' /\ DiscoveredReached' /\ Phases'
  <2>1. stack # <<>> => ctrl_id \notin start_map /\ pc # "done"
    BY DEF Phases
  <2> QED BY <1>1, <1>2, <2>1 DEF TypeOK, StartsTaken, Origins, DiscoveredReached,
                                  Phases, Reached, Stops, found
<1>5. StackRight'
  BY <1>1, <1>3 DEF StackRight, Stop, Stops, Edges
<1>6. NeighborsLeft'
  <2>1. ASSUME NEW n, OnStack(n), neighbors[n] # {} PROVE OnStack(n)'
    BY <1>1, <1>3, <2>1 DEF OnStack
  <2> QED BY <1>1, <2>1 DEF NeighborsLeft, Stop, Stops, Edges
<1> QED BY <1>4, <1>5, <1>6

\* What changes none of the variables of the search, but for its end.
LEMMA ElsewhereSearch ==
    ASSUME SearchInv, UNCHANGED <<query, search, found>>,
           pc' = pc \/ (pc' = "done" /\ start_map = {} /\ starts = {} /\ stack = <<>>)
    PROVE  SearchInv'
<1> USE DEF SearchInv, search, found
<1>1. TypeOK' /\ Phases' /\ StartsTaken'
  BY DEF TypeOK, Phases, StartsTaken, Origins
<1>2. StackRight' /\ DiscoveredReached' /\ NeighborsLeft'
  BY DEF StackRight, DiscoveredReached, NeighborsLeft, OnStack, Stop, Stops, Edges, Reached
<1> QED BY <1>1, <1>2

LEMMA NextSearch ==
    ASSUME SearchInv, [Next]_vars
    PROVE  SearchInv'
<1>1. ASSUME NEW c \in Controller, NextController(c) PROVE SearchInv'
  BY <1>1, NextControllerSearch
<1>2. ASSUME NEW n \in Node, NextStart(n) PROVE SearchInv'
  BY <1>2, NextStartSearch
<1>3. ASSUME NEW n \in Node, NextNeighbor(n) PROVE SearchInv'
  BY <1>3, NextNeighborSearch
<1>4. CASE Finish
  BY <1>4, FinishSearch
<1>5. CASE Return
  BY <1>5, ElsewhereSearch DEF Return
<1>6. CASE Report
  BY <1>6, ElsewhereSearch DEF Report
<1>7. CASE UNCHANGED vars
  BY <1>7, ElsewhereSearch DEF vars
<1> QED BY <1>1, <1>2, <1>3, <1>4, <1>5, <1>6, <1>7 DEF Next, Search

-----------------------------------------------------------------------------
(***************************************************************************)
(* The way up the tree.                                                    *)
(***************************************************************************)
\* In a rooted tree the way up from a node comes to a starting point in no more
\* steps than there are nodes: otherwise it would come by some node twice.
LEMMA PathUp ==
    ASSUME NEW D \in SUBSET Node, NEW t \in [Node -> Node \cup {NodeEnd}], NEW n \in D,
           TreeOf(t, D), Rooted(t, D)
    PROVE  LET p == path_up(t, n)
           IN  /\ p \in Seq(D) /\ p # <<>> /\ p[1] = n
               /\ \A k \in 2 .. Len(p) : t[p[k - 1]] = p[k] /\ p[k - 1] # p[k]
               /\ t[p[Len(p)]] = p[Len(p)]
<1> DEFINE N == Cardinality(Node)
           S == Seq(D) \ {<<>>}
           up(p) == IF t[p[Len(p)]] = p[Len(p)] THEN p ELSE Append(p, t[p[Len(p)]])
           g == [p \in S |-> up(p)]
           Climbs(c) == c = [k \in Nat |-> IF k = 0 THEN <<n>> ELSE up(c[k - 1])]
           climb == CHOOSE c : Climbs(c)
           last(k) == climb[k][Len(climb[k])]
<1>1. path_up(t, n) = climb[N]
  BY DEF path_up
<1>2. ASSUME NEW p \in S
      PROVE  /\ Len(p) \in Nat /\ Len(p) \in DOMAIN p /\ p[Len(p)] \in D /\ p[Len(p)] \in Node
             /\ up(p) \in S /\ up(p)[1] = p[1]
             /\ up(p)[Len(up(p))] = t[p[Len(p)]]
             /\ t[p[Len(p)]] # p[Len(p)] => up(p) = Append(p, t[p[Len(p)]])
             /\ t[p[Len(p)]] \in D
  <2> DEFINE x == p[Len(p)]
  <2>1. Len(p) \in Nat /\ Len(p) \in DOMAIN p /\ x \in D /\ 1 \in DOMAIN p
    OBVIOUS
  <2>2. t[x] \in D
    BY <2>1 DEF TreeOf
  <2> HIDE DEF x
  <2>3. LET q == Append(p, t[x])
        IN  q \in Seq(D) /\ q # <<>> /\ q[1] = p[1] /\ q[Len(q)] = t[x]
    BY <2>1, <2>2
  <2> QED BY <2>1, <2>2, <2>3 DEF x
<1>3. <<n>> \in S /\ g \in [S -> S]
  BY <1>2
<1> HIDE DEF S, up
<1>4. \E c \in [Nat -> S] : Climbs(c)
  <2>1. PICK f \in [Nat -> S] : f[0] = <<n>> /\ \A k \in Nat : f[k + 1] = g[f[k]]
    <3> HIDE DEF g
    <3> DEFINE a == <<n>>
    <3>1. a \in S /\ g \in [S -> S]
      BY <1>3
    <3> HIDE DEF a
    <3>2. \E f \in [Nat -> S] : f[0] = a /\ \A k \in Nat : f[k + 1] = g[f[k]]
      BY <3>1, IteratesExist
    <3> QED BY <3>2 DEF a
  <2>2. ASSUME NEW k \in Nat, k # 0 PROVE f[k] = up(f[k - 1])
    <3>1. k - 1 \in Nat /\ (k - 1) + 1 = k
      BY <2>2
    <3> QED BY <2>1, <3>1
  <2> QED BY <2>1, <2>2
<1>5. Climbs(climb)
  <2> HIDE DEF Climbs
  <2> QED BY <1>4
<1> HIDE DEF climb
<1>6. climb[0] = <<n>> /\ \A k \in Nat : climb[k + 1] = up(climb[k])
  BY <1>5
<1> HIDE DEF Climbs
<1>7. ASSUME NEW k \in Nat PROVE climb[k] \in S
  <2> DEFINE T == {i \in Nat : climb[i] \in S}
  <2>1. 0 \in T
    BY <1>3, <1>6
  <2>2. ASSUME NEW i \in Nat, i \in T PROVE i + 1 \in T
    <3>1. up(climb[i]) \in S
      BY <1>2, <2>2
    <3> QED BY <1>6, <3>1
  <2> HIDE DEF T
  <2>3. Nat \subseteq T
    BY <2>1, <2>2, Induction
  <2> QED BY <2>3 DEF T
<1>8. ASSUME NEW k \in Nat
      PROVE  last(k) \in D /\ last(k) \in Node /\ last(k + 1) = t[last(k)]
  BY <1>2, <1>6, <1>7
\* The way so far.
<1>9. ASSUME NEW k \in Nat
      PROVE  /\ climb[k][1] = n
             /\ \A j \in 2 .. Len(climb[k]) :
                   t[climb[k][j - 1]] = climb[k][j] /\ climb[k][j - 1] # climb[k][j]
  <2> DEFINE Way(p) == /\ p[1] = n
                       /\ \A j \in 2 .. Len(p) : t[p[j - 1]] = p[j] /\ p[j - 1] # p[j]
             T == {i \in Nat : Way(climb[i])}
  <2>1. 0 \in T
    <3>1. Way(<<n>>)
      OBVIOUS
    <3> QED BY <1>6, <3>1
  <2>2. ASSUME NEW i \in Nat, i \in T PROVE i + 1 \in T
    <3> DEFINE p == climb[i]
               x == p[Len(p)]
    <3>1. p \in S /\ Way(p) /\ climb[i + 1] = up(p)
      BY <1>6, <1>7, <2>2
    <3>2. up(p)[1] = n /\ Len(p) \in Nat /\ p \in Seq(D) /\ p # <<>>
          /\ (t[x] = x => up(p) = p) /\ (t[x] # x => up(p) = Append(p, t[x]) /\ t[x] \in D)
      BY <1>2, <3>1 DEF up, S
    <3> HIDE DEF p, x
    <3>3. CASE t[x] = x
      BY <3>1, <3>2, <3>3
    <3>4. CASE t[x] # x
      <4>1. up(p) = Append(p, t[x]) /\ Len(up(p)) = Len(p) + 1
        BY <3>2, <3>4
      <4>2. ASSUME NEW j \in 2 .. Len(p) + 1
            PROVE  t[up(p)[j - 1]] = up(p)[j] /\ up(p)[j - 1] # up(p)[j]
        <5>1. CASE j = Len(p) + 1
          <6>1. up(p)[j] = t[x] /\ up(p)[j - 1] = x
            BY <3>2, <4>1, <5>1 DEF x
          <6> QED BY <3>4, <6>1
        <5>2. CASE j # Len(p) + 1
          <6>1. j \in 2 .. Len(p) /\ j - 1 \in 1 .. Len(p)
            BY <3>2, <5>2
          <6>2. up(p)[j] = p[j] /\ up(p)[j - 1] = p[j - 1]
            BY <3>2, <4>1, <6>1
          <6> QED BY <3>1, <6>1, <6>2
        <5> QED BY <5>1, <5>2
      <4>3. Way(up(p))
        BY <3>2, <4>1, <4>2
      <4> QED BY <3>1, <4>3
    <3> QED BY <3>3, <3>4
  <2> HIDE DEF T
  <2>3. Nat \subseteq T
    BY <2>1, <2>2, Induction
  <2> QED BY <2>3 DEF T
<1>10. N \in Nat
  BY FiniteAssumption, FS_CardinalityType
\* If it is not there by then, it was not there before.
<1>11. ASSUME t[last(N)] # last(N), NEW k \in Nat, k <= N PROVE t[last(k)] # last(k)
  <2> DEFINE T == {i \in Nat : i <= N => t[last(N - i)] # last(N - i)}
  <2> HIDE DEF N, last
  <2>1. 0 \in T
    BY <1>10, <1>11
  <2>2. ASSUME NEW i \in Nat, i \in T PROVE i + 1 \in T
    <3> SUFFICES ASSUME i + 1 <= N PROVE t[last(N - (i + 1))] # last(N - (i + 1))
      OBVIOUS
    <3>1. N - (i + 1) \in Nat /\ (N - (i + 1)) + 1 = N - i /\ i <= N
      BY <1>10
    <3>2. last(N - i) = t[last(N - (i + 1))]
      BY <1>8, <3>1
    <3> QED BY <2>2, <3>1, <3>2
  <2>3. Nat \subseteq T
    <3> HIDE DEF T
    <3> QED BY <2>1, <2>2, Induction
  <2>4. N - k \in Nat /\ N - k <= N /\ N - (N - k) = k
    BY <1>10, <1>11
  <2> QED BY <2>3, <2>4
<1>12. t[last(N)] = last(N)
  <2> SUFFICES ASSUME t[last(N)] # last(N) PROVE FALSE
    OBVIOUS
  <2> HIDE DEF last, N
  <2> DEFINE f == [k \in 0 .. N |-> last(k)]
  <2>1. f \in [0 .. N -> Node]
    BY <1>8, <1>10
  <2>2. IsFiniteSet(0 .. N) /\ Cardinality(0 .. N) = N + 1
    BY <1>10, FS_Interval
  <2>3. IsFiniteSet(Node) /\ Cardinality(Node) < Cardinality(0 .. N)
    BY <1>10, <2>2, FiniteAssumption DEF N
  <2>4. PICK x \in 0 .. N, y \in 0 .. N : x # y /\ f[x] = f[y]
    <3> HIDE DEF f
    <3> QED BY <2>1, <2>2, <2>3, FS_PigeonHole
  <2>5. PICK i \in 0 .. N, j \in 0 .. N : i < j /\ last(i) = last(j)
    BY <2>4
  <2> DEFINE T == {last(k) : k \in i .. j - 1}
  <2>6. T \in SUBSET D /\ T # {}
    BY <1>8, <2>5
  <2>7. ASSUME NEW k \in i .. j - 1 PROVE t[last(k)] # last(k) /\ t[last(k)] \in T
    <3>1. k \in Nat /\ k <= N
      BY <1>10
    <3>2. t[last(k)] = last(k + 1) /\ t[last(k)] # last(k)
      BY <1>8, <1>11, <3>1
    <3>3. k + 1 \in i .. j - 1 \/ k + 1 = j
      BY <3>1
    <3>4. i \in i .. j - 1
      BY <2>5
    <3> QED BY <2>5, <3>2, <3>3, <3>4
  <2>8. \A m \in T : t[m] # m /\ t[m] \in T
    BY <2>7
  <2> HIDE DEF T
  <2> QED BY <2>6, <2>8 DEF Rooted
<1>13. climb[N] \in S
  BY <1>7, <1>10
<1> QED BY <1>1, <1>9, <1>10, <1>12, <1>13 DEF S

-----------------------------------------------------------------------------
(***************************************************************************)
(* The traces: TraceInv and TracesReal are preserved.                      *)
(***************************************************************************)
\* Where n was discovered from: it is a starting point with nobody before it, or
\* the target of an edge from a discovered node that does not stop.
From(t, n) ==
    \/ n \in Origins /\ t = tree
    \/ \E from \in discovered :
          /\ ~Stop(from) /\ from # n /\ <<from, n>> \in Edges(ctrl_id)
          /\ t = edge(from, n)

\* With full tracing the tree grows by one node.
LEMMA TreeGrows ==
    ASSUME SearchInv, TraceInv, NEW t, NEW n, NEW todo, Discovers(t, n, todo),
           From(t, n), query.level = "Full"
    PROVE  TreeOf(t, discovered \cup {n}) /\ Rooted(t, discovered \cup {n})
<1> DEFINE D == discovered \cup {n}
<1>1. /\ tree \in [Node -> Node \cup {NodeEnd}] /\ n \in Node \ discovered
      /\ discovered \in SUBSET Node /\ ctrl_id \notin start_map
  BY DEF SearchInv, TypeOK, Discovers
<1>2. TreeOf(tree, discovered) /\ Rooted(tree, discovered)
  BY DEF TraceInv, FullTree
<1>3. /\ \A m \in discovered : t[m] = tree[m]
      /\ \/ t[n] = n /\ n \in Origins
         \/ t[n] \in discovered /\ t[n] # n /\ ~Stop(t[n]) /\ <<t[n], n>> \in Edges(ctrl_id)
  <2>1. CASE n \in Origins /\ t = tree
    BY <1>1, <2>1 DEF TraceInv, OwnOrigin
  <2>2. ASSUME NEW from \in discovered, ~Stop(from), from # n,
               <<from, n>> \in Edges(ctrl_id), t = edge(from, n)
        PROVE  <1>3
    <3>1. t = [tree EXCEPT ![n] = from]
      BY <2>2 DEF edge
    <3> QED BY <1>1, <2>2, <3>1
  <2> QED BY <2>1, <2>2 DEF From
<1>4. TreeOf(t, D)
  BY <1>2, <1>3 DEF TreeOf
<1>5. Rooted(t, D)
  <2> SUFFICES ASSUME NEW T \in SUBSET D, T # {} PROVE \E m \in T : t[m] = m \/ t[m] \notin T
    BY DEF Rooted
  <2>1. CASE T \ {n} = {}
    <3>1. n \in T /\ T = {n}
      BY <2>1
    <3> QED BY <1>3, <3>1
  <2>2. CASE T \ {n} # {}
    <3>1. T \ {n} \in SUBSET discovered
      OBVIOUS
    <3>2. PICK m \in T \ {n} : tree[m] = m \/ tree[m] \notin T \ {n}
      BY <1>2, <2>2, <3>1 DEF Rooted
    <3>3. m \in discovered /\ t[m] = tree[m]
      BY <1>3, <3>2
    <3>4. t[m] # n
      BY <1>1, <1>2, <3>2, <3>3 DEF TreeOf
    <3> QED BY <3>2, <3>3, <3>4
  <2> QED BY <2>1, <2>2
<1> QED BY <1>4, <1>5

\* With start and end, the origin of n is that of the node it was discovered from.
LEMMA EndTreeGrows ==
    ASSUME SearchInv, TraceInv, NEW t, NEW n, NEW todo, Discovers(t, n, todo),
           From(t, n), query.level = "StartAndEnd"
    PROVE  \A m \in discovered \cup {n} :
              /\ t[m] \in Origins
              /\ Reaches(Node, DataUpTo(query, query.checkpoint, ctrl_id), t[m], m)
<1> DEFINE R == DataUpTo(query, query.checkpoint, ctrl_id)
<1>1. /\ tree \in [Node -> Node \cup {NodeEnd}] /\ n \in Node \ discovered
      /\ discovered \in SUBSET Node /\ ctrl_id \notin start_map
  BY DEF SearchInv, TypeOK, Discovers
<1>2. \A m \in discovered : tree[m] \in Origins /\ Reaches(Node, R, tree[m], m)
  BY DEF TraceInv, EndTree
<1>3. Origins \subseteq Node
  BY DEF Origins, local
<1>4. \A m \in discovered : t[m] = tree[m]
  BY <1>1 DEF From, edge
<1>5. t[n] \in Origins /\ Reaches(Node, R, t[n], n)
  <2> HIDE DEF R
  <2>1. CASE n \in Origins /\ t = tree
    BY <1>1, <2>1, ReachesRefl DEF TraceInv, OwnOrigin
  <2>2. ASSUME NEW from \in discovered, ~Stop(from), <<from, n>> \in Edges(ctrl_id),
               t = edge(from, n)
        PROVE  <1>5
    <3>1. t[n] = tree[from] /\ tree[from] \in Node /\ from \in Node
      BY <1>1, <1>2, <1>3, <2>2 DEF edge
    <3>2. <<from, n>> \in R
      BY <2>2 DEF R, DataUpTo, CutAfter, local, Edges, Stop, Stops
    <3> QED BY <1>1, <1>2, <3>1, <3>2, ReachesEdge, ReachesTrans
  <2> QED BY <2>1, <2>2 DEF From
<1> QED BY <1>2, <1>4, <1>5

\* The trace a terminal leaves is real and names its end first.
LEMMA TerminalTrace ==
    ASSUME SearchInv, TraceInv, NEW t, NEW n, NEW todo, Discovers(t, n, todo),
           From(t, n), query.level # "None", stop_at(n) = "terminal"
    PROVE  \E p : /\ terminal(t, n) = reached \cup {p}
                  /\ p[1] = <<ctrl_id, n>>
                  /\ query.level = "StartAndEnd" =>
                        p \in GlobalNode \X GlobalNode /\ ViolatingEnds(p[1], p[2])
                  /\ query.level = "Full" => p \in Path /\ ViolatingPath(p)
<1>1. /\ n \in Node /\ ctrl_id \in Controller /\ query.level \in TraceLevel
      /\ discovered \in SUBSET Node /\ n \notin discovered
      /\ <<ctrl_id, n>> \in query.terminal /\ <<ctrl_id, n>> \notin query.checkpoint
  BY QueryFacts DEF SearchInv, TypeOK, Discovers, stop_at, is_checkpoint, is_terminal
<1>2. CASE query.level = "StartAndEnd"
  <2> DEFINE p == << <<ctrl_id, n>>, <<ctrl_id, t[n]>> >>
  <2>1. terminal(t, n) = reached \cup {p}
    BY <1>2 DEF terminal
  <2>2. t[n] \in Origins
        /\ Reaches(Node, DataUpTo(query, query.checkpoint, ctrl_id), t[n], n)
    BY <1>2, EndTreeGrows
  <2>3. t[n] \in Node /\ <<ctrl_id, t[n]>> \in query.starts
    BY <2>2 DEF Origins, local
  <2>4. p \in GlobalNode \X GlobalNode
    BY <1>1, <2>3 DEF GlobalNode
  <2>5. ViolatingEnds(p[1], p[2])
    BY <1>1, <2>2, <2>3 DEF ViolatingEnds
  <2> HIDE DEF p
  <2>6. p[1] = <<ctrl_id, n>>
    BY DEF p
  <2> QED BY <1>2, <2>1, <2>4, <2>5, <2>6
<1>3. CASE query.level = "Full"
  <2> DEFINE D == discovered \cup {n}
             u == path_up(t, n)
             p == [k \in DOMAIN u |-> <<ctrl_id, u[k]>>]
  <2>1. terminal(t, n) = reached \cup {p}
    BY <1>3 DEF terminal
  <2>2. TreeOf(t, D) /\ Rooted(t, D) /\ D \in SUBSET Node
        /\ t \in [Node -> Node \cup {NodeEnd}] /\ n \in D
    BY <1>1, <1>3, TreeGrows DEF Discovers
  <2>3. /\ u \in Seq(D) /\ u # <<>> /\ u[1] = n
        /\ \A k \in 2 .. Len(u) : t[u[k - 1]] = u[k] /\ u[k - 1] # u[k]
        /\ t[u[Len(u)]] = u[Len(u)]
    <3> HIDE DEF D
    <3> QED BY <2>2, PathUp
  <2> HIDE DEF u, D
  <2>4. /\ Len(u) \in Nat /\ 1 \in DOMAIN u /\ Len(u) \in DOMAIN u /\ DOMAIN u = 1 .. Len(u)
        /\ \A k \in DOMAIN u : u[k] \in D /\ u[k] \in Node
    BY <2>2, <2>3
  <2>5. p \in Path /\ Len(p) = Len(u) /\ \A k \in 1 .. Len(u) : p[k] = <<ctrl_id, u[k]>>
    <3>1. \A k \in 1 .. Len(u) : <<ctrl_id, u[k]>> \in GlobalNode
      BY <1>1, <2>4 DEF GlobalNode
    <3> QED BY <2>4, <3>1 DEF Path
  <2> HIDE DEF p
  <2>6. p[1] = <<ctrl_id, n>>
    BY <2>3, <2>4, <2>5
  <2>7. p[1] \in query.terminal
    BY <1>1, <2>6
  <2>8. p[Len(p)] \in query.starts
    <3>1. u[Len(u)] \in Origins
      BY <2>2, <2>3, <2>4 DEF TreeOf
    <3> QED BY <2>4, <2>5, <3>1 DEF Origins, local
  \* What is behind the first node is no stop, and an edge leads on.
  <2>9. ASSUME NEW k \in 2 .. Len(u)
        PROVE  ~Stop(u[k]) /\ <<u[k], u[k - 1]>> \in Edges(ctrl_id)
    <3>1. k - 1 \in DOMAIN u
      BY <2>4
    <3>2. t[u[k - 1]] = u[k] /\ u[k - 1] # u[k] /\ u[k - 1] \in D
      BY <2>3, <2>4, <3>1
    <3> QED BY <2>2, <3>2 DEF TreeOf
  <2>10. \A k \in 1 .. Len(p) : p[k] \notin query.checkpoint
    <3> SUFFICES ASSUME NEW k \in 1 .. Len(u) PROVE <<ctrl_id, u[k]>> \notin query.checkpoint
      BY <2>5
    <3>1. CASE k = 1
      BY <1>1, <2>3, <3>1
    <3>2. CASE k # 1
      <4>1. k \in 2 .. Len(u)
        BY <2>4, <3>2
      <4> QED BY <2>9, <4>1 DEF Stop, Stops
    <3> QED BY <3>1, <3>2
  <2>11. \A k \in 2 .. Len(p) :
            /\ p[k] \notin query.terminal
            /\ p[k][1] = p[1][1]
            /\ <<p[k][2], p[k - 1][2]>> \in filter_graph(query.spdg[p[1][1]], "Data")
    <3> SUFFICES ASSUME NEW k \in 2 .. Len(u)
                 PROVE  /\ p[k] \notin query.terminal
                        /\ p[k][1] = p[1][1]
                        /\ <<p[k][2], p[k - 1][2]>>
                              \in filter_graph(query.spdg[p[1][1]], "Data")
      BY <2>5
    <3>1. k \in 1 .. Len(u) /\ k - 1 \in 1 .. Len(u)
      BY <2>4
    <3>2. p[k] = <<ctrl_id, u[k]>> /\ p[k - 1] = <<ctrl_id, u[k - 1]>>
      BY <2>5, <3>1
    <3> QED BY <2>6, <2>9, <3>2 DEF Stop, Stops, Edges
  <2>12. ViolatingPath(p)
    BY <2>7, <2>8, <2>10, <2>11 DEF ViolatingPath
  <2> QED BY <1>3, <2>1, <2>5, <2>6, <2>12
<1> QED BY <1>1, <1>2, <1>3 DEF TraceLevel

LEMMA DiscoverTrace ==
    ASSUME SearchInv, TraceInv, TracesReal, NEW t, NEW n, NEW todo,
           Discovers(t, n, todo), From(t, n)
    PROVE  TraceInv' /\ TracesReal'
<1>1. /\ discovered' = discovered \cup {n} /\ tree' = t /\ ctrl_id' = ctrl_id
      /\ query' = query /\ start_map' = start_map /\ n \in Node \ discovered
      /\ reached' = IF stop_at(n) = "terminal" THEN terminal(t, n) ELSE reached
  BY DEF Discovers, discover
<1>2. Origins' = Origins /\ Edges(ctrl_id)' = Edges(ctrl_id) /\ \A m : Stop(m)' <=> Stop(m)
  BY <1>1 DEF Origins, Edges, Stop, Stops
<1>3. OwnOrigin'
  <2>1. \A m \in Node \ {n} : t[m] = tree[m]
    <3>1. query.level \in TraceLevel /\ tree \in [Node -> Node \cup {NodeEnd}]
      BY QueryFacts DEF SearchInv, TypeOK
    <3> QED BY <1>1, <3>1 DEF From, edge, TraceLevel
  <2>2. Origins \subseteq Node
    BY DEF Origins, local
  <2> QED BY <1>1, <1>2, <2>1, <2>2 DEF TraceInv, OwnOrigin
<1>4. EndTree'
  BY <1>1, <1>2, EndTreeGrows DEF EndTree
<1>5. FullTree'
  <2>1. query.level = "Full" =>
           TreeOf(t, discovered \cup {n}) /\ Rooted(t, discovered \cup {n})
    BY TreeGrows
  <2> QED BY <1>1, <1>2, <2>1 DEF FullTree, TreeOf, Rooted
<1>6. TracesTyped' /\ TracesReal'
  <2>1. CASE stop_at(n) # "terminal" \/ query.level = "None"
    BY <1>1, <2>1 DEF TraceInv, TracesTyped, TracesReal, ViolatingPath, ViolatingEnds
  <2>2. CASE stop_at(n) = "terminal" /\ query.level # "None"
    <3>1. PICK p : /\ reached' = reached \cup {p}
                   /\ query.level = "StartAndEnd" =>
                         p \in GlobalNode \X GlobalNode /\ ViolatingEnds(p[1], p[2])
                   /\ query.level = "Full" => p \in Path /\ ViolatingPath(p)
      BY <1>1, <2>2, TerminalTrace
    <3>2. TracesTyped'
      BY <1>1, <3>1 DEF TraceInv, TracesTyped
    <3>3. TracesReal'
      BY <1>1, <3>1 DEF TracesReal, ViolatingPath, ViolatingEnds
    <3> QED BY <3>2, <3>3
  <2> QED BY <2>1, <2>2
<1> QED BY <1>3, <1>4, <1>5, <1>6 DEF TraceInv

\* A controller's search starts with every starting point its own origin.
LEMMA NextControllerTrace ==
    ASSUME SearchInv, TraceInv, TracesReal, NEW c \in Controller, NextController(c)
    PROVE  TraceInv' /\ TracesReal'
<1>1. /\ discovered' = {} /\ query' = query /\ reached' = reached /\ ctrl_id' = c
      /\ tree' = new_tree(local(query.starts, c))
  BY DEF NextController
<1>2. OwnOrigin'
  BY <1>1 DEF OwnOrigin, Origins, new_tree, local
<1>3. EndTree' /\ FullTree'
  BY <1>1 DEF EndTree, FullTree, TreeOf, Rooted
<1>4. TracesTyped' /\ TracesReal'
  BY <1>1 DEF TraceInv, TracesTyped, TracesReal, ViolatingPath, ViolatingEnds
<1> QED BY <1>2, <1>3, <1>4 DEF TraceInv

LEMMA ElsewhereTrace ==
    ASSUME TraceInv, TracesReal, UNCHANGED <<query, start_map, ctrl_id, discovered, found>>
    PROVE  TraceInv' /\ TracesReal'
<1> USE DEF found
<1>1. OwnOrigin' /\ EndTree' /\ TracesTyped'
  BY DEF TraceInv, OwnOrigin, EndTree, TracesTyped, Origins
<1>2. FullTree'
  BY DEF TraceInv, FullTree, TreeOf, Rooted, Origins, Stop, Stops, Edges
<1>3. TracesReal'
  BY DEF TracesReal, ViolatingPath, ViolatingEnds
<1> QED BY <1>1, <1>2, <1>3 DEF TraceInv

\* Each step either discovers a node, or takes a controller, or does neither.
LEMMA NextCases ==
    ASSUME SearchInv, [Next]_vars
    PROVE  \/ \E c \in Controller : NextController(c)
           \/ \E n, t, todo : Discovers(t, n, todo) /\ From(t, n)
           \/ UNCHANGED <<query, start_map, ctrl_id, discovered, found>>
<1>1. ASSUME NEW n \in Node, NextStart(n)
      PROVE  \/ \E t, todo : Discovers(t, n, todo) /\ From(t, n)
             \/ UNCHANGED <<query, start_map, ctrl_id, discovered, found>>
  <2>1. CASE n \notin discovered
    BY <1>1, <2>1, StartDiscovers DEF From
  <2>2. CASE n \in discovered
    BY <1>1, <2>2 DEF NextStart
  <2> QED BY <2>1, <2>2
<1>2. ASSUME NEW n \in Node, NextNeighbor(n)
      PROVE  \/ \E t, todo : Discovers(t, n, todo) /\ From(t, n)
             \/ UNCHANGED <<query, start_map, ctrl_id, discovered, found>>
  <2>1. CASE n \notin discovered
    BY <1>2, <2>1, NeighborDiscovers DEF From
  <2>2. CASE n \in discovered
    BY <1>2, <2>2 DEF NextNeighbor
  <2> QED BY <2>1, <2>2
<1>3. Finish \/ Return \/ Report \/ UNCHANGED vars =>
         UNCHANGED <<query, start_map, ctrl_id, discovered, found>>
  BY DEF Finish, Return, Report, vars, search
<1> QED BY <1>1, <1>2, <1>3 DEF Next, Search

LEMMA NextTrace ==
    ASSUME SearchInv, TraceInv, TracesReal, [Next]_vars
    PROVE  TraceInv' /\ TracesReal'
  BY NextCases, NextControllerTrace, DiscoverTrace, ElsewhereTrace

LEMMA InitTrace ==
    ASSUME Init
    PROVE  TraceInv /\ TracesReal
<1> USE DEF Init
<1>1. query.level \in TraceLevel
  BY QueryFacts
<1>2. OwnOrigin
  BY DEF OwnOrigin, Origins
<1>3. EndTree /\ FullTree
  BY DEF EndTree, FullTree, TreeOf, Rooted
<1>4. TracesTyped /\ TracesReal
  BY DEF TracesTyped, TracesReal
<1> QED BY <1>2, <1>3, <1>4 DEF TraceInv

-----------------------------------------------------------------------------
(***************************************************************************)
(* The stops: CountInv is preserved.                                       *)
(***************************************************************************)
LEMMA SeenFacts ==
    ASSUME SearchInv
    PROVE  /\ \A c \in Controller : Seen(c) \subseteq Node
           /\ Ends \in SUBSET GlobalNode /\ IsFiniteSet(Ends) /\ Cardinality(Ends) \in Nat
<1>1. \A c \in Controller : Seen(c) \subseteq Node
  BY DEF SearchInv, TypeOK, Seen, Reached, ReachedUpTo
<1>2. Ends \in SUBSET GlobalNode
  BY QueryFacts DEF SearchInv, TypeOK, Ends, SeenIn
<1>3. IsFiniteSet(GlobalNode)
  BY FiniteAssumption, FS_Product DEF GlobalNode
<1> QED BY <1>1, <1>2, <1>3, FS_Subset, FS_CardinalityType

\* What a discovery adds to the nodes seen.
LEMMA SeenGrows ==
    ASSUME SearchInv, NEW t, NEW n, NEW todo, Discovers(t, n, todo)
    PROVE  \A G \in SUBSET GlobalNode :
              /\ SeenIn(G)' = SeenIn(G) \cup ({<<ctrl_id, n>>} \cap G)
              /\ <<ctrl_id, n>> \notin SeenIn(G)
<1>1. /\ discovered' = discovered \cup {n} /\ ctrl_id' = ctrl_id /\ query' = query
      /\ start_map' = start_map /\ n \in Node \ discovered /\ ctrl_id \in Controller
  BY DEF SearchInv, TypeOK, Discovers, discover
<1>2. \A c \in Controller : Seen(c)' = IF c = ctrl_id THEN Seen(c) \cup {n} ELSE Seen(c)
  BY <1>1, QueryKept DEF Seen
<1>3. n \notin Seen(ctrl_id)
  BY <1>1 DEF Seen
<1> TAKE G \in SUBSET GlobalNode
<1>4. \A g \in G : g[1] \in Controller /\ g[2] \in Node /\ g = <<g[1], g[2]>>
  BY DEF GlobalNode
<1>5. SeenIn(G)' = {g \in G : g[2] \in Seen(g[1])'}
  BY DEF SeenIn
<1> QED BY <1>2, <1>3, <1>4, <1>5 DEF SeenIn

LEMMA DiscoverCount ==
    ASSUME SearchInv, TraceInv, CountInv, NEW t, NEW n, NEW todo,
           Discovers(t, n, todo), From(t, n)
    PROVE  CountInv'
<1> DEFINE e == <<ctrl_id, n>>
<1>1. /\ query' = query
      /\ checkpointed' = checkpointed \cup (IF stop_at(n) = "checkpoint" THEN {e} ELSE {})
      /\ reached' = IF stop_at(n) = "terminal" THEN terminal(t, n) ELSE reached
  BY DEF Discovers, discover
<1>2. query.checkpoint \in SUBSET GlobalNode /\ query.terminal \in SUBSET GlobalNode
  BY QueryFacts DEF SearchInv, TypeOK
<1>3. /\ stop_at(n) = "checkpoint" <=> e \in query.checkpoint
      /\ stop_at(n) = "terminal" <=> e \in query.terminal \ query.checkpoint
  BY DEF stop_at, is_checkpoint, is_terminal
<1>4. checkpointed' = SeenIn(query.checkpoint)'
  <2>1. SeenIn(query.checkpoint)' = SeenIn(query.checkpoint) \cup ({e} \cap query.checkpoint)
    BY <1>1, <1>2, SeenGrows DEF SeenIn
  <2> QED BY <1>1, <1>3, <2>1 DEF CountInv
<1>5. Ends' = Ends \cup (IF stop_at(n) = "terminal" THEN {e} ELSE {}) /\ e \notin Ends
  <2>1. query.terminal \ query.checkpoint \in SUBSET GlobalNode
    BY <1>2
  <2>2. Ends' = SeenIn(query.terminal \ query.checkpoint)'
    BY DEF Ends
  <2> QED BY <1>1, <1>3, <2>1, <2>2, SeenGrows DEF Ends, SeenIn
<1>6. IsFiniteSet(Ends)
  BY SeenFacts
<1> HIDE DEF e
<1>7. CASE stop_at(n) # "terminal"
  BY <1>1, <1>4, <1>5, <1>7 DEF CountInv
<1>8. CASE stop_at(n) = "terminal" /\ query.level = "None"
  <2>1. Cardinality(Ends') = Cardinality(Ends) + 1
    BY <1>5, <1>6, <1>8, FS_AddElement
  <2> QED BY <1>1, <1>4, <1>8, <2>1 DEF CountInv, terminal
<1>9. CASE stop_at(n) = "terminal" /\ query.level # "None"
  <2>1. PICK p : reached' = reached \cup {p} /\ p[1] = e
    BY <1>1, <1>9, TerminalTrace DEF e
  <2> QED BY <1>1, <1>4, <1>5, <1>9, <2>1 DEF CountInv
<1> QED BY <1>7, <1>8, <1>9

\* The search of a controller that has ended has discovered all it reaches, and
\* that of the next one has yet to begin.
LEMMA NextControllerCount ==
    ASSUME SearchInv, CountInv, NEW c \in Controller, NextController(c)
    PROVE  CountInv'
<1>1. /\ stack = <<>> /\ starts = {} /\ c \in start_map /\ discovered' = {}
      /\ start_map' = start_map \ {c} /\ ctrl_id' = c
      /\ query' = query /\ reached' = reached /\ checkpointed' = checkpointed
  BY DEF NextController
<1>2. \A d \in Controller : Seen(d)' = Seen(d)
  <2> TAKE d \in Controller
  <2>1. Reached(d)' = Reached(d)
    BY <1>1, QueryKept
  <2>2. CASE d = c
    BY <1>1, <2>2 DEF Seen, SearchInv, Phases
  <2>3. CASE d # c /\ d = ctrl_id
    <3>1. d \notin start_map => discovered = Reached(d)
      BY <1>1, <2>3, SearchDone
    <3>2. d \in start_map => discovered = {}
      BY <2>3 DEF SearchInv, Phases
    <3> QED BY <1>1, <2>1, <2>3, <3>1, <3>2 DEF Seen
  <2>4. CASE d # c /\ d # ctrl_id
    BY <1>1, <2>1, <2>4 DEF Seen
  <2> QED BY <2>2, <2>3, <2>4
<1>3. \A G \in SUBSET GlobalNode : SeenIn(G)' = SeenIn(G)
  BY <1>2 DEF SeenIn, GlobalNode
<1>4. query.checkpoint \in SUBSET GlobalNode /\ query.terminal \in SUBSET GlobalNode
  BY QueryFacts DEF SearchInv, TypeOK
<1>5. SeenIn(query.checkpoint)' = SeenIn(query.checkpoint) /\ Ends' = Ends
  BY <1>1, <1>3, <1>4 DEF Ends, SeenIn
<1> QED BY <1>1, <1>5 DEF CountInv

LEMMA NextCount ==
    ASSUME SearchInv, TraceInv, CountInv, [Next]_vars
    PROVE  CountInv'
<1>1. ASSUME UNCHANGED <<query, start_map, ctrl_id, discovered, found>> PROVE CountInv'
  <2>1. Ends' = Ends /\ SeenIn(query.checkpoint)' = SeenIn(query.checkpoint)
    BY <1>1 DEF Ends, SeenIn, Seen, Reached, Stops
  <2> QED BY <1>1, <2>1 DEF CountInv, found
<1> QED BY <1>1, NextCases, NextControllerCount, DiscoverCount

LEMMA InitCount ==
    ASSUME Init
    PROVE  CountInv
<1>1. query \in Queries /\ ctrl_id \in Controller
  BY DEF Init
<1>2. \A c \in Controller : Seen(c) = {}
  BY DEF Init, Seen, Reached, ReachedUpTo, local
<1>3. \A G \in SUBSET GlobalNode : SeenIn(G) = {}
  BY <1>2 DEF SeenIn, GlobalNode
<1>4. SeenIn(query.checkpoint) = {} /\ Ends = {}
  BY <1>1, <1>3, QueryFacts DEF Ends
<1> QED BY <1>4, FS_EmptySet DEF Init, CountInv

-----------------------------------------------------------------------------
(***************************************************************************)
(* The answer.                                                             *)
(***************************************************************************)
LEMMA InitIInv == Init => IInv
  BY InitSearch, InitCount, InitTrace DEF IInv

LEMMA NextIInv == IInv /\ [Next]_vars => IInv'
  BY NextSearch, NextCount, NextTrace DEF IInv

LEMMA Invariance == Spec => []IInv
  BY InitIInv, NextIInv, PTL DEF Spec

\* At the end each controller was searched.
LEMMA DoneSeen ==
    ASSUME SearchInv, pc = "done"
    PROVE  \A c \in Controller : Seen(c) = Reached(c)
  BY SearchDone DEF SearchInv, Phases, Seen

\* There are as many traces as ends.
LEMMA LenCounts ==
    ASSUME SearchInv, CountInv
    PROVE  len = Cardinality(Ends) /\ (query.level # "None" => (len = 0 <=> reached = {}))
<1>1. CASE query.level = "None"
  BY <1>1 DEF CountInv, len
<1>2. CASE query.level # "None"
  <2> DEFINE f == [g \in Ends |-> CHOOSE p \in reached : p[1] = g]
  <2>1. \A g \in Ends : f[g] \in reached /\ f[g][1] = g
    BY <1>2 DEF CountInv
  <2>2. f \in [Ends -> reached]
    BY <2>1
  <2> HIDE DEF f
  <2>3. f \in Bijection(Ends, reached)
    BY <1>2, <2>1, <2>2 DEF CountInv, Bijection, Injection, Surjection, IsInjective
  <2>4. IsFiniteSet(reached) /\ Cardinality(reached) = Cardinality(Ends)
    BY <2>3, SeenFacts, FS_Bijection DEF ExistsBijection
  <2> QED BY <1>2, <2>4, FS_EmptySet DEF len
<1> QED BY <1>1, <1>2

\* The stops met and the ends counted are those of the paths.
LEMMA StopsCounted ==
    ASSUME IInv
    PROVE  MeetsEveryStop
<1> SUFFICES ASSUME pc = "done"
             PROVE  /\ checkpointed = Met(query.checkpoint)
                    /\ len = Cardinality(Met(query.terminal \ query.checkpoint))
  BY DEF MeetsEveryStop
<1>1. SearchInv /\ CountInv
  BY DEF IInv
<1>2. query.checkpoint \in SUBSET GlobalNode /\ query.terminal \in SUBSET GlobalNode
  BY <1>1, QueryFacts DEF SearchInv, TypeOK
<1>3. \A G \in SUBSET GlobalNode : SeenIn(G) = Met(G)
  <2> TAKE G \in SUBSET GlobalNode
  <2>1. \A g \in G : g[1] \in Controller
    BY DEF GlobalNode
  <2> QED BY <1>1, <2>1, DoneSeen DEF SeenIn, Met, Reached, Stops
<1> QED BY <1>1, <1>2, <1>3, LenCounts DEF CountInv, Ends

\* The answer is that of the quantification over all paths.
AnswerRight ==
    pc = "done" => /\ holds <=> ~Violated(query)
                   /\ is_vacuous <=> Vacuous(query)

LEMMA AnswerIsRight ==
    ASSUME IInv
    PROVE  AnswerRight
<1> SUFFICES ASSUME pc = "done"
             PROVE  /\ holds <=> ~Violated(query)
                    /\ is_vacuous <=> Vacuous(query)
  BY DEF AnswerRight
<1>1. SearchInv /\ CountInv
  BY DEF IInv
<1>2. query.checkpoint \in SUBSET GlobalNode /\ query.terminal \in SUBSET GlobalNode
  BY <1>1, QueryFacts DEF SearchInv, TypeOK
\* What was seen of a set of nodes, controller by controller.
<1>3. ASSUME NEW G \in SUBSET GlobalNode
      PROVE  SeenIn(G) = {} <=> \A c \in Controller : Reached(c) \cap local(G, c) = {}
  <2>1. \A g \in G : g[1] \in Controller /\ g[2] \in Node /\ g = <<g[1], g[2]>>
    BY DEF GlobalNode
  <2>2. \A g \in G : g \in SeenIn(G) <=> g[2] \in Reached(g[1]) \cap local(G, g[1])
    BY <1>1, <2>1, DoneSeen DEF SeenIn, local
  <2>3. \A c \in Controller, n \in Node : n \in local(G, c) => <<c, n>> \in G
    BY DEF local
  <2>4. \A c \in Controller : Reached(c) \subseteq Node
    BY DEF Reached, ReachedUpTo
  <2>5. ASSUME NEW c \in Controller, NEW n \in Reached(c) \cap local(G, c)
        PROVE  SeenIn(G) # {}
    <3>1. <<c, n>> \in G /\ <<c, n>>[1] = c /\ <<c, n>>[2] = n
      BY <2>3, <2>4
    <3> QED BY <2>2, <3>1
  <2>6. ASSUME NEW g \in SeenIn(G)
        PROVE  \E c \in Controller : Reached(c) \cap local(G, c) # {}
    <3>1. g \in G
      BY DEF SeenIn
    <3> QED BY <2>1, <2>2, <3>1
  <2> QED BY <2>5, <2>6
<1>4. holds <=> Ends = {}
  BY <1>1, LenCounts, SeenFacts, FS_EmptySet DEF holds
<1>5. holds <=> ~Violated(query)
  <2> DEFINE G == query.terminal \ query.checkpoint
  <2>1. ASSUME NEW c \in Controller
        PROVE  Reached(c) \cap local(G, c) = {}
                  <=> ReachedUpTo(query, query.checkpoint, c) \cap local(G, c) = {}
    <3>1. Stops \ query.checkpoint = G /\ query.checkpoint \subseteq Stops
      BY DEF Stops
    <3> HIDE DEF G
    <3>2. /\ ReachedUpTo(query, Stops, c) \subseteq ReachedUpTo(query, query.checkpoint, c)
          /\ ReachedUpTo(query, Stops, c) \cap local(G, c) = {} =>
                ReachedUpTo(query, query.checkpoint, c) \subseteq ReachedUpTo(query, Stops, c)
      BY <3>1, MoreStops
    <3> QED BY <3>2 DEF Reached
  <2>2. G \in SUBSET GlobalNode
    BY <1>2
  <2>3. Ends = SeenIn(G)
    BY DEF Ends
  <2>4. Violated(query) <=>
           \E c \in Controller :
               ReachedUpTo(query, query.checkpoint, c) \cap local(G, c) # {}
    BY DEF Violated
  <2> HIDE DEF G
  <2> QED BY <1>3, <1>4, <2>1, <2>2, <2>3, <2>4
<1>6. is_vacuous <=> Vacuous(query)
  <2>1. is_vacuous <=> SeenIn(query.checkpoint) = {} /\ Ends = {}
    BY <1>1, <1>4 DEF is_vacuous, holds, CountInv
  <2>2. SeenIn(query.checkpoint) = {} /\ Ends = {} <=> SeenIn(Stops) = {}
    BY DEF SeenIn, Ends, Stops
  <2>3. ASSUME NEW c \in Controller
        PROVE  Reached(c) \cap local(Stops, c) = {}
                  <=> ReachedUpTo(query, {}, c) \cap local(Stops, c) = {}
    <3>1. Stops \ {} = Stops /\ {} \subseteq Stops
      OBVIOUS
    <3>2. /\ ReachedUpTo(query, Stops, c) \subseteq ReachedUpTo(query, {}, c)
          /\ ReachedUpTo(query, Stops, c) \cap local(Stops, c) = {} =>
                ReachedUpTo(query, {}, c) \subseteq ReachedUpTo(query, Stops, c)
      BY <3>1, MoreStops
    <3> QED BY <3>2 DEF Reached
  <2>4. Stops \in SUBSET GlobalNode
    BY <1>2 DEF Stops
  <2>5. Vacuous(query) <=>
           \A c \in Controller : ReachedUpTo(query, {}, c) \cap local(Stops, c) = {}
    <3>1. query.terminal \cup query.checkpoint = Stops
      BY DEF Stops
    <3> QED BY <3>1 DEF Vacuous
  <2> QED BY <1>3, <2>1, <2>2, <2>3, <2>4, <2>5
<1> QED BY <1>5, <1>6

\* HappensBefore means the same by its notions.
LEMMA SameMeaning ==
    ASSUME NEW q
    PROVE  HB!Violated(q) = Violated(q) /\ HB!Vacuous(q) = Vacuous(q)
<1>1. \A S, c : HB!ReachedUpTo(q, S, c) = ReachedUpTo(q, S, c)
  BY DEF HB!ReachedUpTo, ReachedUpTo, HB!DataUpTo, DataUpTo, HB!local, local,
         HB!CutAfter, CutAfter, HB!filter_graph, filter_graph, HB!Reaches, Reaches,
         HB!ClosedUnder, ClosedUnder
<1> QED BY <1>1, Zenon
        DEF HB!Violated, Violated, HB!Vacuous, Vacuous, HB!local, local

\* Every step of the search and the report is one of HappensBefore, or none.
LEMMA StepImplements ==
    ASSUME IInv, AnswerRight, AnswerRight', [Next]_vars
    PROVE  [HB!Next]_(HB!vars)
<1>1. ASSUME pc' = pc, pc = "search", UNCHANGED <<query, emitted>> PROVE UNCHANGED HB!vars
  BY <1>1 DEF HB!vars
<1>2. Search => pc = "search" /\ UNCHANGED <<query, emitted>>
  BY DEF Search, NextController, NextStart, NextNeighbor, Finish, Return,
         IInv, SearchInv, TypeOK, Phases
<1>3. CASE Search /\ ~Return
  <2>1. pc' = pc
    BY <1>3 DEF Search, NextController, NextStart, NextNeighbor, Finish
  <2> QED BY <1>1, <1>2, <1>3, <2>1
<1>4. CASE Return
  <2>1. pc = "search" /\ pc' = "done" /\ query' = query /\ emitted' = emitted
    BY <1>4 DEF Return
  <2>2. holds' = ~Violated(query) /\ is_vacuous' = Vacuous(query)
    <3>1. /\ holds' \in BOOLEAN /\ is_vacuous' \in BOOLEAN
          /\ Violated(query) \in BOOLEAN /\ Vacuous(query) \in BOOLEAN
      BY DEF holds, is_vacuous, Violated, Vacuous
    <3>2. (holds' <=> ~Violated(query)) /\ (is_vacuous' <=> Vacuous(query))
      BY <2>1 DEF AnswerRight
    <3> QED BY <3>1, <3>2
  <2>3. HB!Answer
    <3>1. (\E d \in emitted' : d[1] = "error") = (\E d \in emitted : d[1] = "error")
      BY <2>1
    <3>2. {[holds |-> holds', vacuous |-> is_vacuous']} =
             {[holds |-> ~Violated(query), vacuous |-> Vacuous(query)]}
      BY <2>2
    <3> QED BY <2>1, <3>1, <3>2, SameMeaning DEF HB!Answer
  <2> QED BY <2>3 DEF HB!Next
<1>5. CASE Report
  <2>1. pc = "done" /\ pc' = "done" /\ UNCHANGED <<query, reached, checkpointed>>
    BY <1>5 DEF Report, found
  <2>2. holds' = holds /\ is_vacuous' = is_vacuous /\ query' = query
    BY <2>1 DEF holds, is_vacuous, len
  <2>3. (\E d \in emitted' : d[1] = "error") <=> ~holds
    <3>1. CASE holds
      <4>1. \A d \in emitted' : d[1] = "warning"
        <5>1. emitted' \subseteq {<<"warning", "Started with 0 nodes.">>,
                                  <<"warning", "Is vacuously true.">>}
          BY <1>5, <3>1 DEF Report
        <5>2. \A m : <<"warning", m>>[1] = "warning"
          OBVIOUS
        <5> QED BY <5>1, <5>2, Zenon
      <4> QED BY <3>1, <4>1
    <3>2. CASE ~holds
      <4>1. emit \subseteq emitted'
        BY <1>5, <3>2 DEF Report
      <4>2. \E d \in emit : d[1] = "error"
        <5>1. query.level # "None" => reached # {}
          BY <3>2, LenCounts DEF holds, IInv
        <5>2. PICK r : r \in IF query.level = "None" THEN {<<reached>>} ELSE reached
          BY <5>1
        <5>3. <<"error", r>> \in emit /\ <<"error", r>>[1] = "error"
          BY <5>2 DEF emit
        <5> QED BY <5>3
      <4> QED BY <3>2, <4>1, <4>2
    <3> QED BY <3>1, <3>2
  <2>4. HB!Report
    BY <2>1, <2>2, <2>3 DEF HB!Report, holds
  <2> QED BY <2>4 DEF HB!Next
<1>6. CASE UNCHANGED vars
  BY <1>6 DEF vars, found, HB!vars, holds, is_vacuous, len
<1> QED BY <1>3, <1>4, <1>5, <1>6 DEF Next

-----------------------------------------------------------------------------
(***************************************************************************)
(* The theorems.                                                           *)
(***************************************************************************)
(***************************************************************************)
(* Variables have their types: the stack holds nodes, the tree leads to    *)
(* nodes or nowhere, a count of traces is a number.                        *)
(***************************************************************************)
THEOREM Typing == Spec => []TypeOK
<1>1. IInv => TypeOK
  BY DEF IInv, SearchInv
<1> QED BY <1>1, Invariance, PTL

(***************************************************************************)
(* Every trace reported is a path that violates the property, or joins     *)
(* the ends of one, although the tree it is read from is shared by all     *)
(* starting points and rewritten as the search goes on.                    *)
(***************************************************************************)
THEOREM Traces == Spec => []TracesReal
<1>1. IInv => TracesReal
  BY DEF IInv
<1> QED BY <1>1, Invariance, PTL

(***************************************************************************)
(* When the search ends it has met each checkpoint and each unblessed      *)
(* terminal that is the first stop of a path, and counted it once.         *)
(***************************************************************************)
THEOREM StopsMet == Spec => []MeetsEveryStop
<1>1. IInv => MeetsEveryStop
  BY StopsCounted
<1> QED BY <1>1, Invariance, PTL

(***************************************************************************)
(* always_happens_before does what HappensBefore promises, but for the     *)
(* promise that it answers in the end: one answer, that of the             *)
(* quantification over all paths, and reports that fail the policy exactly *)
(* when the property does not hold.                                        *)
(***************************************************************************)
THEOREM Refinement == Spec => HB!Safety
<1>1. Init => HB!Init
  BY DEF Init, HB!Init
<1>2. IInv => AnswerRight
  BY AnswerIsRight
<1>3. IInv /\ AnswerRight /\ AnswerRight' /\ [Next]_vars => [HB!Next]_(HB!vars)
  BY StepImplements
<1> QED BY <1>1, <1>2, <1>3, Invariance, PTL DEF Spec, HB!Safety
=============================================================================
